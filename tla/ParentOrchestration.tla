------------------------ MODULE ParentOrchestration ------------------------
(***************************************************************************)
(* Parent orchestration: a run that works through the sub-issues of an     *)
(* issue, one child at a time.                                             *)
(*                                                                         *)
(* The parent run discovers the children, classifies them, selects the     *)
(* first that can still be worked and launches or resumes its workflow     *)
(* inline, in its own thread.  It then waits, parked, for the child's      *)
(* pull request to be merged, refreshes and goes on; when no child is left *)
(* it evaluates completion and closes the parent issue.  A child is an     *)
(* issue like any other, so the daemon may claim it, resume its run and    *)
(* recover its lease, and every write of the parent to the lease of a      *)
(* child is a conditional update that may lose.                            *)
(*                                                                         *)
(* The runs of a child are numbered in the order they are minted.  One     *)
(* pull request per child; children are numbered in their native order.    *)
(***************************************************************************)
EXTENDS LeaseStore, FiniteSets, FiniteSetsExt

CONSTANTS
    Children,   \* issue numbers, in the order of the sub-issue list
    FirstSubs,  \* the sub-issues the parent starts with
    BodyRefs,   \* the children its body refers to
    Listed,     \* the children that match the filters of the daemon's discovery
    MaxRuns,    \* runs of each child
    WaitForHumanMerge,  \* whether a parent waits where a child has only the merge left
    MaxFaults   \* deaths, timeouts, errors, failures of a child, overdue
                \* heartbeats and children closed by hand, together

ASSUME ParentAssumption ==
    /\ Children \subseteq Nat \ {0}
    /\ FirstSubs \subseteq Children /\ BodyRefs \subseteq Children /\ Listed \subseteq Children
    /\ WaitForHumanMerge \in BOOLEAN /\ MaxRuns \in [Children -> Nat] /\ MaxFaults \in Nat

VARIABLES
    issue, pr,       \* per child, on GitHub
    subs,            \* the parent's sub-issues
    pissue, labels,  \* the parent's state, and who has the working label
    lease, run,      \* rows of issue_leases, and of runs by child and number
    exec,            \* executions of child runs that are under way
    found,           \* what the daemon's discovery listed and has not claimed
    par, art,        \* the parent run, and its artifacts
    returned,        \* history: children whose lease was given back under a parked run
    faults

github == <<issue, pr, subs, pissue, labels>>
vars == <<issue, pr, subs, pissue, labels, lease, run, exec, found, par, art, returned, faults>>

Parent == 0
NoChild == 0
Runs(c) == 1 .. MaxRuns[c]
NoTarget == [child |-> NoChild, run |-> NoRun]
NoState == [status |-> "none", by |-> "none"]
AbsentStatus == "none"

\* The artifacts of a parent run before its first step.
NoArtifacts ==
    [children |-> {}, snap |-> <<>>, order |-> {}, sel |-> NoChild,
     rollup |-> [c \in Children |-> AbsentStatus],
     cwait |-> NoTarget, mwait |-> NoChild, complete |-> FALSE, blocked |-> FALSE]

FreshParent ==
    [mode |-> "running", step |-> "load_parent_issue", phase |-> "enter", held |-> AbsentRow,
     rid |-> NoRun, ctx |-> NoRun, pr |-> NoChild, target |-> NoTarget]

Init ==
    /\ issue = [c \in Children |-> "open"] /\ pr = [c \in Children |-> "none"]
    /\ subs = FirstSubs
    /\ pissue = "open" /\ labels = {}
    /\ lease = [c \in Children |-> AbsentRow] /\ run = [c \in Children |-> [n \in Runs(c) |-> NoState]]
    /\ exec = {} /\ found = {} /\ returned = {} /\ faults = 0
    /\ par = FreshParent /\ art = NoArtifacts

Fault == faults < MaxFaults /\ faults' = faults + 1

-----------------------------------------------------------------------------
(* What the parent reads                                                   *)

RunStatus(c, n) == IF n = NoRun THEN AbsentStatus ELSE run[c][n].status

\* A run that is terminal, or that has only the merge left to wait for.
child_workflow_completed(c, row) == RunStatus(c, row.run_id) \in {"completed", "review_ready", "merged"}

\* The adapter ranks the pull requests of an issue; one that was closed
\* unmerged is not usable, and the issue then has none.
pr_relevance_key(p) == CASE p = "open" -> 2 [] p = "merged" -> 1 [] OTHER -> 0
pr_reference_usable(p) == pr_relevance_key(p) > 0
pr_state_for_issue(c) == IF pr_reference_usable(pr[c]) THEN pr[c] ELSE "none"

\* The native sub-issues, or the references of the body where the API has none.
list_sub_issues(native) == IF native THEN subs ELSE BodyRefs

is_observable_existing_pr(p) == p = "open"

\* Mutant: a merged pull request is taken for a finished issue.
classify_child_merged(i, p) ==
    CASE p = "merged" -> "Merged"
      [] p = "open" -> "ActiveRun"
      [] p = "none" /\ i = "closed" -> "Closed"
      [] p = "none" /\ i = "open" -> "Open"

classify_child(i, p) ==
    CASE p = "merged" /\ i = "closed" -> "Merged"
      [] p = "merged" /\ i = "open" -> "MergedIssueOpen"
      [] p = "open" -> "ActiveRun"
      [] p = "none" /\ i = "closed" -> "Closed"
      [] p = "none" /\ i = "open" -> "Open"

stale_child_run(row) == row.overdue

apply_child_run_state(c, state) ==
    LET row == lease[c] IN
    CASE row.status \in {"failed", "abandoned", "cleanup_abandoned", "stale"} /\ issue[c] = "open" ->
           "FailedRun"
      [] row.status \in {"claimed", "waiting_external", "ready_to_resume", "running"} ->
           IF stale_child_run(row) /\ issue[c] = "open" THEN "StaleRun"
           ELSE IF ~child_workflow_completed(c, row) THEN "ActiveRun" ELSE state
      [] OTHER -> state

\* Outcomes of the rollup that nothing but a merge settles.
unresolved_rollup_outcome_requires_pr(outcome) ==
    outcome \in {"missing_child_pr", "failed_child_run", "active_child_lease", "completed_failure"}

apply_child_rollup_state(c, state) ==
    IF unresolved_rollup_outcome_requires_pr(art.rollup[c]) THEN "Blocked" ELSE state

classify_child_with_run_state(c) ==
    apply_child_rollup_state(c,
        apply_child_run_state(c, classify_child(issue[c], pr_state_for_issue(c))))

child_state_blocks_selection(state) ==
    state \in {"Merged", "MergedIssueOpen", "Closed", "Blocked"}

missing_ordered_child_states(a) == a.order \ DOMAIN a.snap

\* The native position, then the number: the model's children are numbered so.
order_subissues(children) == children

next_actionable_child(a) ==
    LET free == {c \in a.order : ~child_state_blocks_selection(a.snap[c])}
    IN  IF free = {} THEN NoChild ELSE Min(free)

has_active_or_recoverable_child_lease(row) ==
    row.status \in {"ready_to_resume", "failed", "abandoned", "stale", "waiting_external",
                    "claimed", "running"}

-----------------------------------------------------------------------------
(* Steps of the graph                                                      *)

At(step) == par.mode = "running" /\ par.step = step
InLaunch(phase) == At("launch_or_resume_child_workflow") /\ par.phase = phase

\* What a step held is gone when it is left.
Left(p) == [p EXCEPT !.phase = "enter", !.held = AbsentRow, !.rid = NoRun]
To(p, step) == [Left(p) EXCEPT !.step = step]
update_rollup(a, c, outcome) == [a EXCEPT !.rollup[c] = outcome]

\* The identity of the wait: the child run that the artifact names, or the
\* pull request that the run's metadata names, the artifact's when it has none.
fill_parent_dependency_wait_identity(p, a) ==
    IF p.step = "launch_or_resume_child_workflow" THEN a.cwait
    ELSE [child |-> IF p.pr # NoChild THEN p.pr ELSE a.mwait, run |-> NoRun]

validate_wait_poll_identity(p, target) ==
    IF p.step = "launch_or_resume_child_workflow" THEN target.run # NoRun ELSE target.child # NoChild

\* A Wait outcome parks the run; a wait without an identity is an error.
persist_external_wait_state(p, a) ==
    LET target == fill_parent_dependency_wait_identity(p, a) IN
    IF validate_wait_poll_identity(p, target)
    THEN [Left(p) EXCEPT !.mode = "waiting", !.target = target,
                         !.pr = IF target.run = NoRun THEN target.child ELSE @]
    ELSE [Left(p) EXCEPT !.mode = "failed"]

load_parent_issue ==
    /\ At("load_parent_issue")
    /\ labels' = labels \cup {Parent}
    /\ par' = To(par, "discover_subissues")
    /\ UNCHANGED <<issue, pr, subs, pissue, returned, lease, run, exec, found, art, faults>>

\* The refresh also forgets the selection.
discover_subissues ==
    /\ \E native \in BOOLEAN :
           LET children == list_sub_issues(native) IN
           \/ At("discover_subissues") /\ art' = [art EXCEPT !.children = children]
           \/ At("refresh_parent_and_children")
              /\ art' = [art EXCEPT !.children = children, !.sel = NoChild]
    /\ par' = To(par, "classify_subissues")
    /\ UNCHANGED <<github, returned, lease, run, exec, found, faults>>

classify_subissues ==
    /\ At("classify_subissues")
    /\ art' = [art EXCEPT !.snap = [c \in art.children |-> classify_child_with_run_state(c)]]
    /\ par' = To(par, "determine_subissue_order")
    /\ UNCHANGED <<github, returned, lease, run, exec, found, faults>>

determine_subissue_order ==
    /\ At("determine_subissue_order")
    /\ art' = [art EXCEPT !.order = order_subissues(art.children)]
    /\ par' = To(par, "select_next_child")
    /\ UNCHANGED <<github, returned, lease, run, exec, found, faults>>

select_next_child ==
    /\ At("select_next_child")
    /\ LET next == IF missing_ordered_child_states(art) # {} THEN NoChild
                   ELSE next_actionable_child(art)
       IN  /\ art' = [art EXCEPT !.sel = next]
           /\ par' = To(par, IF next = NoChild THEN "evaluate_parent_completion"
                             ELSE "launch_or_resume_child_workflow")
    /\ UNCHANGED <<github, returned, lease, run, exec, found, faults>>

-----------------------------------------------------------------------------
(* Launching or resuming the child                                         *)

\* A pull request somebody else opened is observed, not worked.
observe_existing_child_pr(c) ==
    /\ labels' = labels \cup {c}
    /\ art' = update_rollup(art, c, "observing_existing_child_pr")
    /\ par' = To(par, "wait_for_child_merge")

\* A child that is under way elsewhere: park on its run, unless it is merged.
wait_for_existing_child(c, row, reason) ==
    LET waiting == [update_rollup(art, c, reason) EXCEPT !.cwait = [child |-> c, run |-> row.run_id]]
    IN  IF RunStatus(c, row.run_id) = "merged"
        THEN /\ art' = update_rollup(art, c, "child_workflow_completed_waiting_for_pr_merge")
             /\ par' = To(par, "wait_for_child_merge")
        ELSE /\ art' = waiting
             /\ par' = persist_external_wait_state(par, waiting)

\* What to do about the lease the parent read.
prepare_child_lease_with_conn(c, row) ==
    \/ /\ row.status = "absent"
       /\ par' = [par EXCEPT !.phase = "claim", !.held = row] /\ art' = art
    \/ /\ row.status = "ready_to_resume" /\ ~child_workflow_completed(c, row)
       /\ par' = [par EXCEPT !.phase = "resume", !.held = row] /\ art' = art
    \/ /\ row.status \in {"failed", "abandoned", "stale"}
       /\ par' = [par EXCEPT !.phase = "relaunch", !.held = row] /\ art' = art
    \/ /\ row.status = "ready_to_resume" /\ child_workflow_completed(c, row)
       /\ wait_for_existing_child(c, row, "child_workflow_completed_waiting_for_pr_merge")
    \/ /\ row.status \in {"waiting_external", "claimed", "running"}
       /\ wait_for_existing_child(c, row, "active_child_lease")
    \/ /\ row.status = "cleanup_abandoned"
       /\ wait_for_existing_child(c, row, "cleanup_abandoned_requires_continuation")
    \/ /\ row.status \in {"pending", "completed"}
       /\ wait_for_existing_child(c, row, "non_actionable_child_lease")

launch_child_workflow ==
    LET c == art.sel  row == lease[c] IN
    /\ InLaunch("enter") /\ c # NoChild
    /\ IF is_observable_existing_pr(pr_state_for_issue(c))
             /\ ~has_active_or_recoverable_child_lease(row)
       THEN observe_existing_child_pr(c)
       ELSE prepare_child_lease_with_conn(c, row) /\ UNCHANGED labels
    /\ UNCHANGED <<issue, pr, subs, pissue, returned, lease, run, exec, found, faults>>

\* A lost race leaves a wait that names no run.
contended(c, reason) == wait_for_existing_child(c, AbsentRow, reason)

claim_child_lease ==
    LET c == art.sel IN
    /\ InLaunch("claim")
    /\ IF claim_wins(lease[c])
       THEN /\ lease' = [lease EXCEPT ![c] = try_claim(@)]
            /\ par' = [par EXCEPT !.phase = "start", !.held = try_claim(lease[c])]
            /\ UNCHANGED art
       ELSE contended(c, "child_lease_claim_contended") /\ UNCHANGED lease
    /\ UNCHANGED <<github, returned, run, exec, found, faults>>

\* UPDATE ... SET status, run_id, updated_at: the heartbeat stays as old as it is.
clear_child_lease_for_relaunch(row) == [row EXCEPT !.status = "claimed", !.run_id = NoRun]

prepare_relaunchable_child ==
    LET c == art.sel  row == par.held IN
    /\ InLaunch("relaunch")
    /\ IF cas_applies(lease[c], row.lease_id, {row.status}, {row.run_id})
       THEN /\ lease' = [lease EXCEPT ![c] = clear_child_lease_for_relaunch(@)]
            /\ par' = [par EXCEPT !.phase = "start",
                                  !.held = clear_child_lease_for_relaunch(lease[c])]
            /\ UNCHANGED art
       ELSE contended(c, "child_lease_relaunch_contended") /\ UNCHANGED lease
    /\ UNCHANGED <<github, returned, run, exec, found, faults>>

\* Mutant: a lease that already runs may be taken again.
claim_running_lease_cas_again(row, held, expected) ==
    cas_applies(row, held.lease_id, {expected, "running"}, {held.run_id})

claim_running_lease_cas(row, held, expected) ==
    cas_applies(row, held.lease_id, {expected}, {held.run_id})

ToRunning(row, n) == [row EXCEPT !.status = "running", !.run_id = n, !.overdue = FALSE]

Minted(c) == {n \in Runs(c) : run[c][n] # NoState}

\* The run id exists from here on: the lease names it before the run has a row.
start_child_workflow ==
    LET c == art.sel  n == Cardinality(Minted(c)) + 1 IN
    /\ InLaunch("start") /\ n \in Runs(c)
    /\ IF claim_running_lease_cas(lease[c], par.held, "claimed")
       THEN /\ lease' = [lease EXCEPT ![c] = ToRunning(@, n)]
            /\ run' = [run EXCEPT ![c][n] = [status |-> "unborn", by |-> "parent"]]
            /\ par' = [par EXCEPT !.phase = "label", !.rid = n]
       ELSE /\ par' = persist_external_wait_state(par, art)
            /\ UNCHANGED <<lease, run>>
    /\ UNCHANGED <<github, returned, exec, found, art, faults>>

resume_child_workflow ==
    LET c == art.sel  n == par.held.run_id IN
    /\ InLaunch("resume")
    /\ IF claim_running_lease_cas(lease[c], par.held, "ready_to_resume")
       THEN /\ lease' = [lease EXCEPT ![c] = ToRunning(@, n)]
            /\ par' = [par EXCEPT !.phase = "recover", !.rid = n]
       ELSE /\ par' = persist_external_wait_state(par, art)
            /\ UNCHANGED lease
    /\ UNCHANGED <<github, returned, run, exec, found, art, faults>>

Execution(c, n, who) == [child |-> c, run |-> n, who |-> who]

\* The label is added before a launch; a resumed run has it.
runner_starts ==
    LET c == art.sel  n == par.rid IN
    /\ InLaunch("label") \/ InLaunch("recover")
    /\ labels' = IF par.phase = "label" THEN labels \cup {c} ELSE labels
    /\ run' = [run EXCEPT ![c][n].status = "running"]
    /\ exec' = exec \cup {Execution(c, n, "parent")}
    /\ par' = [par EXCEPT !.phase = "child"]
    /\ UNCHANGED <<issue, pr, subs, pissue, returned, lease, found, art, faults>>

\* Any error between the claim and the finish puts back the status the parent
\* found, if the lease is still its own; the COALESCE keeps the new run id.
restore_child_lease_after_runner_error(row, held, n) ==
    update_lease_status_conditional(row, held.lease_id, held.status, {"running"},
                                    held.run_id, {n})

\* The run is parked and the lease, given back as it was found, says that it
\* may be resumed.
GivenBack(c, n) ==
    InLaunch("finish") /\ run[c][n].status = "waiting_external" /\ lease'[c].status = "ready_to_resume"

\* The label fails, the runner refuses (ownership, provenance, identity, a stale
\* epoch), or the status or the pull request cannot be read once the child has run.
compensate_error ==
    LET c == art.sel IN
    /\ InLaunch("label") \/ InLaunch("recover") \/ InLaunch("finish")
    /\ Fault
    /\ lease' = [lease EXCEPT ![c] = restore_child_lease_after_runner_error(@, par.held, par.rid)]
    /\ par' = [Left(par) EXCEPT !.mode = "failed"]
    /\ returned' = IF GivenBack(c, par.rid) THEN returned \cup {c} ELSE returned
    /\ UNCHANGED <<github, run, exec, found, art>>

\* How a run ends, and what it leaves: the cleanup marks its lease itself.
child_ends(c, n, s) ==
    /\ run' = [run EXCEPT ![c][n].status = s]
    /\ lease' = IF s # "abandoned" THEN lease
                ELSE [lease EXCEPT ![c] = update_lease_status_conditional(@, @.lease_id,
                                              "cleanup_abandoned", {"running"}, NoRun, {n})]
Endings(c) == {"completed", "waiting_external", "failed", "abandoned"}
                  \cup (IF pr[c] = "open" THEN {"review_ready"} ELSE {})

Ends(s) == IF s \in {"failed", "abandoned"} THEN Fault ELSE UNCHANGED faults

child_result_from_run_outcome ==
    LET c == art.sel  n == par.rid IN
    /\ InLaunch("child")
    /\ \E s \in Endings(c) : child_ends(c, n, s) /\ Ends(s)
    /\ exec' = exec \ {Execution(c, n, "parent")}
    /\ par' = [par EXCEPT !.phase = "finish"]
    /\ UNCHANGED <<github, returned, found, art>>

\* The registry outranks what the runner returned; review-ready still waits.
classify_child_run_result(s) ==
    CASE s \in {"completed", "merged"} -> "CompletedSuccess"
      [] s \in {"failed", "abandoned"} -> "CompletedFailure"
      [] OTHER -> "WaitingExternal"

ResultStatus(result) ==
    CASE result = "CompletedSuccess" -> "ready_to_resume"
      [] result = "CompletedFailure" -> "failed"
      [] result = "WaitingExternal" -> "waiting_external"

\* Mutant: the failure of a run overwrites what its cleanup recorded.
advance_expected_any(result) ==
    CASE result = "CompletedFailure" -> {"running", "failed", "cleanup_abandoned"}
      [] OTHER -> {"running", "waiting_external"}

advance_expected(result) ==
    CASE result = "CompletedFailure" -> {"running", "failed"}
      [] OTHER -> {"running", "waiting_external"}

advance_child_lease_for_result(row, held, n, result) ==
    update_lease_status_conditional(row, held.lease_id, ResultStatus(result),
                                    advance_expected(result), NoRun, {n})

\* Side effects follow an update that applied, or that was already made.
should_apply_child_finalization_side_effects(row, held, n, result) ==
    \/ cas_applies(row, held.lease_id, advance_expected(result), {n})
    \/ row.status = ResultStatus(result) /\ row.run_id = n

step_outcome_for_child_result(result) ==
    CASE result = "CompletedSuccess" -> "Success"
      [] result = "CompletedFailure" -> "Fixable"
      [] result = "WaitingExternal" -> "Wait"

\* Otherwise the step follows the lease that stands.
step_outcome_from_durable_lease(row) ==
    CASE row.status = "completed" -> "Success"
      [] row.status \in {"ready_to_resume", "running", "waiting_external", "claimed", "pending"} -> "Wait"
      [] row.status \in {"failed", "abandoned", "stale", "cleanup_abandoned"} -> "Fixable"

AfterLaunch(p, a, outcome) ==
    CASE outcome = "Success" -> To(p, "wait_for_child_merge")
      [] outcome = "Fixable" -> To(p, "evaluate_parent_completion")
      [] outcome = "Wait" -> persist_external_wait_state(p, a)

\* The outcome goes to the rollup; a failure is then recorded as such.
rollup_outcome(result) ==
    CASE result = "CompletedSuccess" -> "completed_success"
      [] result = "CompletedFailure" -> "failed_child_run"
      [] result = "WaitingExternal" -> "waiting_external"

finish_child_launch ==
    LET c == art.sel  n == par.rid
        result == classify_child_run_result(RunStatus(c, n))
        recorded == LET a == update_rollup(art, c, rollup_outcome(result))
                    IN  IF result = "WaitingExternal"
                        THEN [a EXCEPT !.cwait = [child |-> c, run |-> n]] ELSE a
        row == advance_child_lease_for_result(lease[c], par.held, n, result)
    IN  /\ InLaunch("finish")
        /\ lease' = [lease EXCEPT ![c] = row]
        /\ IF should_apply_child_finalization_side_effects(lease[c], par.held, n, result)
           THEN /\ art' = recorded
                /\ par' = AfterLaunch([par EXCEPT !.ctx = n], recorded,
                                      step_outcome_for_child_result(result))
                /\ labels' = IF result = "CompletedFailure" THEN labels \ {c} ELSE labels
           ELSE /\ art' = art /\ UNCHANGED labels
                /\ par' = AfterLaunch(par, art, step_outcome_from_durable_lease(lease[c]))
        /\ UNCHANGED <<issue, pr, subs, pissue, returned, run, exec, found, faults>>

-----------------------------------------------------------------------------
(* Waiting for the merge                                                   *)

\* The context remembers the run of the last launch, of whichever child.
persisted_child_run_id(c) == IF par.ctx # NoRun THEN par.ctx ELSE lease[c].run_id

mark_child_lease_completed(row, n) ==
    update_lease_status_conditional(row, row.lease_id, "completed",
                                    {"completed", "failed", "ready_to_resume"}, n, {n})

finish_merged_child(c) ==
    LET n == persisted_child_run_id(c) IN
    /\ labels' = labels \ {c}
    /\ lease' = IF n = NoRun THEN lease
                ELSE [lease EXCEPT ![c] = mark_child_lease_completed(@, n)]
    /\ art' = update_rollup(art, c, "merged")
    /\ par' = To(par, "refresh_parent_and_children")

\* What an open pull request waits for; where nothing but the merge is left
\* the parent may be told to go on without it.
open_pr_outcome(c) ==
    CASE lease[c].run_id = NoRun -> "observing_existing_child_pr"
      [] child_workflow_completed(c, lease[c]) -> "ready_for_human_merge"
      [] OTHER -> "child_workflow_in_progress"

wait_for_open_pr(c) ==
    LET a == [update_rollup(art, c, open_pr_outcome(c)) EXCEPT !.mwait = c] IN
    /\ art' = a
    /\ par' = IF open_pr_outcome(c) = "ready_for_human_merge" /\ ~WaitForHumanMerge
              THEN To(par, "refresh_parent_and_children")
              ELSE persist_external_wait_state(par, a)
    /\ UNCHANGED <<labels, lease>>

record_blocked_child(c) ==
    /\ labels' = labels \ {c}
    /\ art' = update_rollup(art, c, "missing_child_pr")
    /\ par' = To(par, "evaluate_parent_completion")
    /\ UNCHANGED lease

wait_for_child_merge ==
    LET c == art.sel  p == pr_state_for_issue(c) IN
    /\ At("wait_for_child_merge") /\ c # NoChild
    /\ \/ p = "merged" /\ finish_merged_child(c)
       \/ p = "open" /\ wait_for_open_pr(c)
       \/ p = "none" /\ record_blocked_child(c)
    /\ UNCHANGED <<issue, pr, subs, pissue, returned, run, exec, found, faults>>

-----------------------------------------------------------------------------
(* Completion                                                              *)

\* Evidence for a child that was closed without a pull request.
child_has_explicit_non_actionable_reason(c) ==
    art.snap[c] = "Closed" /\ art.rollup[c] = "non_actionable_child_lease"

child_is_complete(c) == art.snap[c] = "Merged"
child_is_blocked(c) == art.snap[c] \in {"Blocked", "MergedIssueOpen"}

incomplete_child_numbers ==
    {c \in DOMAIN art.snap : ~child_is_complete(c) /\ ~child_has_explicit_non_actionable_reason(c)}
blocked_child_numbers == {c \in DOMAIN art.snap : child_is_blocked(c)}

required_prs_satisfied ==
    /\ \A c \in DOMAIN art.snap :
           art.snap[c] = "Merged" \/ child_has_explicit_non_actionable_reason(c)
    /\ \A c \in Children : ~unresolved_rollup_outcome_requires_pr(art.rollup[c])

active_child_lease_blocks_parent(row) ==
    row.status \in {"waiting_external", "ready_to_resume", "claimed", "running"}
active_child_leases == {c \in DOMAIN art.snap : active_child_lease_blocks_parent(lease[c])}

\* The parent's own checklist, and the same evidence about the children.
evaluate_acceptance_criteria(unchecked) ==
    ~unchecked /\ incomplete_child_numbers = {} /\ required_prs_satisfied

evaluate_parent_completion ==
    /\ At("evaluate_parent_completion")
    /\ \E unchecked \in BOOLEAN :
           art' = [art EXCEPT !.complete = /\ incomplete_child_numbers = {}
                                           /\ required_prs_satisfied
                                           /\ active_child_leases = {}
                                           /\ evaluate_acceptance_criteria(unchecked)
                                           /\ blocked_child_numbers = {},
                              !.blocked = blocked_child_numbers # {}]
    /\ par' = To(par, "close_or_report_parent")
    /\ UNCHANGED <<github, returned, lease, run, exec, found, faults>>

\* The report stands on the evaluation; the label is kept for a run that
\* ended with neither completion nor a blocked child.
close_or_report_parent ==
    /\ At("close_or_report_parent")
    /\ pissue' = IF art.complete THEN "closed" ELSE pissue
    /\ labels' = IF art.complete \/ art.blocked THEN labels \ {Parent} ELSE labels
    /\ par' = [par EXCEPT !.mode = "done"]
    /\ UNCHANGED <<issue, pr, subs, returned, lease, run, exec, found, art, faults>>

-----------------------------------------------------------------------------
(* The parent's wait and its life                                          *)

\* Ready when the run it names has ended or can be resumed; a run without a
\* row is transient.
poll_child_workflow(t) ==
    RunStatus(t.child, t.run) \in {"completed", "failed", "abandoned", "merged", "ready_to_resume"}

poll_pr_merge(t) == CASE pr[t.child] = "merged" -> "ready"
                      [] pr[t.child] = "closed" -> "terminal_failure"
                      [] OTHER -> "still_waiting"

\* The daemon resumes a ready parent at the step that parked it.
Woken == [par EXCEPT !.mode = "running", !.target = NoTarget]

poll_parent_wait ==
    /\ par.mode = "waiting"
    /\ par' = CASE par.target.run # NoRun ->
                     IF poll_child_workflow(par.target) THEN Woken ELSE par
                [] par.target.run = NoRun ->
                     CASE poll_pr_merge(par.target) = "ready" -> Woken
                       [] poll_pr_merge(par.target) = "terminal_failure" -> [par EXCEPT !.mode = "failed", !.target = NoTarget]
                       [] OTHER -> par
    /\ par' # par
    /\ UNCHANGED <<github, returned, lease, run, exec, found, art, faults>>

\* max_child_merge_wait_seconds, counted from the first wait of the run.
timeout_decision ==
    /\ par.mode = "waiting" /\ Fault
    /\ par' = [par EXCEPT !.mode = "failed", !.target = NoTarget]
    /\ UNCHANGED <<github, returned, lease, run, exec, found, art>>

\* The process dies, or the step it is in fails: an inline child goes too.
parent_dies ==
    /\ par.mode = "running" /\ Fault
    /\ par' = [Left(par) EXCEPT !.mode = "failed"]
    /\ exec' = {e \in exec : e.who # "parent"}
    /\ UNCHANGED <<github, returned, lease, run, found, art>>

\* An operator resumes the failed run at its step, on the artifacts it left.
operator_resumes_parent ==
    /\ par.mode = "failed"
    /\ par' = [par EXCEPT !.mode = "running"]
    /\ UNCHANGED <<github, returned, lease, run, exec, found, art, faults>>

\* The parent issue is discovered anew once its label is off.
new_parent_run ==
    /\ par.mode \in {"failed", "done"} /\ pissue = "open" /\ Parent \notin labels
    /\ par' = FreshParent /\ art' = NoArtifacts
    /\ UNCHANGED <<github, returned, lease, run, exec, found, faults>>

-----------------------------------------------------------------------------
(* The daemon, for which a child is an issue like any other                *)

static_filter(c) == c \in Listed /\ issue[c] = "open" /\ c \notin labels
has_active_parent(c) == c \in subs /\ Parent \in labels
local_dynamic_skip(c) == blocks_duplicate_work(lease[c].status) /\ lease[c].status # "absent"
remote_dynamic_skip(c) == has_active_parent(c) \/ pr[c] = "open"

discover(c) ==
    /\ static_filter(c) /\ ~local_dynamic_skip(c) /\ ~remote_dynamic_skip(c)
    /\ found' = found \cup {c} /\ found' # found
    /\ UNCHANGED <<github, returned, lease, run, exec, par, art, faults>>

\* Claim and launch on what the discovery listed, however old the listing is.
claim_and_launch(c) ==
    LET n == Cardinality(Minted(c)) + 1 IN
    /\ c \in found /\ found' = found \ {c}
    /\ IF claim_wins(lease[c]) /\ n \in Runs(c)
       THEN /\ lease' = [lease EXCEPT ![c] = ToRunning(try_claim(@), n)]
            /\ run' = [run EXCEPT ![c][n] = [status |-> "running", by |-> "daemon"]]
            /\ exec' = exec \cup {Execution(c, n, "daemon")}
       ELSE UNCHANGED <<lease, run, exec>>
    /\ UNCHANGED <<github, returned, par, art, faults>>

\* collect_resume_units: any ready lease of the child's configuration.
collect_resume_units(c) ==
    LET n == lease[c].run_id IN
    /\ lease[c].status = "ready_to_resume" /\ RunStatus(c, n) \in {"ready_to_resume", "waiting_external", "failed"}
    /\ lease' = [lease EXCEPT ![c] = ToRunning(@, n)]
    /\ run' = [run EXCEPT ![c][n].status = "running"]
    /\ exec' = exec \cup {Execution(c, n, "daemon")}
    /\ UNCHANGED <<github, returned, found, par, art, faults>>

daemon_finish(s) ==
    CASE s \in {"completed", "review_ready"} -> "completed"
      [] s = "abandoned" -> "cleanup_abandoned"
      [] OTHER -> s

finish_lease_after_result(e) ==
    LET c == e.child IN
    /\ e \in exec /\ e.who = "daemon"
    /\ \E s \in Endings(c) :
           /\ run' = [run EXCEPT ![c][e.run].status = s] /\ Ends(s)
           /\ lease' = [lease EXCEPT ![c] = update_lease_status_conditional(@, @.lease_id,
                            daemon_finish(s), {"running"}, NoRun, {e.run})]
    /\ exec' = exec \ {e}
    /\ UNCHANGED <<github, returned, found, par, art>>

\* The poller of a child's own wait: its condition holds, or never will.
apply_poll_decision(c) ==
    LET n == lease[c].run_id IN
    /\ RunStatus(c, n) = "waiting_external"
    /\ \/ /\ lease[c].status \in {"waiting_external", "ready_to_resume"}
          /\ run' = [run EXCEPT ![c][n].status = "ready_to_resume"]
          /\ lease' = [lease EXCEPT ![c].status = "ready_to_resume", ![c].overdue = FALSE]
          /\ UNCHANGED faults
       \/ /\ lease[c].status \in {"waiting_external", "ready_to_resume", "running", "claimed"}
          /\ run' = [run EXCEPT ![c][n].status = "failed"]
          /\ lease' = [lease EXCEPT ![c].status = "failed", ![c].overdue = FALSE]
          /\ Fault
    /\ UNCHANGED <<github, returned, exec, found, par, art>>

\* A heartbeat ages when nobody holds the lease as running.
Held(c) ==
    \/ \E e \in exec : e.child = c /\ e.run = lease[c].run_id
    \/ par.mode = "running" /\ art.sel = c /\ par.phase \in {"label", "recover", "finish"}

Age(c) ==
    /\ lease[c].status \in {"claimed", "running", "ready_to_resume"} /\ ~lease[c].overdue
    /\ ~Held(c)
    /\ lease' = [lease EXCEPT ![c].overdue = TRUE]
    /\ Fault
    /\ UNCHANGED <<github, returned, run, exec, found, par, art>>

\* Startup of a daemon.
recover_stale_leases ==
    /\ lease' = [c \in Children |-> recover_stale(lease[c])] /\ lease' # lease
    /\ UNCHANGED <<github, returned, run, exec, found, par, art, faults>>

-----------------------------------------------------------------------------
(* The outside                                                             *)

child_opens_pr(c) ==
    /\ pr[c] = "none" /\ \E e \in exec : e.child = c
    /\ pr' = [pr EXCEPT ![c] = "open"]
    /\ UNCHANGED <<issue, subs, pissue, returned, labels, lease, run, exec, found, par, art, faults>>

\* A merge closes the issue when the pull request says so.
human_merges(c) ==
    /\ pr[c] = "open" /\ pr' = [pr EXCEPT ![c] = "merged"]
    /\ \E s \in {"open", "closed"} : issue' = [issue EXCEPT ![c] = IF @ = "closed" THEN @ ELSE s]
    /\ UNCHANGED <<subs, pissue, returned, labels, lease, run, exec, found, par, art, faults>>

human_closes(c) ==
    /\ \/ pr[c] = "open" /\ pr' = [pr EXCEPT ![c] = "closed"] /\ UNCHANGED issue
       \/ issue[c] = "open" /\ issue' = [issue EXCEPT ![c] = "closed"] /\ UNCHANGED pr
    /\ Fault
    /\ UNCHANGED <<subs, pissue, returned, labels, lease, run, exec, found, par, art>>

human_adds_subissue(c) ==
    /\ c \notin subs /\ subs' = subs \cup {c}
    /\ UNCHANGED <<issue, pr, pissue, returned, labels, lease, run, exec, found, par, art, faults>>

\* The merge completion of a review-ready run proves the merge.
complete_merge(c) ==
    /\ \E n \in Runs(c) : /\ run[c][n].status = "review_ready" /\ pr[c] = "merged"
                       /\ run' = [run EXCEPT ![c][n].status = "merged"]
    /\ UNCHANGED <<github, returned, lease, exec, found, par, art, faults>>

ParentStep ==
    \/ load_parent_issue \/ discover_subissues \/ classify_subissues \/ determine_subissue_order
    \/ select_next_child \/ launch_child_workflow \/ claim_child_lease \/ prepare_relaunchable_child
    \/ start_child_workflow \/ resume_child_workflow \/ runner_starts \/ compensate_error
    \/ child_result_from_run_outcome \/ finish_child_launch \/ wait_for_child_merge
    \/ evaluate_parent_completion \/ close_or_report_parent
    \/ poll_parent_wait \/ timeout_decision \/ parent_dies
    \/ operator_resumes_parent \/ new_parent_run

ChildStep(c) ==
    \/ discover(c) \/ claim_and_launch(c) \/ collect_resume_units(c)
    \/ \E n \in Runs(c) : finish_lease_after_result(Execution(c, n, "daemon"))
    \/ apply_poll_decision(c) \/ Age(c) \/ child_opens_pr(c) \/ human_merges(c) \/ human_closes(c)
    \/ human_adds_subissue(c) \/ complete_merge(c)

Next == ParentStep \/ recover_stale_leases \/ \E c \in Children : ChildStep(c)

Spec == Init /\ [][Next]_vars

-----------------------------------------------------------------------------
(* Properties                                                              *)

\* A child is never worked on twice at once: the parent that read a lease
\* (discovery.rs: start_child_workflow, resume_child_workflow) and the daemon
\* that resumes, claims or recovers the same lease cannot both win it.  Spared
\* is a child that discovery.rs: compensate_metadata_error has ever given back
\* as ready to resume while its run was parked: its wait is then live under a
\* lease that invites work, and may fail the lease of whoever takes it up.
OneChildExecution ==
    \A c \in Children \ returned : Cardinality({e \in exec : e.child = c}) <= 1

\* The parent issue is closed only when every child of the last discovery is
\* closed with a merged pull request (completion.rs: evaluate_parent_completion
\* judges a snapshot, close_or_report_parent acts on it later), and when no
\* run the parent launched for one of them is still under way, where the lease
\* was never given back under a parked run.
ParentClosedIsMerged ==
    pissue = "closed" => \A c \in art.children :
        /\ pr[c] = "merged" /\ issue[c] = "closed"
        /\ c \notin returned =>
              \A e \in exec : e.child = c => run[c][e.run].by # "parent"

\* A finished cleanup is never undone: a late finalization, compensation or
\* relaunch of the parent leaves a cleanup_abandoned lease as it is
\* (lease.rs: advance_child_lease_for_result).
CleanupStays ==
    [][\A c \in Children : lease[c].status = "cleanup_abandoned" => lease'[c].status = "cleanup_abandoned"]_vars
=============================================================================
