---------------------------- MODULE ScopeControl ----------------------------
(***************************************************************************)
(* Scope control: how much a run may change.                               *)
(*                                                                         *)
(* Before the first mutable step the run freezes a task charter: budget,   *)
(* subsystems, review caps, merge base.  After each mutation the patch     *)
(* against the frozen merge base is measured; a patch over the budget or   *)
(* outside the subsystems needs an operator's decision about exactly that  *)
(* measurement.  Every mutating step asks the gate again when it is        *)
(* entered.  The decision protocol is files: one request per measurement,  *)
(* the newest is the one to answer, and one resolution that each answer    *)
(* replaces.  A blocked run is parked in an external wait, and the daemon's*)
(* poller resumes it.  A review history, on disk as well, caps the rounds  *)
(* of the pull request follow-up.  The process dies between any two steps. *)
(*                                                                         *)
(* A patch gives each file its content, 0 is the content at the merge base.*)
(***************************************************************************)
EXTENDS Naturals, Sequences, FiniteSets, FiniteSetsExt

CONSTANTS
    Files,        \* the files a patch can touch
    attr,         \* per file: new, source, binary, lines, deps, apis, within
    policies,     \* the scope-control policies the configuration ever holds
    MaxContent,   \* contents of a file, besides the one at the merge base
    MaxHeads,     \* commits on top of the merge base
    MaxDeaths,    \* process deaths
    MaxAnswers    \* resolutions an operator writes

\* A policy the configuration loader accepts.
validate_budget(p) == \A k \in {"files", "lines", "modules", "apis"} : p.budget[k] > 0
validate_review_caps(p) == p.caps.deltas > 0 /\ p.caps.rounds > 0
validate_subsystems(p) == p.subsystems # {}
validate_scope_control(p) == validate_budget(p) /\ validate_review_caps(p) /\ validate_subsystems(p)

Budget == [files : Nat, lines : Nat, modules : Nat, deps : Nat, apis : Nat]
Policy == [budget : Budget, caps : [deltas : Nat, rounds : Nat], subsystems : SUBSET STRING]

ASSUME ScopeAssumption ==
    /\ policies \in Seq(Policy)
    /\ policies # <<>> /\ \A i \in DOMAIN policies : validate_scope_control(policies[i])
    /\ MaxContent \in Nat \ {0} /\ MaxHeads \in Nat /\ MaxDeaths \in Nat /\ MaxAnswers \in Nat
    /\ \A f \in Files : attr[f].lines \in Nat /\ attr[f].deps \in Nat /\ attr[f].apis \in Nat

VARIABLES
    patch, head,   \* the work tree against the merge base, and its commit
    policy,        \* the policy the configuration holds now
    owner,         \* how the ownership record of the work tree verifies
    charter,       \* digest of task-charter.json, NoCharter if there is none
    status,        \* status.json
    requests,      \* the request generations, oldest first
    resolution,    \* scope-expansion-resolution.json
    history,       \* review-history.json
    exhausted,     \* review-exhaustion.json
    snapshot,      \* timeout-snapshot.json
    step, mode,    \* the step of the graph, and what the run does in it
    flags,         \* indicators in the checkpointed context
    kind,          \* the wait kind the poller polls for
    approved,      \* measurements an operator ever approved
    acted,         \* the measurement that was mutated or pushed last
    deaths, answers

files == <<charter, status, requests, resolution, history, exhausted, snapshot>>
run == <<step, mode, flags, kind>>
vars == <<patch, head, policy, owner, charter, status, requests, resolution, history, exhausted,
          snapshot, step, mode, flags, kind, approved, acted, deaths, answers>>

None == "none"
NoCharter == 0
NoMeasurement == <<>>
NoStatus == [digest |-> NoCharter, measurement |-> NoMeasurement, over |-> FALSE, prior |-> NoMeasurement]
NoResolution == [measurement |-> NoMeasurement, decision |-> None]
Patches == [Files -> 0 .. MaxContent]
Decisions == {"approve_expanded_scope", "split_into_issues", "minimal_fix"}

-----------------------------------------------------------------------------
(* The charter                                                             *)

\* A charter drawn up from the configuration of the moment.
build_draft(p) == [budget |-> policies[p].budget, caps |-> policies[p].caps,
                   subsystems |-> policies[p].subsystems]

\* Equal drafts have equal digests; the model numbers the policies.
compute_digest(p) == p

\* The charter on disk.
load_charter == build_draft(charter)

validate_draft_required_fields(d) == d.subsystems # {}

validate_draft_budgets_positive(d) ==
    /\ \A k \in {"files", "lines", "modules", "apis"} : d.budget[k] > 0
    /\ d.caps.deltas > 0 /\ d.caps.rounds > 0

validate_budget_ceiling(d, p) == \A k \in DOMAIN d.budget : d.budget[k] <= policies[p].budget[k]

validate_draft_against_config(d, p) ==
    /\ validate_draft_required_fields(d)
    /\ validate_draft_budgets_positive(d)
    /\ validate_budget_ceiling(d, p)
    /\ d.subsystems \subseteq policies[p].subsystems

status_for(digest) == [NoStatus EXCEPT !.digest = digest]

\* Mutant: the newest charter wins.
persist_charter_anew(digest) == TRUE

\* What may be written where a charter is: nothing, when another one is there.
persist_charter(digest) == charter \in {NoCharter, digest}

-----------------------------------------------------------------------------
(* The measurement                                                         *)

\* A tracked file whose content differs, or an untracked one; renames are
\* never inferred, so a moved file is a deletion and an addition.
changed_paths(p) == {f \in Files : p[f] # 0}
tracked_changes(p) == {f \in changed_paths(p) : ~attr[f].new}
untracked_files(p) == {f \in changed_paths(p) : attr[f].new}

\* The record itself is not part of the patch, provided it verifies.
patch_untracked_files == owner \in {"verified", "absent"}

count_lines_in_file(f) == IF attr[f].binary THEN 0 ELSE attr[f].lines
count_new_modules(p) == Cardinality({f \in untracked_files(p) : attr[f].source})
collect_dependency_diffs(p) == MapThenSumSet(LAMBDA f : attr[f].deps, tracked_changes(p))
count_public_apis(p) ==
    MapThenSumSet(LAMBDA f : attr[f].apis,
                  {f \in changed_paths(p) : attr[f].source /\ ~attr[f].binary})
compute_changed_subsystems(p) == {attr[f].within : f \in changed_paths(p)} \ {None}

\* The digest covers the commit and the content of every changed path.
measurement_digest(p, h) == <<p, h>>

compute_measurement(p, h) ==
    [digest |-> measurement_digest(p, h), paths |-> changed_paths(p),
     files |-> Cardinality(tracked_changes(p) \cup untracked_files(p)),
     lines |-> MapThenSumSet(count_lines_in_file, changed_paths(p)),
     modules |-> count_new_modules(p), deps |-> collect_dependency_diffs(p),
     apis |-> count_public_apis(p), subsystems |-> compute_changed_subsystems(p)]

check_budget(actual, ceiling) == actual > ceiling
collect_budget_violations(m, c) ==
    {k \in {"files", "lines", "modules", "deps", "apis"} : check_budget(m[k], c.budget[k])}

\* A path is inside when one of the charter's subsystems has it.
is_path_within(f, c) == attr[f].within \in c.subsystems
collect_path_violations(m, c) ==
    IF \A f \in m.paths : is_path_within(f, c) THEN {} ELSE {"path"}
collect_subsystem_violations(m, c) == IF m.subsystems \subseteq c.subsystems THEN {} ELSE {"subsystem"}

evaluate(m, c) ==
    collect_budget_violations(m, c) \cup collect_path_violations(m, c)
        \cup collect_subsystem_violations(m, c)

over_scope(p, h, c) == evaluate(compute_measurement(p, h), c) # {}

\* A measurement the run can take at all.
measurable == charter # NoCharter /\ patch_untracked_files

\* Mutant: the evaluation of the first measurement is kept.
update_status_once(s, d, over) ==
    IF s.measurement = NoMeasurement THEN [s EXCEPT !.measurement = d, !.over = over]
    ELSE [s EXCEPT !.measurement = d]

update_status_measurement(s, d, over) ==
    [s EXCEPT !.measurement = d, !.over = over,
              !.prior = IF s.measurement \in {NoMeasurement, d} THEN @ ELSE s.measurement]

-----------------------------------------------------------------------------
(* The gate                                                                *)

digest_now == measurement_digest(patch, head)
request_for(d) == [measurement |-> d, charter |-> charter]

\* An existing generation is kept as it is, with the time it was created.
write_expansion_request(d) ==
    requests' = IF \E i \in DOMAIN requests : requests[i].measurement = d
                THEN requests ELSE Append(requests, request_for(d))

read_latest_generation == requests[Len(requests)]

authorizes_expansion(decision) == decision = "approve_expanded_scope"

\* Mutant: any approval will do, whatever it was about.
resolution_outcome_any(d) ==
    IF authorizes_expansion(resolution.decision) THEN "allow" ELSE "denied"

\* What a resolution says about the measurement at hand.
resolution_outcome(d) ==
    IF \/ read_latest_generation.charter # charter
       \/ resolution.measurement # d
       \/ read_latest_generation.measurement # d
    THEN "needs_request"
    ELSE IF authorizes_expansion(resolution.decision) THEN "allow" ELSE "denied"

check_scope_gate ==
    IF ~over_scope(patch, head, load_charter) THEN "allow"
    ELSE IF requests = <<>> THEN "needs_request"
    ELSE IF resolution = NoResolution THEN "pending"
    ELSE resolution_outcome(digest_now)

-----------------------------------------------------------------------------
(* What status shows                                                       *)

\* The files are read as they are, without comparing their measurements.
build_decision_projection ==
    IF status.measurement = NoMeasurement \/ ~status.over THEN "within_budget"
    ELSE IF requests = <<>> \/ resolution = NoResolution THEN "pending_resolution"
    ELSE IF authorizes_expansion(resolution.decision) THEN "approved_expanded_scope"
    ELSE "frozen"

project_scope_status == IF status = NoStatus THEN "unavailable" ELSE build_decision_projection

\* Growth is shown when there is an earlier measurement.
compute_growth == IF status.prior = NoMeasurement THEN {} ELSE {<<status.prior, status.measurement>>}

-----------------------------------------------------------------------------
(* The run's steps                                                         *)

Goto(s) == step' = s /\ mode' = "running" /\ kind' = None
Fail == mode' = "ended" /\ kind' = None /\ UNCHANGED <<step, flags>>

wait_kind_for_step(s) ==
    CASE s \in {"scope_measure", "scope_measure_pre_push"} -> "scope_decision"
      [] s = "watch_pr_checks" -> "pr_checks"
      [] OTHER -> "human_review"

resolve_wait_kind(s, fs) == IF fs # {} THEN "scope_decision" ELSE wait_kind_for_step(s)

\* Parked: the checkpoint with its flags, and the wait row made from them.
Suspend(fs) ==
    /\ mode' = "waiting" /\ flags' = flags \cup fs
    /\ kind' = resolve_wait_kind(step, flags \cup fs)
    /\ UNCHANGED step

At(s) == mode = "running" /\ step = s

\* The barrier when a mutating step is entered.
Allowed == measurable /\ check_scope_gate = "allow"
Blocked == measurable /\ check_scope_gate \in {"needs_request", "pending"}
Refused == ~measurable \/ check_scope_gate = "denied"

enforce_scope_barrier(s) ==
    /\ At(s)
    /\ \/ Blocked /\ write_expansion_request(digest_now) /\ Suspend({"barrier"})
       \/ Refused /\ Fail /\ UNCHANGED requests
    /\ UNCHANGED <<patch, head, policy, owner, charter, status, resolution, history, exhausted,
                   snapshot, approved, acted, deaths, answers>>

\* The charter is written first; a death here leaves it without its status.
task_charter ==
    /\ At("task_charter")
    /\ IF /\ validate_draft_against_config(build_draft(policy), policy)
          /\ persist_charter(compute_digest(policy))
       THEN charter' = compute_digest(policy) /\ Goto("charter_status") /\ UNCHANGED flags
       ELSE Fail /\ UNCHANGED charter
    /\ UNCHANGED <<patch, head, policy, owner, status, requests, resolution, history, exhausted,
                   snapshot, approved, acted, deaths, answers>>

persist_charter_and_status ==
    /\ At("charter_status")
    /\ IF status.digest \in {NoCharter, charter}
       THEN /\ status' = IF status = NoStatus THEN status_for(charter) ELSE status
            /\ Goto("implement") /\ UNCHANGED flags
       ELSE Fail /\ UNCHANGED status
    /\ UNCHANGED <<patch, head, policy, owner, charter, requests, resolution, history, exhausted,
                   snapshot, approved, acted, deaths, answers>>

\* The agent changes the work tree.  It succeeds, or asks for another round.
llxprt(s, next) ==
    /\ At(s) /\ Allowed
    /\ patch' \in Patches
    /\ acted' = digest_now
    /\ Goto(next) /\ UNCHANGED flags
    /\ UNCHANGED <<head, policy, owner, charter, status, requests, resolution, history, exhausted,
                   snapshot, approved, deaths, answers>>

\* The agent is stopped by a timeout after it changed something.
recover_partial_timeout ==
    /\ At("implement") /\ Allowed
    /\ patch' \in Patches \ {patch}
    /\ changed_paths(patch') \ changed_paths(patch) # {}
    /\ acted' = digest_now
    /\ snapshot' = <<measurement_digest(patch', head),
                     {f \in changed_paths(patch') : is_path_within(f, load_charter)}>>
    /\ Suspend({"timeout"})
    /\ UNCHANGED <<head, policy, owner, charter, status, requests, resolution, history, exhausted,
                   approved, deaths, answers>>

\* Measure, record, and ask the gate.  A refusal parks the run as well, and a
\* request is written only when the gate asks for one.
scope_measure(s, next) ==
    /\ At(s)
    /\ IF ~measurable \/ status = NoStatus
       THEN Fail /\ UNCHANGED <<status, requests>>
       ELSE /\ status' = update_status_measurement(status, digest_now, over_scope(patch, head, load_charter))
            /\ IF check_scope_gate = "allow"
               THEN Goto(next) /\ UNCHANGED <<requests, flags>>
               ELSE /\ IF check_scope_gate = "needs_request"
                       THEN write_expansion_request(digest_now) ELSE UNCHANGED requests
                    /\ Suspend({})
    /\ UNCHANGED <<patch, head, policy, owner, charter, resolution, history, exhausted,
                   snapshot, approved, acted, deaths, answers>>

\* Tests pass and the patch is committed, or a test fails and the agent is
\* asked again.
commit ==
    /\ At("commit")
    /\ \/ head < MaxHeads /\ head' = head + 1 /\ Goto("scope_measure_pre_push")
       \/ Goto("implement") /\ UNCHANGED head
    /\ UNCHANGED <<patch, policy, owner, flags, approved, acted, deaths, answers>> /\ UNCHANGED files

push_changes ==
    /\ At("push_changes")
    /\ acted' = digest_now
    /\ Goto("watch_pr_checks")
    /\ UNCHANGED <<patch, head, policy, owner, flags, approved, deaths, answers>> /\ UNCHANGED files

\* The checks are running, have failed, or are done.
watch_pr_checks ==
    /\ At("watch_pr_checks")
    /\ \/ Suspend({})
       \/ Goto("iteration_guard") /\ UNCHANGED flags
       \/ Fail
    /\ UNCHANGED <<patch, head, policy, owner, approved, acted, deaths, answers>> /\ UNCHANGED files

\* The commit is made from what the barrier measured, and pushed.
push_remediation_changes ==
    /\ At("push_remediation_changes") /\ Allowed
    /\ acted' = digest_now
    /\ head < MaxHeads /\ head' = head + 1
    /\ Goto("watch_pr_checks")
    /\ UNCHANGED <<patch, policy, owner, flags, approved, deaths, answers>> /\ UNCHANGED files

-----------------------------------------------------------------------------
(* Review rounds                                                           *)

\* No file is an empty history.
EmptyHistory == [reviews |-> <<>>, rounds |-> 0]
count_by_kind(h, k) == Cardinality({i \in DOMAIN h.reviews : h.reviews[i].kind = k})
last_reviewed_head(h) == h.reviews[Len(h.reviews)].to

\* Mutant: one review more than the cap.
check_delta_over(h, to, caps) ==
    IF \E i \in DOMAIN h.reviews : h.reviews[i] = [kind |-> "delta", to |-> to] THEN "replay"
    ELSE IF count_by_kind(h, "delta") > caps.deltas THEN "exhausted" ELSE "allowed"

check_delta(h, to, caps) ==
    IF \E i \in DOMAIN h.reviews : h.reviews[i] = [kind |-> "delta", to |-> to] THEN "replay"
    ELSE IF count_by_kind(h, "delta") >= caps.deltas THEN "exhausted" ELSE "allowed"

evaluate_delta(h, to, caps) ==
    IF last_reviewed_head(h) = to THEN "replay"
    ELSE IF h.rounds >= caps.rounds THEN "exhausted"
    ELSE check_delta(h, to, caps)

\* The gate before a remediation round; the history is on disk before the
\* round starts.
pre_launch_review_gate ==
    /\ At("iteration_guard")
    /\ LET first == history.reviews = <<>>
           outcome == IF first THEN "allowed" ELSE evaluate_delta(history, head, load_charter.caps)
       IN CASE outcome = "allowed" ->
                 /\ history' = [reviews |-> Append(history.reviews,
                                    [kind |-> IF first THEN "initial" ELSE "delta", to |-> head]),
                                rounds |-> IF first THEN history.rounds ELSE history.rounds + 1]
                 /\ Goto("remediate") /\ UNCHANGED <<exhausted, flags>>
            [] outcome = "replay" -> Goto("remediate") /\ UNCHANGED <<history, exhausted, flags>>
            [] OTHER -> exhausted' = exhausted \cup {head} /\ Fail /\ UNCHANGED history
    /\ UNCHANGED <<patch, head, policy, owner, charter, status, requests, resolution, snapshot,
                   approved, acted, deaths, answers>>

-----------------------------------------------------------------------------
(* The operator, the daemon and the machine                                *)

\* An operator answers one of the requests on disk.
write_expansion_resolution ==
    /\ answers < MaxAnswers /\ answers' = answers + 1
    /\ \E i \in DOMAIN requests, decision \in Decisions :
         /\ resolution' = [measurement |-> requests[i].measurement, decision |-> decision]
         /\ approved' = IF authorizes_expansion(decision)
                        THEN approved \cup {requests[i].measurement} ELSE approved
    /\ UNCHANGED <<patch, head, policy, owner, charter, status, requests, history, exhausted,
                   snapshot, acted, deaths>> /\ UNCHANGED run

\* The newest request is answered.
scope_decision_ready ==
    /\ requests # <<>> /\ resolution # NoResolution
    /\ resolution.measurement = read_latest_generation.measurement

\* Ready waits are resumed at the step that suspended; the checks of a pull
\* request end at some time.
poll_wait ==
    /\ mode = "waiting"
    /\ kind = "scope_decision" => scope_decision_ready
    /\ Goto(step)
    /\ UNCHANGED <<patch, head, policy, owner, flags, approved, acted, deaths, answers>>
    /\ UNCHANGED files

\* A parked work tree is edited by hand, for instance to make the fix smaller.
operator_edits ==
    /\ mode = "waiting" /\ step \notin {"watch_pr_checks"}
    /\ patch' \in Patches
    /\ UNCHANGED <<head, policy, owner, approved, acted, deaths, answers>>
    /\ UNCHANGED files /\ UNCHANGED run

\* The configuration is edited; later the charter is used in its place.
policy_changes ==
    /\ step \in {"task_charter", "charter_status"} /\ mode = "running"
    /\ policy < Len(policies) /\ policy' = policy + 1
    /\ UNCHANGED <<patch, head, owner, approved, acted, deaths, answers>>
    /\ UNCHANGED files /\ UNCHANGED run

\* The process dies; the run continues at its last checkpoint, which is the
\* start of the step it was in (the charter's two writes are one step).
crash ==
    /\ mode = "running" /\ deaths < MaxDeaths
    /\ deaths' = deaths + 1
    /\ step' = IF step = "charter_status" THEN "task_charter" ELSE step
    /\ UNCHANGED <<patch, head, policy, owner, mode, flags, kind, approved, acted, answers>>
    /\ UNCHANGED files

Init ==
    /\ patch = [f \in Files |-> 0] /\ head = 0 /\ policy = 1
    /\ owner \in {"verified", "absent", "unverified"}
    /\ charter = NoCharter /\ status = NoStatus /\ requests = <<>> /\ resolution = NoResolution
    /\ history = EmptyHistory /\ exhausted = {} /\ snapshot = NoMeasurement
    /\ step = "task_charter" /\ mode = "running" /\ flags = {} /\ kind = None
    /\ approved = {} /\ acted = NoMeasurement /\ deaths = 0 /\ answers = 0

Next ==
    \/ task_charter \/ persist_charter_and_status
    \/ \E s \in {"implement", "remediate", "push_remediation_changes"} : enforce_scope_barrier(s)
    \/ llxprt("implement", "scope_measure") \/ llxprt("remediate", "push_remediation_changes")
    \/ recover_partial_timeout
    \/ scope_measure("scope_measure", "commit")
    \/ scope_measure("scope_measure_pre_push", "push_changes")
    \/ commit \/ push_changes \/ watch_pr_checks \/ pre_launch_review_gate
    \/ push_remediation_changes
    \/ write_expansion_resolution \/ poll_wait \/ operator_edits \/ policy_changes \/ crash

Spec == Init /\ [][Next]_vars

-----------------------------------------------------------------------------
(* Properties                                                              *)

\* decision.rs, check_scope_gate and the barrier: a patch that is over the
\* frozen budget is mutated further or pushed only after an operator approved
\* exactly that content at exactly that commit, whatever changed since, and
\* whatever other generations were answered.
ApprovedSnapshotOnly ==
    acted # NoMeasurement /\ over_scope(acted[1], acted[2], load_charter) => acted \in approved

\* persistence.rs, persist_charter_and_status: the charter never changes once
\* it is on disk, through deaths and edits of the configuration, and the status
\* file, when it is there, is about it.
CharterFrozen ==
    [][/\ charter # NoCharter => charter' = charter
       /\ status'.digest \in {NoCharter, charter'}]_<<charter, status>>

\* review_state.rs, pre_launch_review_gate: a remediation round starts at a
\* commit the history has, at most one initial review and the charter's number
\* of delta reviews are ever granted, the rounds counted are the delta reviews,
\* and neither a death nor a replay makes one commit cost two reviews.
ReviewBudget ==
    /\ count_by_kind(history, "initial") <= 1
    /\ charter # NoCharter => /\ count_by_kind(history, "delta") <= load_charter.caps.deltas
                              /\ history.rounds <= load_charter.caps.rounds
    /\ history.rounds = count_by_kind(history, "delta")
    /\ \A i, j \in DOMAIN history.reviews : history.reviews[i] = history.reviews[j] => i = j
    /\ step = "remediate" => \E i \in DOMAIN history.reviews : history.reviews[i].to = head

\* The newest request and the answer on disk are about this measurement.
answered(d) == resolution.measurement = d /\ read_latest_generation.measurement = d

\* status_projection.rs, decision.rs: a run parked at a measurement is not shown
\* as within its budget, and growth is not shown against the measurement
\* itself.  While the work tree is what was measured, the status and the gate,
\* which read the files on their own, agree on the budget; what the gate allows
\* or refuses is shown as such; and an approval is shown of what the gate does
\* not allow only where the answer, or the newest request, is about another
\* snapshot, because the projection compares none.
ShownAgreesWithGate ==
    /\ mode = "waiting" /\ step \in {"scope_measure", "scope_measure_pre_push"} =>
         project_scope_status \notin {"unavailable", "within_budget"}
    /\ compute_growth # {} => status.prior # status.measurement
    /\ status.measurement = digest_now /\ measurable =>
         /\ project_scope_status = "within_budget" <=> ~over_scope(patch, head, load_charter)
         /\ check_scope_gate = "allow" =>
              project_scope_status \in {"within_budget", "approved_expanded_scope"}
         /\ check_scope_gate = "denied" => project_scope_status = "frozen"
         /\ project_scope_status = "approved_expanded_scope" /\ check_scope_gate # "allow" =>
              ~answered(digest_now)
=============================================================================
