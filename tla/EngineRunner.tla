---------------------------- MODULE EngineRunner ----------------------------
(***************************************************************************)
(* One run of the engine and what it leaves behind: the transition loop    *)
(* (engine/runner.rs), the checkpoint of every step, the provenance of a   *)
(* failure on its way through a cleanup step (runner/failure_cleanup.rs),  *)
(* completion and typed merge (runner/completion.rs, recovery/typed_merge),*)
(* and the operator's resume, retry and rewind, which plan from those rows *)
(* (engine/continuation, app/runs).  At most one process executes the run  *)
(* at a time; that is what DaemonLifecycle and RecoveryProtocol are about. *)
(***************************************************************************)
EXTENDS WorkflowGraph, SequencesExt

CONSTANTS
    StepSeq,        \* step ids in the order of the workflow type
    Transitions,    \* sequence of [from, to, on, limit]; limit is {} or {n}
    CleanupSteps,   \* terminal steps of type failure_cleanup
    SafeSteps,      \* SAFE_RERUN_STEPS
    RetryableSteps, \* RETRYABLE_WAIT_STEPS
    OutcomesOf,     \* the outcomes each step can have
    MaxLoops,       \* guard_limits.max_iterations
    MergeRequired,  \* config.merge_required
    Launchers,      \* who starts the run: "daemon", "cli"
    MaxResumes,     \* bound: continuations and daemon resumes
    MaxDeaths       \* bound: process deaths

Steps == {StepSeq[k] : k \in DOMAIN StepSeq}

\* The workflow type the engine is built on.
Workflow ==
    [id |-> "workflow", transitions |-> Transitions,
     steps |-> [k \in DOMAIN StepSeq |->
         [id |-> StepSeq[k], terminal |-> StepSeq[k] \in CleanupSteps, cap |-> {},
          type |-> IF StepSeq[k] \in CleanupSteps THEN "failure_cleanup" ELSE StepSeq[k]]]]

\* A workflow type reaches the engine only when it is valid.
ASSUME EngineAssumption ==
    /\ StepSeq \in Seq(STRING)
    /\ validate_workflow_type(Workflow)
    /\ Transitions \in Seq([from : Steps, to : Steps, on : Outcomes \cup {"any"},
                            limit : SUBSET Nat])
    /\ CleanupSteps \subseteq Steps /\ CleanupSteps \cap SafeSteps = {}
    /\ OutcomesOf \in [Steps -> SUBSET Outcomes]
    /\ MaxLoops \in Nat /\ MaxResumes \in Nat /\ MaxDeaths \in Nat
    /\ MergeRequired \in BOOLEAN /\ Launchers \subseteq {"daemon", "cli"}

NoStep == "none"
ASSUME NoStepAssumption == NoStep \notin Steps

Edges == {<<Transitions[k].from, Transitions[k].to>> : k \in DOMAIN Transitions}
NoCounts == [e \in Edges |-> 0]
NoFailure == [step |-> NoStep, to |-> NoStep, done |-> FALSE, denied |-> FALSE]

VARIABLES
    row,        \* run registry: status, current step, failure_cleanup, live pid; and
                \* the resume step of the run's wait row, if it has one
    ckpt,       \* checkpoint of each step: status, edge counts, and whether it is the
                \* very one that the recorded failure is bound to
    order,      \* the steps that have a checkpoint, oldest first
    runner,     \* the executing process
    lease,      \* status of the issue's lease, "taken" by another run, or "none"
    owned,      \* is the workspace marker still this run's?
    pr,         \* the pull request: open, merged, or merged without the run's head
    artifact,   \* is there a typed merge artifact?
    traversed,  \* history: how often each edge was really taken
    lost,       \* history: how often saved or unsaved counts were lost
    deaths,     \* process deaths so far
    resumes     \* continuations so far

vars == <<row, ckpt, order, runner, lease, owned, pr, artifact,
          traversed, lost, deaths, resumes>>

env == <<owned, pr, deaths, resumes>>

Off == [phase |-> "off", step |-> NoStep, outcome |-> "success", result |-> "none",
        counts |-> NoCounts, by |-> "cli"]

Init ==
    /\ row = [status |-> "none", current |-> NoStep, fail |-> NoFailure, live |-> FALSE,
              wait |-> NoStep]
    /\ ckpt = [s \in Steps |-> [status |-> "none", counts |-> NoCounts, bound |-> FALSE]]
    /\ order = <<>>
    /\ runner = Off
    /\ lease = "none"
    /\ owned = TRUE
    /\ pr = "open"
    /\ artifact = FALSE
    /\ traversed = NoCounts
    /\ lost = 0
    /\ deaths = 0
    /\ resumes = 0

SetRunner(r) == runner' = r

At(phase) == runner.phase = phase

\* The steps that have a checkpoint, without s.
Others(s) ==
    IF \E k \in DOMAIN order : order[k] = s
    THEN RemoveAt(order, CHOOSE k \in DOMAIN order : order[k] = s) ELSE order

\* INSERT ... ON CONFLICT(run_id, step_id) DO UPDATE: one row per step, written
\* with a new timestamp; an identity is (step, timestamp), so it is lost when
\* its row is written again.  bound: a failure is bound to this write.
save_checkpoint(s, status, counts, bound) ==
    /\ order' = Append(Others(s), s)
    /\ ckpt' = [t \in Steps |->
           IF t = s THEN [status |-> status, counts |-> counts, bound |-> bound]
           ELSE [ckpt[t] EXCEPT !.bound = @ /\ ~bound]]

\* set_resume_point: status and timestamp only.
set_resume_point(s) ==
    /\ order' = Append(Others(s), s)
    /\ ckpt' = [ckpt EXCEPT ![s].status = "ready_to_resume", ![s].bound = FALSE]

Stored == Range(order)

Newest(S) ==
    order[CHOOSE k \in DOMAIN order :
            order[k] \in S /\ \A j \in DOMAIN order : order[j] \in S => j <= k]

\* load_checkpoint_state: the counts of the newest checkpoint of the run.
load_checkpoint_state == IF order = <<>> THEN NoCounts ELSE ckpt[Last(order)].counts

----------------------------------------------------------------------------
(* The transition table.                                                    *)

find_transition(s, o) == FirstMatch(Workflow, s, o)

resolve_next_step(s, o) ==
    IF o = "abandon" THEN {} ELSE {t.to : t \in find_transition(s, o)}

is_loop_back(s, n) == LoopsBack(Workflow, s, n)

\* Mutant: only the default limit is enforced.
is_limited_transition_default(s, n, t) == is_loop_back(s, n) /\ t.limit = {}

is_limited_transition(s, n, t) == is_loop_back(s, n) \/ t.limit # {}

edge_limit(t) == IF t.limit = {} THEN MaxLoops ELSE CHOOSE n \in t.limit : TRUE

routes_to_cleanup(s, o) ==
    o # "success" /\ \E n \in resolve_next_step(s, o) : n \in CleanupSteps

----------------------------------------------------------------------------
(* Launch.                                                                  *)

\* persist_launch_with_capsule: the run row and its capsule, or neither.
persist_launch_with_capsule ==
    /\ At("off")
    /\ row.status = "none"
    /\ row' = [row EXCEPT !.status = "starting", !.current = StepSeq[1], !.live = TRUE]
    /\ \E by \in Launchers :
          /\ SetRunner([Off EXCEPT !.phase = "starting", !.step = StepSeq[1], !.by = by])
          /\ lease' = IF by = "daemon" THEN "running" ELSE "none"
    /\ UNCHANGED <<ckpt, order, artifact, traversed, lost, env>>

\* run(): a fresh run has no checkpoint to resume from.
mark_run_started ==
    /\ At("starting")
    /\ row' = [row EXCEPT !.status = "running"]
    /\ SetRunner([runner EXCEPT !.phase = "ready"])
    /\ UNCHANGED <<ckpt, order, lease, artifact, traversed, lost, env>>

----------------------------------------------------------------------------
(* The transition loop.                                                     *)

End(result) == SetRunner([runner EXCEPT !.phase = "ended", !.result = result])

\* History: the process stops with a count no checkpoint holds.
Lose == lost' = IF runner.counts = load_checkpoint_state THEN lost ELSE lost + 1

\* An error ends the loop at once; nothing is written.
Fail == End("error") /\ Lose

\* The cleanup step refuses to start without failed-work provenance.
prepare_step_start ==
    /\ At("ready")
    /\ IF runner.step \in CleanupSteps /\ row.fail = NoFailure
       THEN Fail /\ UNCHANGED row
       ELSE /\ row' = [row EXCEPT !.current = runner.step]
            /\ SetRunner([runner EXCEPT !.phase = "executing"])
            /\ UNCHANGED lost
    /\ UNCHANGED <<ckpt, order, lease, artifact, traversed, env>>

\* The executor returns an outcome (an error of a registered step type is
\* Fatal), or the engine stops with an error and no row is written.
execute_current_step ==
    /\ At("executing")
    /\ \/ \E o \in OutcomesOf[runner.step] :
             SetRunner([runner EXCEPT !.phase = "executed", !.outcome = o]) /\ UNCHANGED lost
       \/ Fail
    /\ UNCHANGED <<row, ckpt, order, lease, artifact, traversed, env>>

\* The interrupt flag is looked at before and after a step is executed.
interrupt_at_step ==
    /\ runner.phase \in {"ready", "executed"}
    /\ save_checkpoint(runner.step, "interrupted", runner.counts, FALSE)
    /\ SetRunner([runner EXCEPT !.phase = "completing", !.result = "interrupted"])
    /\ UNCHANGED <<row, lease, artifact, traversed, lost, env>>

\* protect_failure_cleanup_lease: only a daemon's run has a lease to protect.
lease_protectable == runner.by = "daemon" => lease \in {"running", "cleanup_abandoned"}

\* The failure recorded with a step's result.
failure_states_for_step(s, o) ==
    IF s \in CleanupSteps THEN [row.fail EXCEPT !.done = @ \/ o = "success"]
    ELSE IF routes_to_cleanup(s, o)
    THEN [step |-> s, done |-> FALSE, denied |-> FALSE,
          to |-> CHOOSE n \in resolve_next_step(s, o) : TRUE]
    ELSE row.fail

\* Mutant: the identity is that of the step's previous checkpoint.
build_failure_cleanup_state_stale(s, o) == FALSE

\* build_failure_cleanup_state: the failure is bound to the checkpoint that is
\* written in the same transaction.
build_failure_cleanup_state(s, o) == s \notin CleanupSteps /\ routes_to_cleanup(s, o)

\* persist_step_result: the checkpoint carries the counts as they were before
\* the edge that is about to be taken.  If the lease cannot be protected the
\* transaction is rolled back and the engine stops.
persist_step_result ==
    LET s == runner.step
        o == runner.outcome
        cleanup == routes_to_cleanup(s, o) \/ s \in CleanupSteps
    IN  /\ At("executed")
        /\ routes_to_cleanup(s, o) => owned
        /\ IF cleanup /\ ~lease_protectable
           THEN Fail /\ UNCHANGED <<row, ckpt, order, lease>>
           ELSE /\ save_checkpoint(s, "completed", runner.counts, build_failure_cleanup_state(s, o))
                /\ row' = [row EXCEPT
                      !.fail = failure_states_for_step(s, o),
                      !.status = IF s \notin CleanupSteps THEN @
                                 ELSE IF o = "success" THEN "abandoned" ELSE "failed",
                      !.current = IF s \in CleanupSteps THEN row.fail.step ELSE @]
                /\ lease' = IF cleanup /\ runner.by = "daemon"
                            THEN "cleanup_abandoned" ELSE lease
                /\ SetRunner([runner EXCEPT !.phase = "routed"])
                /\ UNCHANGED lost
        /\ UNCHANGED <<artifact, traversed, env>>

\* persist_terminal_ownership_failure: the workspace is not the run's, so it
\* ends here, without its cleanup, and gives up its lease if it still has it.
persist_terminal_ownership_failure ==
    LET s == runner.step IN
    /\ At("executed")
    /\ routes_to_cleanup(s, runner.outcome)
    /\ ~owned
    /\ save_checkpoint(s, "completed", runner.counts, TRUE)
    /\ row' = [row EXCEPT !.status = "failed", !.current = s,
                  !.fail = [step |-> s, done |-> FALSE, denied |-> TRUE,
                            to |-> CHOOSE n \in resolve_next_step(s, runner.outcome) : TRUE]]
    /\ lease' = IF runner.by = "daemon" /\ lease = "running" THEN "failed" ELSE lease
    /\ End("failure")
    /\ UNCHANGED <<artifact, traversed, lost, env>>

Complete(result) ==
    SetRunner([runner EXCEPT !.phase = "completing", !.result = result])

\* Mutant: one traversal more than the limit.
enforce_edge_limit_late(s, t) ==
    is_limited_transition(s, t.to, t) /\ runner.counts[<<s, t.to>>] > edge_limit(t)

\* The limit is compared with the traversals so far.
enforce_edge_limit(s, t) ==
    is_limited_transition(s, t.to, t) /\ runner.counts[<<s, t.to>>] >= edge_limit(t)

increment_edge(s, t) ==
    [runner.counts EXCEPT ![<<s, t.to>>] =
        IF is_limited_transition(s, t.to, t) THEN @ + 1 ELSE @]

\* advance_to_next_step: the count grows in memory only.
advance_to_next_step ==
    LET s == runner.step IN
    /\ At("routed")
    /\ \E t \in find_transition(s, runner.outcome) :
          LET e == <<s, t.to>> IN
          /\ runner.outcome # "abandon"
          /\ IF enforce_edge_limit(s, t)
             THEN Complete("abandoned") /\ UNCHANGED traversed
             ELSE /\ SetRunner([runner EXCEPT !.phase = "ready", !.step = t.to,
                         !.outcome = "success", !.counts = increment_edge(s, t)])
                  /\ traversed' = [traversed EXCEPT ![e] =
                         IF is_limited_transition(s, t.to, t) THEN @ + 1 ELSE @]
    /\ UNCHANGED <<row, ckpt, order, lease, artifact, lost, env>>

\* finish_without_transition and abandon_at_step.
finish_without_transition ==
    /\ At("routed")
    /\ resolve_next_step(runner.step, runner.outcome) = {}
    /\ IF runner.step \in CleanupSteps
       THEN End(IF runner.outcome = "success" THEN "abandoned" ELSE "failure")
       ELSE Complete(CASE runner.outcome = "success" -> "success"
                       [] runner.outcome = "wait" -> "waiting_external"
                       [] runner.outcome = "abandon" -> "abandoned"
                       [] OTHER -> "failure")
    \* pause_for_external_wait writes a second checkpoint first.
    /\ IF runner.outcome = "wait" /\ runner.step \notin CleanupSteps
       THEN save_checkpoint(runner.step, "waiting", runner.counts, FALSE)
       ELSE UNCHANGED <<ckpt, order>>
    /\ UNCHANGED <<row, lease, artifact, traversed, lost, env>>

status_for_completion(result) ==
    CASE result = "success" -> IF MergeRequired THEN "review_ready" ELSE "completed"
      [] result = "failure" -> "failed"
      [] result = "abandoned" -> "abandoned"
      [] result = "interrupted" -> "paused"
      [] result = "waiting_external" -> "waiting_external"

\* The status is overwritten, whatever it was.
record_run_completion ==
    LET status == status_for_completion(runner.result) IN
    /\ At("completing")
    /\ row' = [row EXCEPT !.status = status, !.current = runner.step]
    /\ SetRunner([runner EXCEPT
           !.phase = IF status = "review_ready" THEN "merging" ELSE "ended"])
    /\ UNCHANGED <<ckpt, order, lease, artifact, traversed, lost, env>>

\* Mutant: what GitHub says is proof enough.
build_reachability_proof_remote_only == pr # "open"

\* The result commit contains the run's head (merge commit), its tree (squash)
\* or its patch (rebase), and the base; git is asked, not GitHub.
build_reachability_proof == pr = "merged"

\* complete_merge_required_run and complete_merge_from_observation: the first
\* proof, from which the artifact is made.
complete_merge_required_run ==
    /\ At("merging")
    /\ \/ build_reachability_proof /\ SetRunner([runner EXCEPT !.phase = "proved"])
       \/ pr = "open" /\ End("success")
       \/ End("error")
    /\ UNCHANGED <<row, ckpt, order, lease, artifact, traversed, lost, env>>

\* complete_typed_merge: the proof again, then artifact and status in one
\* transaction whose update expects ReviewReady.
complete_typed_merge ==
    /\ At("proved")
    /\ \/ /\ build_reachability_proof
          /\ row.status = "review_ready"
          /\ row' = [row EXCEPT !.status = "merged"]
          /\ artifact' = TRUE
          /\ End("success")
       \/ End("error") /\ UNCHANGED <<row, artifact>>
    /\ UNCHANGED <<ckpt, order, lease, traversed, lost, env>>

----------------------------------------------------------------------------
(* The lease after the run: run_daemon_runner and lease_finalization for    *)
(* the daemon, finalize_continuation_lease for the operator.                *)

is_ownership_denied_terminal == row.fail.denied /\ ~row.fail.done

is_cleanup_failure_abandonment == row.status = "abandoned" /\ row.fail.done

incomplete_cleanup == row.fail # NoFailure /\ ~row.fail.done

run_daemon_runner(result) ==
    CASE result = "success" -> "completed"
      [] result = "waiting_external" -> "waiting_external"
      [] result \in {"interrupted", "error"} -> "failed"
      [] result = "abandoned" ->
           IF ~is_ownership_denied_terminal /\ is_cleanup_failure_abandonment
           THEN "cleanup_abandoned" ELSE "failed"
      [] result = "failure" ->
           IF ~is_ownership_denied_terminal /\ incomplete_cleanup
           THEN "cleanup_abandoned" ELSE "failed"

\* lease_status_for_outcome of what status_to_outcome reads off the run row.
lease_status_for_outcome ==
    CASE row.status \in {"completed", "merged"} -> "completed"
      [] row.status = "waiting_external" -> "waiting_external"
      [] row.status = "abandoned" ->
           IF is_cleanup_failure_abandonment THEN "cleanup_abandoned" ELSE "abandoned"
      [] row.status = "failed" ->
           IF incomplete_cleanup THEN "cleanup_abandoned" ELSE "failed"
      [] OTHER -> "ready_to_resume"

expected_statuses_for(status) ==
    {"running"} \cup ({status} \cap {"cleanup_abandoned", "ready_to_resume"})

\* The conditional update; an update that does not apply is reported, no more.
\* The daemon also writes the wait row, for the newest checkpoint's step.
finalize_lease ==
    LET status == IF runner.by = "daemon" THEN run_daemon_runner(runner.result)
                  ELSE lease_status_for_outcome
        applies == /\ runner.by # "cli"
                   /\ runner.by = "operator" => runner.result # "error"
                   /\ lease \in expected_statuses_for(status)
    IN  /\ At("ended")
        /\ lease' = IF applies THEN status ELSE lease
        /\ row' = [row EXCEPT
              !.live = @ /\ runner.by # "cli",
              !.wait = IF runner.by = "daemon" /\ runner.result = "waiting_external"
                       THEN Last(order) ELSE @]
        /\ SetRunner(Off)
        /\ UNCHANGED <<ckpt, order, artifact, traversed, lost, env>>

----------------------------------------------------------------------------
(* Continuation: engine/continuation and app/runs.                          *)

is_resumable(status) ==
    status \in {"waiting_external", "ready_to_resume", "paused", "failed"}

recovery_is_available == is_cleanup_failure_abandonment

check_resumable_status(kind, force) ==
    /\ ~is_ownership_denied_terminal
    /\ \/ is_resumable(row.status)
       \/ is_cleanup_failure_abandonment /\ recovery_is_available /\ force /\ kind # "resume"
       \/ row.status = "running" /\ ~row.live

check_workspace == is_cleanup_failure_abandonment => owned

Resumable == {s \in Stored : ckpt[s].status \in {"waiting", "interrupted", "ready_to_resume"}}

\* The checkpoint written just before the one of the given step.
load_checkpoint_before_step(s) ==
    {order[k - 1] : k \in {j \in DOMAIN order : j > 1 /\ order[j] = s}}

bound_to_failure == incomplete_cleanup \/ recovery_is_available

\* select_failed_cleanup_checkpoint: an identity whose checkpoint was written
\* again since is an error, and the caller hands it on.
identity_current == row.fail.step \in Stored /\ ckpt[row.fail.step].bound

\* The selected step, as a set; empty when the selection fails.
select_resume_checkpoint ==
    IF bound_to_failure THEN {s \in {row.fail.step} : identity_current}
    ELSE IF Resumable # {} THEN {Newest(Resumable)}
    ELSE IF load_checkpoint_before_step(row.current) # {}
    THEN load_checkpoint_before_step(row.current)
    ELSE IF Stored = {} THEN {} ELSE {Newest(Stored)}

select_retry_checkpoint(from_failed_step) ==
    IF bound_to_failure \/ ~from_failed_step THEN select_resume_checkpoint
    ELSE LET S == Stored \cap RetryableSteps IN IF S = {} THEN {} ELSE {Newest(S)}

select_checkpoint(kind) ==
    CASE kind = "resume" -> select_resume_checkpoint
      [] kind = "retry" -> select_retry_checkpoint(FALSE)
      [] kind = "retry_failed_step" -> select_retry_checkpoint(TRUE)
      [] kind = "rewind" -> Stored

\* checkpoint_is_authorized: the failed checkpoint of a cleanup, or the wait
\* the run is in.  (A committed rearm identity is never written: the commit
\* of a continuation is no longer part of any command.)
checkpoint_is_authorized(kind, s) ==
    /\ ~is_ownership_denied_terminal
    /\ \/ recovery_is_available /\ s = row.fail.step /\ identity_current
       \/ /\ kind = "resume" /\ incomplete_cleanup
          /\ (s = row.fail.step /\ identity_current) \/ s = row.fail.to
       \/ /\ kind = "resume" /\ row.current = s
          /\ row.status = "waiting_external" /\ ckpt[s].status = "waiting"

\* validate_continuation and the selection of prepare_continuation.
PlanFor(kind, force) ==
    {s \in select_checkpoint(kind) :
        /\ check_resumable_status(kind, force)
        /\ check_workspace
        /\ s \in SafeSteps \/ checkpoint_is_authorized(kind, s)}

resume_counts(s) == load_checkpoint_state

\* recover_operator_run: plan, then the recovery protocol's executor enters
\* the loop at the planned step; neither the run row nor the lease is claimed.
recover_operator_run(kind, force) ==
    /\ At("off")
    /\ row.status # "none"
    /\ resumes < MaxResumes
    /\ \E s \in PlanFor(kind, force) :
          SetRunner([Off EXCEPT !.phase = "ready", !.step = s,
                        !.counts = resume_counts(s), !.by = "operator"])
    /\ resumes' = resumes + 1
    /\ UNCHANGED <<row, ckpt, order, lease, owned, pr, artifact, traversed, lost, deaths>>

----------------------------------------------------------------------------
(* The daemon and the rest of the world.                                    *)

\* The poller finds the wait over: apply_ready_to_resume.  The step's old
\* checkpoint becomes the newest, with the counts it was written with.
poll_ready ==
    /\ At("off")
    /\ row.wait # NoStep
    /\ row.status = "waiting_external"
    /\ lease = "waiting_external"
    /\ row' = [row EXCEPT !.status = "ready_to_resume", !.current = row.wait, !.wait = NoStep]
    /\ lease' = "ready_to_resume"
    /\ set_resume_point(row.wait)
    /\ lost' = IF ckpt[row.wait].counts = load_checkpoint_state THEN lost ELSE lost + 1
    /\ UNCHANGED <<runner, artifact, traversed, env>>

\* The daemon resumes a ready run through the recovery protocol, once the
\* workspace marker has authorized it.
resume_ready ==
    /\ At("off")
    /\ row.status = "ready_to_resume"
    /\ lease = "ready_to_resume"
    /\ resumes < MaxResumes
    /\ resumes' = resumes + 1
    /\ IF owned
       THEN /\ lease' = "running"
            /\ SetRunner([Off EXCEPT !.phase = "ready", !.step = row.current,
                             !.counts = resume_counts(row.current), !.by = "daemon"])
       ELSE lease' = "failed" /\ UNCHANGED runner
    /\ UNCHANGED <<row, ckpt, order, owned, pr, artifact, traversed, lost, deaths>>

\* A terminal lease is claimed for another run of the issue.
try_claim ==
    /\ lease \in {"completed", "failed", "abandoned"}
    /\ lease' = "taken"
    /\ UNCHANGED <<row, ckpt, order, runner, artifact, traversed, lost, env>>

\* The executing process dies.
Crash ==
    /\ ~At("off")
    /\ deaths < MaxDeaths
    /\ deaths' = deaths + 1
    /\ row' = [row EXCEPT !.live = @ /\ runner.by = "operator"]
    /\ Lose
    /\ SetRunner(Off)
    /\ UNCHANGED <<ckpt, order, lease, owned, pr, artifact, traversed, resumes>>

\* The daemon that launched the run is shut down after it; only for a run that
\* still says running does anyone look.
daemon_exits ==
    /\ At("off")
    /\ row.live /\ row.status = "running"
    /\ row' = [row EXCEPT !.live = FALSE]
    /\ UNCHANGED <<ckpt, order, runner, lease, artifact, traversed, lost, env>>

\* Another run takes the workspace over; the marker is read after a step's
\* execution and when a continuation is planned.
lose_workspace ==
    /\ owned
    /\ At("executed") \/ (At("off") /\ row.status # "none")
    /\ owned' = FALSE
    /\ UNCHANGED <<row, ckpt, order, runner, lease, pr, artifact, traversed,
                   lost, deaths, resumes>>

\* Someone merges the pull request, perhaps after pushing other work to it; the
\* run looks when it is review ready.
merge_pull_request ==
    /\ pr = "open"
    /\ row.status = "review_ready"
    /\ pr' \in {"merged", "other"}
    /\ UNCHANGED <<row, ckpt, order, runner, lease, owned, artifact, traversed,
                   lost, deaths, resumes>>

----------------------------------------------------------------------------

RunnerStep ==
    \/ mark_run_started
    \/ prepare_step_start
    \/ execute_current_step
    \/ persist_step_result
    \/ persist_terminal_ownership_failure
    \/ advance_to_next_step
    \/ finish_without_transition
    \/ record_run_completion
    \/ complete_merge_required_run
    \/ complete_typed_merge
    \/ finalize_lease

Next ==
    \/ persist_launch_with_capsule
    \/ RunnerStep
    \/ interrupt_at_step
    \/ \E kind \in {"resume", "retry", "retry_failed_step", "rewind"}, force \in BOOLEAN :
          recover_operator_run(kind, force)
    \/ poll_ready
    \/ resume_ready
    \/ try_claim
    \/ Crash
    \/ daemon_exits
    \/ lose_workspace
    \/ merge_pull_request

Spec == Init /\ [][Next]_vars

\* A process that executes a run keeps executing it.
FairSpec == Spec /\ WF_vars(RunnerStep)

----------------------------------------------------------------------------
(* Properties.                                                              *)

\* An edge may be taken by several transitions, each with a limit of its own.
LimitsOf ==
    [e \in Edges |->
        {edge_limit(Transitions[k]) : k \in {j \in DOMAIN Transitions :
                                                e = <<Transitions[j].from, Transitions[j].to>>}}]

\* However a run is interrupted, resumed, retried and rewound, a loop edge is
\* taken at most as often as its largest limit says, and one budget more for
\* every time counts were lost: an execution died or failed before its next
\* checkpoint, or a poll made an older checkpoint the newest.  A run that is
\* abandoned at a limit did use it up.
EdgeBudget ==
    /\ \A e \in Edges : \A n \in LimitsOf[e] :
          (\A m \in LimitsOf[e] : m <= n) => traversed[e] <= n * (1 + lost)
    /\ At("completing") /\ runner.result = "abandoned" /\ runner.outcome # "abandon" =>
          \E e \in Edges : e[1] = runner.step /\ \E n \in LimitsOf[e] : traversed[e] >= n

\* A cleanup step runs only on behalf of a failure that was recorded with it,
\* in a workspace whose ownership was not denied, and the checkpoint that the
\* recovery of that failure will select is still the one it was bound to.  (In
\* a run whose row still says ready to resume an earlier execution may have died
\* after it wrote that checkpoint again.)
CleanupHasProvenance ==
    runner.step \in CleanupSteps /\ runner.phase \in {"ready", "executing", "executed"} =>
        /\ row.fail.to = runner.step
        /\ ~row.fail.denied
        /\ row.status = "ready_to_resume" \/ identity_current

\* Merged is said of a run exactly when its typed merge artifact was written,
\* and then the run's own head is in what was merged.
MergedIsProved == (row.status = "merged") = artifact /\ (artifact => pr = "merged")

\* Every execution ends: the loop edges' limits bound every cycle of the
\* workflow, also for a step that asks to be retried for ever.
ExecutionEnds == ~At("off") ~> At("off")
=============================================================================
