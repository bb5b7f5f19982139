---------------------------- MODULE FollowupLoop ----------------------------
(***************************************************************************)
(* The loop that follows a pull request: capture the identity, guard the   *)
(* number of rounds, watch the checks, collect CI failures and review      *)
(* feedback, evaluate, plan, remediate, validate, test, push, mark.  The   *)
(* steps share nothing but artifacts, each bound to the head it was        *)
(* written for; GitHub, CodeRabbit and other pushers move underneath, the  *)
(* process may die at any step, and an operator may rewind a stopped run   *)
(* to one of the steps that are safe to run again.                         *)
(*                                                                         *)
(* Retry accounting inside the remediation step is PrRemediation's; here   *)
(* it is a count per head.  Scope control is off.                          *)
(***************************************************************************)
EXTENDS ReviewFeedback, PrChecks

CONSTANTS
    Checks, Required, Optional,   \* checks and the policy's definitions of them
    Observations,                 \* row per check, as one poll may see them (Absent: none)
    default_allow_skipped, block_optional_failures, allow_unmatched_success,
    missing_retry_attempts, api_error_retry_attempts,
    max_post_pr_remediation_iterations, max_review_remediation_iterations,
    max_verification_retries, max_push_retries, max_remediations,
    AgentChanges,                 \* what an agent may do to the work directory: "none", "files", "commit"
    MaxRewinds                    \* operator interventions

VARIABLES
    pc,        \* the step of the run
    sub,       \* where the push step is: "", "committed", "pushed"
    local,     \* head of the work directory
    dirty,     \* the work directory has changes to commit
    ours,      \* commits reachable from local
    made,      \* commits that exist
    checks,    \* pr-check-status
    ci,        \* ci-failures
    plan,      \* pr-remediation-plan
    tests,     \* post-pr-test-result
    pushres,   \* push-remediation-result
    guard,     \* history of post-pr-iteration-guard
    retry,     \* pr-remediation-retry-state, reduced to head and count
    far,       \* how far the safe steps have been reached
    rewinds,   \* interventions so far
    wait       \* the wait row of the parked run

loopVars == << pc, sub, local, dirty, ours, made, checks, ci, plan, tests, pushres, guard, retry, far, rewinds,
               wait >>
reviewVars == << remote, bind, results, faults, feedbackVars >>
vars == << reviewVars, loopVars >>

artifacts == << checks, ci, plan, tests, pushres, guard, retry >>
work == << local, dirty, ours, made >>

ASSUME PolicyAssumption ==
    /\ Required \cup Optional \subseteq Checks
    /\ \A o \in Observations : DOMAIN o = Checks

SafeSteps == << "capture_pr_identity", "post_pr_iteration_guard", "watch_pr_checks",
                "collect_ci_failures", "collect_coderabbit_feedback" >>
Stopped == {"done", "failed"}

NoWait == [kind |-> "none", head |-> NoHead, counters |-> NoCounters]

\* A step hands over to the next one; far records the safe ones.
goto(step) ==
    /\ pc' = step
    /\ far' = Max({far} \cup {n \in DOMAIN SafeSteps : SafeSteps[n] = step})
    /\ wait' = NoWait

\* The run is suspended and waits for the daemon's poller.
park(w) ==
    /\ pc' = "waiting_external"
    /\ far' = far
    /\ wait' = w

-----------------------------------------------------------------------------
(* What moves outside the run.                                               *)

\* A push re-anchors some open threads to the new head; the others become
\* outdated.
reanchored(head) ==
    {[i \in Items |-> IF i \in moved THEN [threads[i] EXCEPT !.head = head] ELSE threads[i]] :
        moved \in SUBSET {i \in Items : threads[i].state = "open"}}

\* Bound: somebody else pushes at most once on top of the run's own commits.
foreign_push ==
    /\ made < MaxHeads /\ remote \in ours
    /\ pc \notin {"done", "failed"}
    /\ made' = made + 1
    /\ remote' = made + 1
    /\ threads' \in reanchored(made + 1)
    /\ UNCHANGED << coderabbit, summary, reviewed, replies, bind, obs, feedback, evals, results,
                    pending, report, marking, faults, pc, sub, local, dirty, ours, far, rewinds,
                    wait, artifacts >>

-----------------------------------------------------------------------------
(* Identity and guard.                                                       *)

capture_pr_identity ==
    /\ pc = "capture_pr_identity"
    /\ bind' = remote
    /\ goto("post_pr_iteration_guard")
    /\ UNCHANGED << remote, results, faults, feedbackVars, sub, rewinds, work, artifacts >>

latest_guard_for_current_run == Last(guard)

\* The CI failures are read for the head the guard runs on.
previous_round_had_ci_failures == ci.head # bind \/ ci.failures # {}

review_iteration_index(index) ==
    IF guard = << >> THEN 0
    ELSE LET carried == latest_guard_for_current_run.review
         IN  IF index = latest_guard_for_current_run.index \/ previous_round_had_ci_failures
             THEN carried ELSE carried + 1

\* Mutant: a new head starts a new count.
iteration_index_per_head ==
    IF guard = << >> \/ latest_guard_for_current_run.head # bind THEN 0
    ELSE latest_guard_for_current_run.index

iteration_index ==
    IF guard = << >> THEN 0
    ELSE IF latest_guard_for_current_run.head = bind THEN latest_guard_for_current_run.index
    ELSE latest_guard_for_current_run.index + 1

RemediationBudget(index) ==
    \/ index > max_post_pr_remediation_iterations
    \/ review_iteration_index(index) > max_review_remediation_iterations

post_pr_iteration_guard ==
    /\ pc = "post_pr_iteration_guard"
    /\ guard' = IF /\ guard # << >>
                   /\ latest_guard_for_current_run.head = bind
                   /\ latest_guard_for_current_run.index = iteration_index
                THEN guard
                ELSE Append(guard, [head |-> bind, index |-> iteration_index,
                                    review |-> review_iteration_index(iteration_index)])
    /\ goto(IF RemediationBudget(iteration_index) THEN "failed" ELSE "watch_pr_checks")
    /\ UNCHANGED << reviewVars, sub, rewinds, work, checks, ci, plan, tests, pushres, retry >>

-----------------------------------------------------------------------------
(* Checks.                                                                   *)

Absent == [name |-> "absent"]

Definition(c) == [matches |-> {c}, allow_skipped |-> {}]

Policy ==
    [required |-> {Definition(c) : c \in Required}, optional |-> {Definition(c) : c \in Optional},
     ignored |-> {}, allow_unmatched_success |-> allow_unmatched_success,
     default_allow_skipped |-> default_allow_skipped,
     block_optional_failures |-> block_optional_failures,
     missing_retry_attempts |-> missing_retry_attempts,
     api_error_retry_attempts |-> api_error_retry_attempts]

\* The rows GitHub answers with, and the artifact written of what they amount to.
Rows(o) == [c \in {d \in Checks : o[d] # Absent} |-> o[c]]

CheckStatus(head, seen, classification) ==
    [head |-> head, state |-> classification.state, counters |-> classification.counters,
     buckets |-> [c \in Checks |->
         IF \E k \in seen : c \in k.names
         THEN (CHOOSE k \in seen : c \in k.names).bucket ELSE "absent"]]

\* Counters survive only while the head stays the same.
read_matching_check_status_counters(head) ==
    IF checks.head = head THEN checks.counters ELSE NoCounters

watched(head, o) ==
    LET seen == query_checks(Rows(o), << >>, head)
    IN  CheckStatus(head, seen,
            classify_pr_checks(head, seen, Policy, read_matching_check_status_counters(head)))

watch_failed(head) ==
    CheckStatus(head, {}, classify_api_error(Policy, read_matching_check_status_counters(head)))

\* The watch captures the identity again before it polls.  Pending checks
\* park the run; the wait begins with counters of its own.
watch_pr_checks ==
    /\ pc = "watch_pr_checks"
    /\ bind' = remote
    /\ \/ /\ \E o \in Observations : checks' = watched(remote, o)
          /\ faults' = faults
       \/ /\ faults < MaxFaults
          /\ checks' = watch_failed(remote)
          /\ faults' = faults + 1
    /\ IF checks'.state = "pending_timeout"
       THEN park([kind |-> "pr_checks", head |-> remote, counters |-> NoCounters])
       ELSE goto("collect_ci_failures")
    /\ UNCHANGED << remote, results, feedbackVars, sub, rewinds, work, ci, plan, tests, pushres,
                    guard, retry >>

\* A poll of the wait, for the head it was parked with.  Its classification
\* is saved in the wait row and, unless the write after the commit is lost,
\* becomes the check status.  A ready wait resumes at the step that parked.
poll_checks_wait ==
    /\ pc = "waiting_external" /\ wait.kind = "pr_checks"
    /\ \E o \in Observations, answered, saved \in BOOLEAN :
          LET seen == query_pr_checks(Rows(o), << >>)
              classification == IF answered
                                THEN classify_pr_checks(wait.head, seen, Policy, wait.counters)
                                ELSE classify_api_error(Policy, wait.counters)
              decision == poll_pr_checks(TRUE, classification.state)
          IN  /\ faults' = faults + (IF answered THEN 0 ELSE 1) + (IF saved THEN 0 ELSE 1)
              /\ faults' <= MaxFaults
              /\ checks' = IF saved
                           THEN CheckStatus(wait.head, IF answered THEN seen ELSE {}, classification)
                           ELSE checks
              /\ IF decision = "waiting"
                 THEN park([wait EXCEPT !.counters = classification.counters])
                 ELSE goto(IF decision = "ready" THEN "watch_pr_checks" ELSE "failed")
    /\ UNCHANGED << remote, bind, results, feedbackVars, sub, rewinds, work, ci, plan, tests, pushres,
                    guard, retry >>

\* Buckets as the collector reads them: a skipped check has passed.
check_entry_bucket(bucket) == IF bucket = "skipped" THEN "passed" ELSE bucket

collect_ci_failure_fragments(kind) ==
    {c \in Checks : check_entry_bucket(checks.buckets[c]) = kind}

ci_collection_state == IF checks.state = "fatal" THEN "fatal" ELSE "collected"

pending_or_unknown ==
    \/ checks.state \in {"pending_timeout", "unknown"}
    \/ \E kind \in {"pending", "unknown"} : collect_ci_failure_fragments(kind) # {}

\* A check status of another head cannot be read: the watch runs again inside
\* the step, and the status is read for the binding the step began with.
collect_ci_failures ==
    /\ pc = "collect_ci_failures"
    /\ \/ /\ checks.head = bind
          /\ ci' = [head |-> bind, failures |-> collect_ci_failure_fragments("failed"),
                    pending |-> pending_or_unknown]
          /\ goto(IF ci_collection_state = "fatal" THEN "failed" ELSE "collect_coderabbit_feedback")
          /\ UNCHANGED << bind, checks >>
       \/ /\ checks.head # bind
          /\ bind' = remote
          /\ \E o \in Observations : checks' = watched(remote, o)
          /\ ci' = ci
          /\ goto(IF remote = bind THEN pc ELSE "failed")
    /\ UNCHANGED << remote, results, faults, feedbackVars, sub, rewinds, work, plan, tests, pushres,
                    guard, retry >>

-----------------------------------------------------------------------------
(* Review feedback, evaluation and the plan.                                 *)

collect_coderabbit_feedback ==
    /\ pc = "collect_coderabbit_feedback"
    /\ \/ collect_query_threads /\ goto(pc)
       \/ \E outcome \in {"success", "wait", "again"} :
             /\ record_feedback_observation(outcome)
             /\ IF outcome = "wait" THEN park([kind |-> "coderabbit_review", head |-> bind, counters |-> NoCounters])
                ELSE goto(IF outcome = "success" THEN "evaluate_coderabbit_feedback" ELSE pc)
    /\ UNCHANGED << sub, rewinds, work, artifacts >>

\* The comments of the pull request, as the poller sees them.
Comments == IF summary THEN {[author |-> {"coderabbit"}, says |-> {"coderabbit", "walkthrough"}]} ELSE {}

\* The summary comment of any head makes the wait ready.
poll_review_wait ==
    /\ pc = "waiting_external" /\ wait.kind = "coderabbit_review"
    /\ poll_coderabbit_review(TRUE, TRUE, Comments) = "ready"
    /\ goto("collect_coderabbit_feedback")
    /\ UNCHANGED << reviewVars, sub, rewinds, work, artifacts >>

evaluate_step ==
    /\ pc = "evaluate_coderabbit_feedback"
    /\ \E outcome \in {"success", "fatal"} :
          /\ evaluate_coderabbit_feedback(outcome)
          /\ goto(IF outcome = "success" THEN "build_remediation_plan" ELSE "failed")
    /\ UNCHANGED << sub, rewinds, work, artifacts >>

read_plan_inputs == ci.head = bind /\ feedback.head = bind /\ evals.head = bind

append_post_pr_test_failures == IF tests.head = bind /\ tests.state = "failed" THEN {<< "tests", "failed" >>} ELSE {}

\* must: what the remediation has to address; tseq: the test result it covers.
RemediationPlan ==
    LET judgment == \/ ci.pending
                    \/ feedback.state # "ready"
                    \/ evals.state # "complete"
                    \/ route_accepted_result("block") # {}
        must == {<< "ci", c >> : c \in ci.failures} \cup append_post_pr_test_failures
                    \cup {<< "item", i >> : i \in route_accepted_result("remediate")}
    IN  [head |-> bind, seq |-> plan.seq + 1, must |-> must,
         tseq |-> IF tests.head = bind THEN tests.seq ELSE 0,
         state |-> IF ~read_plan_inputs THEN "fatal"
                   ELSE IF judgment THEN "blocked" ELSE IF must # {} THEN "needs" ELSE "clean"]

build_remediation_plan ==
    /\ pc = "build_remediation_plan"
    /\ plan' = RemediationPlan
    /\ goto(CASE RemediationPlan.state = "clean" -> "mark_coderabbit_feedback"
              [] RemediationPlan.state = "needs" -> "remediate_pr_followup"
              [] OTHER -> "failed")
    /\ UNCHANGED << reviewVars, sub, rewinds, work, checks, ci, tests, pushres, guard, retry >>

-----------------------------------------------------------------------------
(* Remediation, validation, tests.                                           *)

remediation_plan_covers_current_post_pr_test_result ==
    tests.head = bind /\ tests.state = "failed" => plan.tseq = tests.seq

read_or_build_remediation_plan ==
    IF remediation_plan_covers_current_post_pr_test_result THEN plan ELSE RemediationPlan

retry_budget_left == retry.n < max_remediations

\* The retry state of another head is an error, the exhausted budget fatal.
\* The agent changes files, commits, or does neither, and addresses all of
\* the plan or not.
remediate_pr_followup ==
    /\ pc = "remediate_pr_followup"
    /\ IF retry.head \notin {NoHead, bind} \/ ~retry_budget_left
       THEN /\ goto("failed")
            /\ UNCHANGED << results, work, plan, retry >>
       ELSE \E change \in AgentChanges, ok \in BOOLEAN :
            /\ change = "commit" => made < MaxHeads
            /\ plan' = read_or_build_remediation_plan
            /\ retry' = [head |-> bind, n |-> retry.n + 1]
            /\ local' = IF change = "commit" THEN made + 1 ELSE local
            /\ made' = IF change = "commit" THEN made + 1 ELSE made
            /\ ours' = ours \cup {local'}
            /\ dirty' = (dirty \/ change = "files")
            /\ results' = Append(results,
                   [head |-> bind, plan |-> plan'.seq, ok |-> ok, output |-> local',
                    fixed |-> IF ok THEN {i \in Items : << "item", i >> \in plan'.must} ELSE {}])
            /\ goto("validate_remediation_result")
    /\ UNCHANGED << remote, bind, faults, feedbackVars, sub, rewinds, checks, ci, tests, pushres, guard >>

CurrentResult == Last(results)

validate_remediation_result ==
    /\ pc = "validate_remediation_result"
    /\ IF CurrentResult.ok
       THEN /\ pending' = write_pending_marker_actions_for_fixed_feedback(
                              Len(results), CurrentResult.output, CurrentResult.fixed)
            /\ goto("run_post_pr_tests")
       ELSE /\ pending' = pending
            /\ goto(IF retry_budget_left THEN "remediate_pr_followup" ELSE "failed")
    /\ UNCHANGED << remote, bind, results, faults, threads, coderabbit, summary, reviewed, replies,
                    obs, feedback, evals, report, marking, sub, rewinds, work, artifacts >>

same_verification_retry_scope == tests.head = bind /\ tests.plan = plan.seq /\ tests.res = Len(results)

current_verification_retry_index == IF same_verification_retry_scope THEN tests.index + 1 ELSE 0

\* Only a failed run of the commands counts as a retry.
write_post_pr_test_completion(state, index) ==
    CASE state = "passed" -> "push_remediation_changes"
      [] state = "failed" /\ index < max_verification_retries -> "remediate_pr_followup"
      [] OTHER -> "failed"

run_post_pr_tests ==
    /\ pc = "run_post_pr_tests"
    /\ \E state \in {"passed", "failed", "fatal"} :
          /\ state = "fatal" => faults < MaxFaults
          /\ faults' = IF state = "fatal" THEN faults + 1 ELSE faults
          /\ tests' = [head |-> bind, seq |-> tests.seq + 1, plan |-> plan.seq, res |-> Len(results),
                       state |-> state,
                       index |-> IF state = "fatal" THEN 0 ELSE current_verification_retry_index]
          /\ goto(write_post_pr_test_completion(state, tests'.index))
    /\ UNCHANGED << remote, bind, results, feedbackVars, sub, rewinds, work, checks, ci, plan, pushres,
                    guard, retry >>

-----------------------------------------------------------------------------
(* Push.                                                                     *)

validate_push_local_verification_result ==
    /\ tests.head = bind /\ tests.state = "passed"
    /\ tests.plan = plan.seq /\ tests.res = Len(results)

must_fix_success_evidence_is_acceptable == CurrentResult.head = bind /\ CurrentResult.ok

push_retry_scope_matches(head) ==
    pushres.local = head /\ pushres.plan = plan.seq /\ pushres.res = Len(results)

current_push_retry_index(head) == IF push_retry_scope_matches(head) THEN pushres.index + 1 ELSE 0

PushResult(state, head) ==
    [head |-> bind, state |-> state, local |-> head, plan |-> plan.seq, res |-> Len(results),
     index |-> current_push_retry_index(head)]

push_failed(state, head) ==
    /\ pushres' = PushResult(state, head)
    /\ sub' = ""
    /\ goto("failed")

\* Missing evidence knows no head, a failed inspection takes the binding's.
write_push_fatal(head) ==
    /\ pushres' = [PushResult("fatal", head) EXCEPT !.index = 0]
    /\ sub' = ""
    /\ goto("failed")

\* A retryable failure ends the run like a fatal one; only its record differs.
write_retryable_push_failure(head) ==
    push_failed(IF current_push_retry_index(head) >= max_push_retries
                THEN "retry_exhausted" ELSE "retryable_failed", head)

write_no_change_push_result ==
    /\ ~dirty /\ remote = local
    /\ pushres' = PushResult("no_change", local)
    /\ goto("mark_coderabbit_feedback")
    /\ UNCHANGED << work, faults, sub >>

\* The agent, or an execution that died, has committed already.
push_existing_local_head ==
    /\ ~dirty /\ remote # local
    /\ sub' = "committed"
    /\ goto(pc)
    /\ UNCHANGED << work, faults, pushres >>

commit_remediation_changes ==
    /\ dirty
    /\ \/ /\ made < MaxHeads
          /\ made' = made + 1 /\ local' = made + 1 /\ ours' = ours \cup {made + 1}
          /\ dirty' = FALSE
          /\ sub' = "committed"
          /\ goto(pc)
          /\ UNCHANGED << faults, pushres >>
       \/ /\ faults < MaxFaults                   \* staging or the commit fails
          /\ faults' = faults + 1
          /\ write_retryable_push_failure(local)
          /\ UNCHANGED work

\* The step begins: evidence, the work directory and the remote head (the
\* inspection may fail), the retry index of the previous result (an error
\* when that belongs to another head), then what there is to push.
push_remediation_changes ==
    /\ pc = "push_remediation_changes" /\ sub = ""
    /\ IF ~validate_push_local_verification_result \/ ~must_fix_success_evidence_is_acceptable
       THEN write_push_fatal(NoHead) /\ UNCHANGED << work, faults >>
       ELSE \/ faults < MaxFaults /\ faults' = faults + 1 /\ write_push_fatal(bind) /\ UNCHANGED work
            \/ /\ pushres.head \notin {NoHead, bind}
               /\ goto("failed")
               /\ UNCHANGED << work, faults, sub, pushres >>
            \/ /\ pushres.head \in {NoHead, bind}
               /\ write_no_change_push_result \/ push_existing_local_head \/ commit_remediation_changes
    /\ UNCHANGED << remote, bind, results, feedbackVars, rewinds, checks, ci, plan, tests, guard, retry >>

\* git push: refused when the remote branch has commits the local one lacks.
run_git_push ==
    /\ pc = "push_remediation_changes" /\ sub = "committed"
    /\ \/ /\ remote \in ours
          /\ remote' = local
          /\ threads' \in reanchored(local)
          /\ sub' = "pushed"
          /\ goto(pc)
          /\ UNCHANGED << pushres, faults >>
       \/ /\ remote \notin ours
          /\ write_retryable_push_failure(local)
          /\ UNCHANGED << remote, threads, faults >>
       \/ /\ faults < MaxFaults
          /\ faults' = faults + 1
          /\ write_retryable_push_failure(local)
          /\ UNCHANGED << remote, threads >>
    /\ UNCHANGED << bind, results, coderabbit, summary, reviewed, replies, obs, feedback, evals,
                    pending, report, marking, rewinds, work, checks, ci, plan, tests, guard, retry >>

\* The remote head is read back; success leads to the next round.
write_committed_head_push_result ==
    /\ pc = "push_remediation_changes" /\ sub = "pushed"
    /\ \/ /\ remote = local
          /\ pushres' = PushResult("pushed", local)
          /\ sub' = ""
          /\ goto("capture_pr_identity")
       \/ /\ remote # local
          /\ push_failed("retryable_failed", local)
    /\ UNCHANGED << reviewVars, rewinds, work, checks, ci, plan, tests, guard, retry >>

-----------------------------------------------------------------------------
(* Marking, death and rewinds.                                               *)

mark_step ==
    /\ pc = "mark_coderabbit_feedback"
    /\ \E outcome \in {"success", "again", "fatal", "error"} :
          /\ mark_coderabbit_feedback(outcome)
          /\ goto(CASE outcome = "again" -> pc [] outcome = "success" -> "done" [] OTHER -> "failed")
    /\ UNCHANGED << sub, rewinds, work, artifacts >>

check_safe_step(n) == n \in DOMAIN SafeSteps /\ n <= far

\* The run has failed, or its process dies where it stands and what was in
\* memory is lost; an operator sends it back to a safe step it has reached.
rewind(n) ==
    /\ pc # "done"
    /\ rewinds < MaxRewinds
    /\ check_safe_step(n)
    /\ pc' = SafeSteps[n]
    /\ sub' = ""
    /\ obs' = NoObservation(obs.required)
    /\ marking' = Idle
    /\ rewinds' = rewinds + 1
    /\ wait' = NoWait
    /\ UNCHANGED << remote, bind, results, faults, threads, coderabbit, summary, reviewed, replies,
                    feedback, evals, pending, report, far, work, artifacts >>

-----------------------------------------------------------------------------
None(i) == [state |-> "absent", head |-> NoHead]

Init ==
    /\ remote = 1 /\ bind = NoHead /\ results = << >> /\ faults = 0
    /\ threads = [i \in Items |-> None(i)]
    /\ coderabbit = [head |-> NoHead, state |-> "ready"]
    /\ summary = FALSE /\ reviewed = {} /\ replies = << >>
    /\ \E required \in RequiredStable : obs = NoObservation(required)
    /\ feedback = [head |-> NoHead, state |-> "none", items |-> {}, eligible |-> [i \in {} |-> TRUE]]
    /\ evals = [head |-> NoHead, state |-> "none", accepted |-> [i \in {} |-> TRUE]]
    /\ pending = {} /\ report = [head |-> NoHead, state |-> "none", keys |-> {}] /\ marking = Idle
    /\ pc = SafeSteps[1] /\ sub = "" /\ local = 1 /\ dirty = FALSE /\ ours = {1} /\ made = 1
    /\ checks = CheckStatus(NoHead, {}, [state |-> "none", counters |-> NoCounters])
    /\ ci = [head |-> NoHead, failures |-> {}, pending |-> FALSE]
    /\ plan = [head |-> NoHead, seq |-> 0, must |-> {}, tseq |-> 0, state |-> "none"]
    /\ tests = [head |-> NoHead, seq |-> 0, plan |-> 0, res |-> 0, state |-> "none", index |-> 0]
    /\ pushres = [head |-> NoHead, state |-> "none", local |-> NoHead, plan |-> 0, res |-> 0, index |-> 0]
    /\ guard = << >> /\ retry = [head |-> NoHead, n |-> 0] /\ far = 1 /\ rewinds = 0
    /\ wait = NoWait

Next ==
    \/ CodeRabbit /\ UNCHANGED loopVars
    \/ foreign_push
    \/ capture_pr_identity \/ post_pr_iteration_guard
    \/ watch_pr_checks \/ poll_checks_wait \/ poll_review_wait
    \/ collect_ci_failures
    \/ collect_coderabbit_feedback \/ evaluate_step \/ build_remediation_plan
    \/ remediate_pr_followup \/ validate_remediation_result \/ run_post_pr_tests
    \/ push_remediation_changes \/ run_git_push \/ write_committed_head_push_result
    \/ mark_step
    \/ \E n \in DOMAIN SafeSteps : rewind(n)

Spec == Init /\ [][Next]_vars

-----------------------------------------------------------------------------
\* record_feedback_observation, next_stable_count: when the review of a head
\* has been finished and the collection records feedback for that head as
\* ready, no open thread of the head is missing, although threads and signals
\* are read by different calls while CodeRabbit is posting.  Where a workflow
\* requires a single ready observation (the shipped ones do) this holds of a
\* review that was finished before the threads were asked for.
ReadyIsComplete ==
    [][pc = "collect_coderabbit_feedback" /\ feedback' # feedback
          /\ feedback'.state = "ready" /\ feedback'.head \in reviewed
          /\ (obs.required = 1 => obs.finished)
         => {i \in Items : threads[i].state = "open" /\ threads[i].head = feedback'.head}
                \subseteq feedback'.items]_vars

\* scan_remote_marker_completions, handle_marker_comment: a pass posts no reply
\* twice, and repeats none of an earlier pass, whatever answers were lost,
\* wherever the process died and however often the run was rewound, unless the
\* query for the comments of the threads failed: the code then only warns.
RepliesOnce ==
    [][\A n \in DOMAIN replies' \ DOMAIN replies :
          /\ \A a \in marking.replied : pending_action_idempotency_key(a) # replies'[n]
          /\ ~marking.blind => \A m \in DOMAIN replies : replies[m] # replies'[n]]_vars

\* latest_guard_for_current_run, RemediationBudget: whenever the guard lets the
\* run go on, the whole history of the run holds at most
\* max_post_pr_remediation_iterations heads after the first, whoever pushed
\* them, through crashes and rewinds.  (An operator who rewinds a run behind
\* the guard overrules it.)
GuardBudget ==
    [][pc = "post_pr_iteration_guard" /\ pc' = "watch_pr_checks" /\ rewinds' = rewinds
         => Cardinality({n \in DOMAIN guard' : guard'[n].head # guard'[1].head})
                <= max_post_pr_remediation_iterations]_vars
=============================================================================
