--------------------------- MODULE ReviewFeedback ---------------------------
(***************************************************************************)
(* Review feedback of a pull request (components/github/github_feedback,   *)
(* feedback_eval): what CodeRabbit and GitHub hold, how the collector      *)
(* decides that a review is complete, how items are evaluated and routed,  *)
(* and how replies are posted and threads resolved without repeating       *)
(* either.  FollowupLoop composes these operations with the rest of the    *)
(* post-PR loop.                                                           *)
(*                                                                         *)
(* A head is a number (0: none); an item is a review thread.  An artifact  *)
(* is a record bound to the head it was written for.  The summary comment  *)
(* of CodeRabbit is an issue comment and carries no head.                  *)
(***************************************************************************)
EXTENDS Integers, Sequences, FiniteSets, SequencesExt

CONSTANTS
    Items,             \* review threads
    MaxHeads,          \* commits the pull request may get
    MaxObservations,   \* readiness observations of one collection
    RequiredStable,    \* identical ready observations a workflow may require
    Evaluations,       \* accepted evaluations a reviewer model may return
    MaxFaults          \* failed or ambiguous remote calls

VARIABLES
    remote,     \* head of the pull request on GitHub
    threads,    \* threads[i] = [state, head]
    coderabbit, \* [head, state]: the review CodeRabbit is making or has made
    summary,    \* the summary comment is on the pull request
    reviewed,   \* history: heads whose review CodeRabbit finished
    replies,    \* marker comments on GitHub, in the order they were posted
    bind,       \* head in the pr artifact: the binding of every step
    obs,        \* the collection under way
    feedback,   \* coderabbit-feedback (with coderabbit-feedback-state)
    evals,      \* feedback-evaluations
    results,    \* history of pr-remediation-result
    pending,    \* pending-feedback-marker-actions: a set of actions
    report,     \* feedback marker report: [head, state, keys]
    marking,    \* the marking pass under way
    faults      \* remote calls that failed or whose answer was lost

feedbackVars == << threads, coderabbit, summary, reviewed, replies, obs, feedback, evals, pending,
                   report, marking >>

Heads == 1 .. MaxHeads
NoHead == 0

Legal == [decision : {"valid", "invalid", "out_of_scope", "needs_user_judgment"},
          correctness : {"blocker", "high", "medium", "low", "invalid"},
          scope : {"required_acceptance_criterion", "regression_from_current_patch",
                   "small_adjacent_fix", "follow_up_issue", "user_decision"}]

ASSUME EvaluationsAreLegal == Evaluations \subseteq Legal
ASSUME SettingsAssumption == RequiredStable \subseteq Nat \ {0}

-----------------------------------------------------------------------------
(* CodeRabbit: it starts on the current head, posts threads, finishes, and   *)
(* keeps one summary comment.                                                *)

coderabbit_start ==
    /\ coderabbit.head # remote
    /\ coderabbit' = [head |-> remote, state |-> "in_progress"]
    /\ UNCHANGED << remote, threads, summary, reviewed, replies, bind, obs, feedback, evals,
                    results, pending, report, marking, faults >>

coderabbit_comment(i) ==
    /\ coderabbit.state = "in_progress"
    /\ threads[i].state = "absent"
    /\ threads' = [threads EXCEPT ![i] = [state |-> "open", head |-> coderabbit.head]]
    /\ UNCHANGED << remote, coderabbit, summary, reviewed, replies, bind, obs, feedback, evals,
                    results, pending, report, marking, faults >>

coderabbit_finish ==
    /\ coderabbit.state = "in_progress"
    /\ coderabbit' = [coderabbit EXCEPT !.state = "ready"]
    /\ summary' = TRUE
    /\ reviewed' = reviewed \cup {coderabbit.head}
    /\ UNCHANGED << remote, threads, replies, bind, obs, feedback, evals, results, pending, report,
                    marking, faults >>

CodeRabbit ==
    \/ coderabbit_start
    \/ \E i \in Items : coderabbit_comment(i)
    \/ coderabbit_finish

-----------------------------------------------------------------------------
(* Collection.  One observation is a query of the threads followed by a      *)
(* query of the signals; GitHub may change in between.                       *)

\* required is the workflow's setting; finished is history: the review of the
\* head was finished when the threads were asked for.
NoObservation(required) ==
    [asked |-> FALSE, n |-> 0, stable |-> 0, seen |-> {}, prev |-> <<>>, finished |-> FALSE,
     required |-> required]

normalize_graphql_thread(i) == threads[i].state = "open" /\ threads[i].head = bind

observe_threads == {i \in Items : normalize_graphql_thread(i)}

\* A signal for another head is stale; the summary comment counts for any.
ready_signal == (coderabbit.head = bind /\ coderabbit.state = "ready") \/ summary

in_progress_signal == coderabbit.head = bind /\ coderabbit.state = "in_progress"

\* Items, the summary and every signal, the stale ones included.
readiness_stability_hash(items) == << items, summary, coderabbit >>

\* Mutant: any ready observation counts, whatever it saw.
next_stable_count_of_any(prev, hash, ready, n) == IF ready THEN n + 1 ELSE 0

next_stable_count(prev, hash, ready, n) ==
    IF ~ready THEN 0 ELSE IF prev = hash THEN n + 1 ELSE 1

write_feedback_artifacts(state, items) ==
    [head |-> bind, state |-> state, items |-> items, eligible |-> [i \in {} |-> TRUE]]

collect_query_threads ==
    /\ ~obs.asked
    /\ obs' = [obs EXCEPT !.asked = TRUE, !.seen = observe_threads, !.finished = bind \in reviewed]
    /\ UNCHANGED << remote, threads, coderabbit, summary, reviewed, replies, bind, feedback, evals,
                    results, pending, report, marking, faults >>

\* The second half of an observation: the stable count, the artifact of this
\* observation, and what the loop does next.
record_feedback_observation(outcome) ==
    LET ready  == ready_signal /\ ~in_progress_signal
        hash   == readiness_stability_hash(obs.seen)
        stable == next_stable_count(obs.prev, hash, ready, obs.stable)
        done   == stable >= obs.required
        last   == obs.n + 1 = MaxObservations
    IN  /\ obs.asked
        /\ outcome = IF done THEN "success" ELSE IF last THEN "wait" ELSE "again"
        /\ feedback' = write_feedback_artifacts(
               IF done THEN "ready" ELSE IF last THEN "timeout" ELSE "not_ready", obs.seen)
        /\ obs' = IF outcome = "again"
                  THEN [NoObservation(obs.required) EXCEPT
                           !.n = obs.n + 1, !.stable = stable, !.prev = IF ready THEN hash ELSE <<>>]
                  ELSE NoObservation(obs.required)
        /\ UNCHANGED << remote, threads, coderabbit, summary, reviewed, replies, bind, evals,
                        results, pending, report, marking, faults >>

-----------------------------------------------------------------------------
(* Evaluation: one accepted evaluation per item, or none after the attempts. *)

reusable_evaluation(i) == feedback.head = bind /\ i \in DOMAIN feedback.eligible

\* No attempt gave a valid answer.
Exhausted == [decision |-> "exhausted", correctness |-> "none", scope |-> "none"]

evaluate_fresh_item(i) == Evaluations \cup {Exhausted}

process_item(i) == IF reusable_evaluation(i) THEN {feedback.eligible[i]} ELSE evaluate_fresh_item(i)

exactly_one_accepted_per_item(accepted) ==
    \A i \in feedback.items : i \in DOMAIN accepted /\ accepted[i] \in Evaluations

evaluate_coderabbit_feedback(outcome) ==
    \E choice \in [feedback.items -> Evaluations \cup {Exhausted}] :
        LET ready    == feedback.head = bind /\ feedback.state = "ready"
            accepted == [i \in {j \in feedback.items : choice[j] # Exhausted} |-> choice[i]]
            complete == ready /\ exactly_one_accepted_per_item(accepted)
        IN  /\ \A i \in feedback.items : choice[i] \in process_item(i)
            /\ outcome = IF complete THEN "success" ELSE "fatal"
            /\ feedback' = IF complete THEN [feedback EXCEPT !.eligible = accepted] ELSE feedback
            /\ evals' = [head |-> bind,
                         state |-> IF complete THEN "complete" ELSE IF ready THEN "exhausted" ELSE "fatal",
                         accepted |-> IF ready THEN accepted ELSE [i \in {} |-> TRUE]]
            /\ UNCHANGED << remote, threads, coderabbit, summary, reviewed, replies, bind, obs,
                            results, pending, report, marking, faults >>

disposition_action(r) ==
    CASE r.correctness = "invalid" -> "ignore"
      [] r.correctness # "invalid" /\ r.scope = "follow_up_issue" -> "defer"
      [] r.correctness # "invalid" /\ r.scope = "user_decision" -> "block"
      [] r.correctness = "low" /\ r.scope = "small_adjacent_fix" -> "defer"
      [] OTHER -> "remediate"

\* Every accepted evaluation carries both axes, so the legacy route to
\* mark_invalid is not taken.
route_accepted_result(action) ==
    {i \in DOMAIN evals.accepted : disposition_action(evals.accepted[i]) = action}

-----------------------------------------------------------------------------
(* Pending marker actions.                                                   *)

\* output is NoHead when the action does not come from a remediation; res is
\* the index of the result that carries its evidence.
PendingAction(i, kind, source, output, res) ==
    [item |-> i, kind |-> kind, source |-> source, output |-> output, res |-> res,
     status |-> "pending"]

pending_action_idempotency_key(a) == << a.item, a.kind, a.source, a.output >>

same_original_feedback_identity(a, b) == a.item = b.item /\ a.source = b.source

remove_superseded_classifications(actions, fixed) ==
    {a \in actions : a.kind = "comment_fixed" \/ ~same_original_feedback_identity(a, fixed)}

Keys(actions) == {pending_action_idempotency_key(a) : a \in actions}

\* Validated results become "fixed" actions; one that is already there stays.
write_pending_marker_actions_for_fixed_feedback(res, output, fixed) ==
    LET new  == {PendingAction(i, "comment_fixed", bind, output, res) : i \in fixed}
        kept == {a \in pending : \A f \in new : a \in remove_superseded_classifications(pending, f)}
    IN  kept \cup {f \in new : pending_action_idempotency_key(f) \notin Keys(kept)}

current_evaluation_action_kind(decision) ==
    CASE decision = "invalid" -> "comment_invalid"
      [] decision = "out_of_scope" -> "comment_out_of_scope"
      [] decision = "needs_user_judgment" -> "skip_needs_user_judgment"
      [] OTHER -> "none"

\* The marking step adds an action for every current evaluation that is to be
\* answered without a change.
refresh_pending_marker_actions_from_current_artifacts ==
    LET kind(i) == current_evaluation_action_kind(evals.accepted[i].decision)
        new == {PendingAction(i, kind(i), bind, NoHead, 0) :
                   i \in {j \in DOMAIN evals.accepted : kind(j) # "none"}}
    IN  IF feedback.head # bind \/ evals.head # bind THEN pending
        ELSE pending \cup {a \in new : pending_action_idempotency_key(a) \notin Keys(pending)}

-----------------------------------------------------------------------------
(* Marking: everything is validated before the first remote change; then     *)
(* each action posts its reply and resolves its thread.                      *)

\* blind: the comments of the threads could not be read.
Idle == [on |-> FALSE, todo |-> {}, done |-> {}, replied |-> {}, completed |-> {}, keys |-> {},
         partial |-> FALSE, blind |-> FALSE]

\* No two answers to one item in one remediation cycle.
validate_marker_actions_before_mutation(actions) ==
    \A a, b \in actions :
        \/ a = b
        \/ "skip_needs_user_judgment" \in {a.kind, b.kind}
        \/ pending_action_idempotency_key(a) # pending_action_idempotency_key(b)

\* Evidence of a fixed action: the very result it was derived from, read as
\* the current result of this head or by sequence from the history.
validate_marker_action_evidence(a) ==
    \/ a.kind # "comment_fixed"
    \/ /\ a.res \in DOMAIN results
       /\ a.source = bind => a.res = Len(results)
       /\ results[a.res].head = a.source
       /\ a.item \in results[a.res].fixed

read_local_marker_completions == IF report.head = bind THEN report.keys ELSE {}

CompletionKey(a, what) == << pending_action_idempotency_key(a), what >>

\* Mutant: only this run's own report is consulted.
scan_remote_marker_completions_local(answered) == {}

\* A completed marker comment stands for the reply and the resolution.  The
\* replies are comments of the threads: when the query for those fails, the
\* scan only warns and goes on without them.
scan_remote_marker_completions(answered) ==
    IF answered
    THEN {<< replies[n], what >> : n \in DOMAIN replies, what \in {"comment", "resolution"}}
    ELSE {}

\* The query for the comments of the pull request comes first: when that fails
\* the step ends with an error.
mark_begin(outcome) ==
    LET actions == refresh_pending_marker_actions_from_current_artifacts
        valid   == validate_marker_actions_before_mutation(actions)
        proved  == \A a \in actions : validate_marker_action_evidence(a)
    IN  /\ ~marking.on
        /\ \E comments, answered \in BOOLEAN :
              /\ ~valid => comments
              /\ ~valid \/ ~comments => answered
              /\ (comments /\ answered) \/ faults < MaxFaults
              /\ faults' = IF comments /\ answered THEN faults ELSE faults + 1
              /\ outcome = IF ~comments THEN "error" ELSE IF valid /\ proved THEN "again" ELSE "fatal"
              /\ marking' = IF outcome # "again" THEN Idle
                            ELSE [Idle EXCEPT !.on = TRUE, !.todo = actions, !.blind = ~answered,
                                     !.completed = read_local_marker_completions
                                                       \cup scan_remote_marker_completions(answered)]
        /\ IF outcome # "fatal" THEN UNCHANGED << pending, report >>
           ELSE /\ report' = [head |-> bind, state |-> IF valid THEN "partial" ELSE "fatal", keys |-> {}]
                /\ pending' = IF valid
                              THEN {IF validate_marker_action_evidence(a) THEN a
                                    ELSE [a EXCEPT !.status = "failed"] : a \in actions}
                              ELSE pending
        /\ UNCHANGED << remote, threads, coderabbit, summary, reviewed, replies, bind, obs, feedback,
                        evals, results >>

Current == CHOOSE a \in marking.todo : TRUE

marker_comment_already_done(a) ==
    CompletionKey(a, "comment") \in marking.completed \/ a.status = "completed"

\* The reply of the current action.  "unknown" is an answer without an id:
\* the reply counts as posted and is not tried again.
handle_marker_comment(outcome) ==
    /\ marking.on /\ marking.todo # {} /\ Current \notin marking.replied
    /\ \/ /\ marker_comment_already_done(Current) \/ Current.kind = "skip_needs_user_judgment"
          /\ outcome = "again"
          /\ marking' = [marking EXCEPT !.replied = @ \cup {Current},
                                        !.keys = @ \cup {CompletionKey(Current, "comment")}]
          /\ UNCHANGED << replies, faults >>
       \/ /\ ~marker_comment_already_done(Current) /\ Current.kind # "skip_needs_user_judgment"
          /\ \E answer \in {"confirmed", "unknown", "lost", "error"} :
                /\ answer # "confirmed" => faults < MaxFaults
                /\ faults' = IF answer = "confirmed" THEN faults ELSE faults + 1
                /\ replies' = IF answer \in {"confirmed", "lost"} 
                              THEN Append(replies, pending_action_idempotency_key(Current)) ELSE replies
                /\ outcome = IF answer \in {"confirmed", "unknown"} THEN "again" ELSE "error"
                /\ marking' = IF outcome = "error" THEN Idle
                              ELSE [marking EXCEPT !.replied = @ \cup {Current},
                                                   !.keys = @ \cup {CompletionKey(Current, "comment")}]
    /\ UNCHANGED << remote, threads, coderabbit, summary, reviewed, bind, obs, feedback, evals,
                    results, pending, report >>

resolution_required(a) == a.kind = "comment_fixed"

marker_resolution_plan(a) ==
    IF ~resolution_required(a) \/ CompletionKey(a, "resolution") \in marking.completed
    THEN "skip" ELSE "resolve"

apply_marker_resolution ==
    /\ marking.on /\ marking.todo # {} /\ Current \in marking.replied
    /\ LET a == Current
       IN  \E ok \in BOOLEAN :
              /\ marker_resolution_plan(a) = "skip" => ok
              /\ ~ok => faults < MaxFaults
              /\ faults' = IF ok THEN faults ELSE faults + 1
              /\ threads' = IF marker_resolution_plan(a) = "resolve" /\ ok
                            THEN [threads EXCEPT ![a.item].state = "resolved"] ELSE threads
              /\ marking' = [marking EXCEPT
                     !.todo = @ \ {a},
                     !.partial = @ \/ ~ok \/ a.kind = "skip_needs_user_judgment",
                     !.keys = IF ok THEN @ \cup {CompletionKey(a, "resolution")} ELSE @,
                     !.done = @ \cup {[a EXCEPT !.status =
                                  IF ok /\ a.kind # "skip_needs_user_judgment"
                                  THEN "completed" ELSE "failed"]}]
    /\ UNCHANGED << remote, coderabbit, summary, reviewed, replies, bind, obs, feedback, evals,
                    results, pending, report >>

write_marker_report(outcome) ==
    /\ marking.on /\ marking.todo = {}
    /\ pending' = marking.done
    /\ report' = [head |-> bind, state |-> IF marking.partial THEN "partial" ELSE "complete",
                  keys |-> marking.keys]
    /\ outcome = IF marking.partial THEN "fatal" ELSE "success"
    /\ marking' = Idle
    /\ UNCHANGED << remote, threads, coderabbit, summary, reviewed, replies, bind, obs, feedback,
                    evals, results, faults >>

mark_coderabbit_feedback(outcome) ==
    \/ mark_begin(outcome)
    \/ handle_marker_comment(outcome)
    \/ outcome = "again" /\ apply_marker_resolution
    \/ write_marker_report(outcome)
=============================================================================
