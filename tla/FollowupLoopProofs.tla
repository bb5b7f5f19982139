------------------------- MODULE FollowupLoopProofs -------------------------
(***************************************************************************)
(* The follow-up loop: what a verdict on the checks of a pull request      *)
(* means, for every policy and every answer of GitHub, and the three       *)
(* properties of the loop: no reply is posted twice, the guard bounds the  *)
(* heads of a run, and feedback recorded as ready is complete.             *)
(***************************************************************************)
EXTENDS FollowupLoop, FiniteSetTheorems, TLAPS

-----------------------------------------------------------------------------
(* The verdict on the checks.                                                *)

\* aggregate_match_state: a definition is passed only when some considered
\* check matches it and every one that does is passed, or skipped by leave.
LEMMA PassedDefinition ==
    ASSUME NEW rows, NEW d, NEW policy,
           aggregate_match_state(rows, d, policy) \notin {"missing", "failed", "pending", "unknown"}
    PROVE  /\ matched(rows, d) # {}
           /\ \A c \in matched(rows, d) :
                 classify_check(c, allow_skipped(d, policy)) \notin {"failed", "pending", "unknown"}
<1> DEFINE buckets == {classify_check(c, allow_skipped(d, policy)) : c \in matched(rows, d)}
<1>1. /\ buckets # {}
      /\ "failed" \notin buckets /\ "pending" \notin buckets /\ "unknown" \notin buckets
  BY DEF aggregate_match_state
<1>2. matched(rows, d) # {}
  BY <1>1
<1>3. \A c \in matched(rows, d) : classify_check(c, allow_skipped(d, policy)) \in buckets
  OBVIOUS
<1> QED
  BY <1>1, <1>2, <1>3

\* classify_state: the run goes on to "passed" only when every required
\* definition is met by a check of the head and none of its checks failed, is
\* running or is unknown; when no check outside the policy failed, is running
\* or is unknown; and, where optional failures block, none of those failed.
THEOREM PassedMeansChecked ==
    ASSUME NEW rows, NEW policy, NEW counters,
           classify_state(rows, policy, counters) = "passed"
    PROVE  /\ \A d \in policy.required :
                 /\ matched(rows, d) # {}
                 /\ \A c \in matched(rows, d) :
                       classify_check(c, allow_skipped(d, policy))
                           \notin {"failed", "pending", "unknown"}
           /\ \A c \in unmatched(rows, policy) :
                 /\ c.bucket \notin {"pending", "unknown"}
                 /\ classify_check(c, policy.default_allow_skipped) # "failed"
           /\ policy.block_optional_failures =>
                 \A d \in policy.optional : aggregate_match_state(rows, d, policy) # "failed"
           /\ policy.required = {} => policy.allow_unmatched_success
<1> DEFINE required == match_definitions(rows, policy.required, policy)
           optionals == match_definitions(rows, policy.optional, policy)
           other == unmatched(rows, policy)
<1>1. missing_state(policy, counters) # "passed"
  BY DEF missing_state
<1>2. /\ "failed" \notin required /\ "missing" \notin required
      /\ "pending" \notin required /\ "unknown" \notin required
      /\ ~(policy.block_optional_failures /\ "failed" \in optionals)
      /\ ~\E c \in other : c.bucket = "pending"
      /\ ~\E c \in other : c.bucket = "unknown"
      /\ ~\E c \in other : classify_check(c, policy.default_allow_skipped) = "failed"
      /\ ~(policy.required = {} /\ ~policy.allow_unmatched_success)
  <2> HIDE DEF required, optionals, other
  <2> QED
    BY <1>1 DEF classify_state, required, optionals, other
<1>3. ASSUME NEW d \in policy.required
      PROVE  /\ matched(rows, d) # {}
             /\ \A c \in matched(rows, d) :
                   classify_check(c, allow_skipped(d, policy)) \notin {"failed", "pending", "unknown"}
  <2>1. aggregate_match_state(rows, d, policy) \in required
    BY DEF match_definitions
  <2>2. aggregate_match_state(rows, d, policy) \notin {"missing", "failed", "pending", "unknown"}
    BY <2>1, <1>2
  <2> QED
    BY <2>2, PassedDefinition
<1>4. \A d \in policy.optional : aggregate_match_state(rows, d, policy) \in optionals
  BY DEF match_definitions
<1> QED
  BY <1>2, <1>3, <1>4

\* classify_pr_checks: checks of other commits, whatever they say, decide
\* nothing, unless one of them is ignored under the id of a check of the head.
THEOREM StaleDecideNothing ==
    ASSUME NEW head, NEW rows, NEW stale, NEW policy, NEW old,
           \A c \in stale : ~(c.head \subseteq {head}),
           \A c \in stale, k \in rows : c.id # k.id
    PROVE  classify_pr_checks(head, rows \cup stale, policy, old)
             = classify_pr_checks(head, rows, policy, old)
<1>1. current_checks(rows \cup stale, head) = current_checks(rows, head)
  BY DEF current_checks
<1>2. ASSUME NEW c \in rows
      PROVE  c.id \in ignored_check_ids(rows \cup stale, policy)
               <=> c.id \in ignored_check_ids(rows, policy)
  BY DEF ignored_check_ids
<1>3. current_checks(rows, head) \subseteq rows
  BY DEF current_checks
<1>4. considered(rows \cup stale, head, policy) = considered(rows, head, policy)
  BY <1>1, <1>2, <1>3 DEF considered
<1> QED
  BY <1>4 DEF classify_pr_checks

-----------------------------------------------------------------------------
(* Sequences that grow: the values they hold are not typed.                  *)

IsSeq(s) == \E S : s \in Seq(S)

\* What Append does to the elements, whatever they are.
LEMMA Appended ==
    ASSUME NEW s, IsSeq(s), NEW e
    PROVE  /\ IsSeq(Append(s, e))
           /\ Len(s) \in Nat
           /\ DOMAIN s = 1 .. Len(s)
           /\ DOMAIN Append(s, e) = 1 .. Len(s) + 1
           /\ Len(Append(s, e)) = Len(s) + 1
           /\ Append(s, e)[Len(s) + 1] = e
           /\ \A n \in DOMAIN s : Append(s, e)[n] = s[n]
<1>1. PICK S : s \in Seq(S)
  BY DEF IsSeq
<1>2. PICK T : T = S \cup {e}
  OBVIOUS
<1>3. s \in Seq(T) /\ e \in T
  <2>1. e \in T /\ S \subseteq T
    BY <1>2
  <2>2. /\ Len(s) \in Nat
        /\ DOMAIN s = 1 .. Len(s)
        /\ \A n \in 1 .. Len(s) : s[n] \in S
    BY <1>1
  <2>3. s = [n \in 1 .. Len(s) |-> s[n]]
    BY <1>1
  <2>4. s \in [1 .. Len(s) -> T]
    BY <2>1, <2>2, <2>3
  <2> QED
    BY <2>1, <2>2, <2>4
<1>4. Append(s, e) \in Seq(T)
  BY <1>3
<1> QED
  BY <1>3, <1>4 DEF IsSeq

-----------------------------------------------------------------------------
(* Replies: what the marking pass knows of the replies on GitHub.            *)

Key(a) == pending_action_idempotency_key(a)

\* The actions of a pass answer different things; those that are skipped
\* answer nothing.
Apart(a, b) == a = b \/ "skip_needs_user_judgment" \in {a.kind, b.kind} \/ Key(a) # Key(b)

\* A pass that could read the comments of the threads has found every reply on
\* GitHub completed when it began, or has made it.
Answered(key) == << key, "comment" >> \in marking.completed \/ \E b \in marking.replied : key = Key(b)

MarkFields == {"on", "todo", "done", "replied", "completed", "keys", "partial", "blind"}

MarkInv ==
    /\ DOMAIN marking = MarkFields
    /\ IsSeq(replies)
    /\ (marking.on /\ ~marking.blind) => \A n \in DOMAIN replies : Answered(replies[n])
    /\ marking.on => \A a \in marking.todo, b \in marking.todo \cup marking.replied : Apart(a, b)

RepliesOnceStep ==
    \A n \in DOMAIN replies' \ DOMAIN replies :
       /\ \A a \in marking.replied : Key(a) # replies'[n]
       /\ ~marking.blind => \A m \in DOMAIN replies : replies[m] # replies'[n]

\* scan_remote_marker_completions, validate_marker_actions_before_mutation: a
\* pass begins with the replies of GitHub, if it could read them, and with
\* actions that differ.
LEMMA MarkBegins ==
    ASSUME MarkInv, NEW outcome, mark_begin(outcome)
    PROVE  MarkInv' /\ replies' = replies
<1>1. replies' = replies
  BY DEF mark_begin
<1>2. CASE outcome = "again"
  <2>1. PICK actions : actions = refresh_pending_marker_actions_from_current_artifacts
    OBVIOUS
  <2>2. validate_marker_actions_before_mutation(actions)
    BY <1>2, <2>1 DEF mark_begin
  <2>3. PICK answered \in BOOLEAN :
           marking' = [Idle EXCEPT !.on = TRUE, !.todo = actions, !.blind = ~answered,
                           !.completed = read_local_marker_completions
                                             \cup scan_remote_marker_completions(answered)]
    BY <1>2, <2>1 DEF mark_begin
  <2>4. /\ DOMAIN marking' = MarkFields
        /\ marking'.todo = actions
        /\ marking'.replied = {}
        /\ marking'.blind = ~answered
        /\ marking'.completed = read_local_marker_completions \cup scan_remote_marker_completions(answered)
    BY <2>3 DEF Idle, MarkFields
  <2>5. ASSUME answered, NEW n \in DOMAIN replies
        PROVE  << replies[n], "comment" >> \in marking'.completed
    BY <2>4, <2>5 DEF scan_remote_marker_completions
  <2>6. ASSUME NEW a \in actions, NEW b \in actions
        PROVE  Apart(a, b)
    BY <2>2 DEF validate_marker_actions_before_mutation, Apart, Key
  <2>7. (marking'.on /\ ~marking'.blind) => \A n \in DOMAIN replies : << replies[n], "comment" >> \in marking'.completed
    BY <2>4, <2>5
  <2> QED
    BY <1>1, <2>4, <2>6, <2>7 DEF MarkInv, Answered
<1>3. CASE outcome # "again"
  <2>1. marking' = Idle
    BY <1>3 DEF mark_begin
  <2> QED
    BY <1>1, <2>1 DEF MarkInv, MarkFields, Idle
<1> QED
  BY <1>1, <1>2, <1>3

\* handle_marker_comment: a reply is posted only for an action that this pass
\* has not answered, nor, as far as it knows, any other.
LEMMA MarkReplies ==
    ASSUME MarkInv, NEW outcome, handle_marker_comment(outcome)
    PROVE  MarkInv' /\ RepliesOnceStep
<1>1. PICK a : a = Current
  OBVIOUS
<1>2. /\ marking.on
      /\ a \in marking.todo
      /\ a \notin marking.replied
  BY <1>1 DEF handle_marker_comment, Current
<1> DEFINE replied == [marking EXCEPT !.replied = @ \cup {a}, !.keys = @ \cup {CompletionKey(a, "comment")}]
<1>3. \/ /\ replies' = replies
         /\ marking' = replied
      \/ /\ ~marker_comment_already_done(a)
         /\ a.kind # "skip_needs_user_judgment"
         /\ replies' = replies \/ replies' = Append(replies, Key(a))
         /\ marking' = Idle \/ marking' = replied
  <2> HIDE DEF Idle
  <2> QED
    BY <1>1 DEF handle_marker_comment, Key
<1>4. marking' = replied =>
        /\ DOMAIN marking' = DOMAIN marking
        /\ marking'.on = marking.on
        /\ marking'.todo = marking.todo
        /\ marking'.replied = marking.replied \cup {a}
        /\ marking'.completed = marking.completed
        /\ marking'.blind = marking.blind
  BY DEF MarkInv, MarkFields
<1> HIDE DEF replied
<1>5. marking' = Idle => DOMAIN marking' = DOMAIN marking /\ marking'.on = FALSE
  BY DEF MarkInv, MarkFields, Idle
<1>6. marking' = replied => \A b \in marking'.todo, c \in marking'.todo \cup marking'.replied : Apart(b, c)
  BY <1>2, <1>4 DEF MarkInv
<1>7. DOMAIN marking' = DOMAIN marking
  BY <1>3, <1>4, <1>5
<1>8. CASE replies' = replies
  <2>1. CASE marking' = replied
    <3>1. ~marking.blind => \A n \in DOMAIN replies : Answered(replies[n])'
      BY <1>2, <1>4, <1>8, <2>1 DEF MarkInv, Answered
    <3> QED
      BY <1>4, <1>6, <1>7, <1>8, <2>1, <3>1 DEF MarkInv, RepliesOnceStep
  <2>2. CASE marking' = Idle
    BY <1>5, <1>7, <1>8, <2>2 DEF MarkInv, RepliesOnceStep
  <2> QED
    BY <1>3, <2>1, <2>2
<1>9. CASE replies' # replies
  <2>1. /\ ~marker_comment_already_done(a)
        /\ a.kind # "skip_needs_user_judgment"
        /\ replies' = Append(replies, Key(a))
    BY <1>3, <1>9
  <2>2. /\ IsSeq(replies')
        /\ Len(replies) \in Nat
        /\ DOMAIN replies = 1 .. Len(replies)
        /\ DOMAIN replies' = 1 .. Len(replies) + 1
        /\ replies'[Len(replies) + 1] = Key(a)
        /\ \A n \in DOMAIN replies : replies'[n] = replies[n]
    BY <2>1, Appended DEF MarkInv
  <2>3. ASSUME NEW b \in marking.replied PROVE Key(b) # Key(a)
    <3>1. a # b /\ Apart(a, b)
      BY <1>2 DEF MarkInv
    <3>2. CASE b.kind = "skip_needs_user_judgment"
      BY <2>1, <3>2 DEF Key, pending_action_idempotency_key
    <3> QED
      BY <2>1, <3>1, <3>2 DEF Apart
  <2>4. ASSUME ~marking.blind, NEW n \in DOMAIN replies PROVE replies[n] # Key(a)
    <3>1. << Key(a), "comment" >> \notin marking.completed
      BY <2>1 DEF marker_comment_already_done, CompletionKey, Key
    <3> QED
      BY <1>2, <2>3, <2>4, <3>1 DEF MarkInv, Answered
  <2>5. RepliesOnceStep
    BY <2>2, <2>3, <2>4 DEF RepliesOnceStep
  <2>6. CASE marking' = replied
    <3>1. ASSUME ~marking.blind, NEW n \in DOMAIN replies' PROVE Answered(replies[n])'
      <4>1. CASE n \in DOMAIN replies
        BY <1>2, <1>4, <2>2, <2>6, <3>1, <4>1 DEF MarkInv, Answered
      <4>2. CASE n = Len(replies) + 1
        BY <1>4, <2>2, <2>6, <4>2 DEF Answered
      <4> QED
        BY <2>2, <4>1, <4>2
    <3> QED
      BY <1>4, <1>6, <1>7, <2>2, <2>5, <2>6, <3>1 DEF MarkInv
  <2>7. CASE marking' = Idle
    BY <1>5, <1>7, <2>2, <2>5, <2>7 DEF MarkInv
  <2> QED
    BY <1>3, <2>1, <2>6, <2>7
<1> QED
  BY <1>8, <1>9

\* apply_marker_resolution, write_marker_report: a pass drops the actions it
\* has dealt with, and forgets everything when it ends.
LEMMA MarkResolves ==
    ASSUME MarkInv, apply_marker_resolution
    PROVE  MarkInv' /\ replies' = replies
<1>1. /\ replies' = replies
      /\ \E a, ok : marking' = [marking EXCEPT
                     !.todo = @ \ {a},
                     !.partial = @ \/ ~ok \/ a.kind = "skip_needs_user_judgment",
                     !.keys = IF ok THEN @ \cup {CompletionKey(a, "resolution")} ELSE @,
                     !.done = @ \cup {[a EXCEPT !.status =
                                  IF ok /\ a.kind # "skip_needs_user_judgment"
                                  THEN "completed" ELSE "failed"]}]
  BY DEF apply_marker_resolution
<1>2. /\ DOMAIN marking' = DOMAIN marking
      /\ marking'.on = marking.on
      /\ marking'.todo \subseteq marking.todo
      /\ marking'.replied = marking.replied
      /\ marking'.completed = marking.completed
      /\ marking'.blind = marking.blind
  BY <1>1 DEF MarkInv, MarkFields
<1>3. \A n \in DOMAIN replies : Answered(replies[n]) => Answered(replies[n])'
  BY <1>1, <1>2 DEF Answered
<1> QED
  BY <1>1, <1>2, <1>3 DEF MarkInv

LEMMA MarkSteps ==
    ASSUME MarkInv, NEW outcome, mark_coderabbit_feedback(outcome)
    PROVE  MarkInv' /\ RepliesOnceStep
<1>1. CASE write_marker_report(outcome)
  <2>1. replies' = replies /\ marking' = Idle
    BY <1>1 DEF write_marker_report
  <2> QED
    BY <2>1 DEF MarkInv, MarkFields, Idle, RepliesOnceStep
<1>2. CASE mark_begin(outcome) \/ apply_marker_resolution
  <2>1. MarkInv' /\ replies' = replies
    BY <1>2, MarkBegins, MarkResolves
  <2> QED
    BY <2>1 DEF RepliesOnceStep
<1>3. CASE handle_marker_comment(outcome)
  BY <1>3, MarkReplies
<1> QED
  BY <1>1, <1>2, <1>3 DEF mark_coderabbit_feedback

\* Every step but the marking one leaves the replies alone, and leaves the
\* pass alone or loses it.
LEMMA OnlyMarkingReplies ==
    ASSUME [Next]_vars, ~mark_step
    PROVE  replies' = replies /\ (marking' = marking \/ marking' = Idle)
<1> USE DEF feedbackVars, reviewVars, loopVars, artifacts, work
<1> HIDE DEF Idle
<1>1. CASE CodeRabbit
  BY <1>1 DEF CodeRabbit, coderabbit_start, coderabbit_comment, coderabbit_finish
<1>2. CASE foreign_push
  BY <1>2 DEF foreign_push
<1>3. CASE capture_pr_identity \/ post_pr_iteration_guard \/ watch_pr_checks \/ poll_checks_wait
  BY <1>3 DEF capture_pr_identity, post_pr_iteration_guard, watch_pr_checks, poll_checks_wait
<1>4. CASE poll_review_wait \/ collect_ci_failures
  BY <1>4 DEF poll_review_wait, collect_ci_failures
<1>5. CASE collect_coderabbit_feedback
  BY <1>5 DEF collect_coderabbit_feedback, collect_query_threads, record_feedback_observation
<1>6. CASE evaluate_step
  BY <1>6 DEF evaluate_step, evaluate_coderabbit_feedback
<1>7. CASE build_remediation_plan \/ remediate_pr_followup
  BY <1>7 DEF build_remediation_plan, remediate_pr_followup
<1>8. CASE validate_remediation_result \/ run_post_pr_tests
  BY <1>8 DEF validate_remediation_result, run_post_pr_tests
<1>9. CASE push_remediation_changes
  BY <1>9 DEF push_remediation_changes
<1>10. CASE run_git_push \/ write_committed_head_push_result
  BY <1>10 DEF run_git_push, write_committed_head_push_result
<1>11. CASE \E n \in DOMAIN SafeSteps : rewind(n)
  BY <1>11 DEF rewind
<1>12. CASE UNCHANGED vars
  BY <1>12 DEF vars
<1> QED
  BY <1>1, <1>2, <1>3, <1>4, <1>5, <1>6, <1>7, <1>8, <1>9, <1>10, <1>11, <1>12 DEF Next

\* scan_remote_marker_completions, handle_marker_comment: a pass posts no reply
\* twice and repeats none of an earlier pass, whatever answers are lost,
\* wherever the process dies and however often the run is rewound, unless the
\* query for the comments of the threads failed.
THEOREM NoReplyTwice == Spec => RepliesOnce
<1>1. Init => MarkInv
  <2>1. << >> \in Seq({}) /\ DOMAIN << >> = {}
    OBVIOUS
  <2> SUFFICES ASSUME Init PROVE MarkInv
    OBVIOUS
  <2>2. replies = << >> /\ marking = Idle
    BY DEF Init
  <2>3. IsSeq(replies)
    BY <2>1, <2>2 DEF IsSeq
  <2>4. DOMAIN marking = MarkFields /\ marking.on = FALSE
    BY <2>2 DEF Idle, MarkFields
  <2> QED
    BY <2>1, <2>2, <2>3, <2>4 DEF MarkInv
<1>2. MarkInv /\ [Next]_vars => MarkInv' /\ RepliesOnceStep
  <2> SUFFICES ASSUME MarkInv, [Next]_vars PROVE MarkInv' /\ RepliesOnceStep
    OBVIOUS
  <2>1. CASE mark_step
    BY <2>1, MarkSteps DEF mark_step
  <2>2. CASE ~mark_step
    <3>1. replies' = replies /\ (marking' = marking \/ marking' = Idle)
      BY <2>2, OnlyMarkingReplies
    <3>2. RepliesOnceStep
      BY <3>1 DEF RepliesOnceStep
    <3>3. CASE marking' = marking
      BY <3>1, <3>2, <3>3 DEF MarkInv, Answered
    <3>4. CASE marking' = Idle
      BY <3>1, <3>2, <3>4 DEF MarkInv, MarkFields, Idle
    <3> QED
      BY <3>1, <3>3, <3>4
  <2> QED
    BY <2>1, <2>2
<1> QED
  BY <1>1, <1>2, PTL DEF Spec, RepliesOnce, RepliesOnceStep, Key

-----------------------------------------------------------------------------
(* The guard of the rounds.                                                  *)

\* The entries of the guard are numbered from 0 on, whatever heads they have.
GuardInv ==
    /\ IsSeq(guard)
    /\ \A n \in DOMAIN guard : guard[n].index = n - 1
    /\ rewinds \in Nat

\* Every other step leaves the guard alone, and none but an intervention moves
\* the run from the guard to the watch.
LEMMA OnlyGuardCounts ==
    ASSUME [Next]_vars, ~post_pr_iteration_guard
    PROVE  /\ guard' = guard
           /\ \/ rewinds' = rewinds
              \/ rewinds' = rewinds + 1
           /\ \/ pc # "post_pr_iteration_guard"
              \/ pc' = pc
              \/ rewinds' = rewinds + 1
<1> USE DEF feedbackVars, reviewVars, loopVars, artifacts
<1>1. CASE CodeRabbit /\ UNCHANGED loopVars
  BY <1>1
<1>2. CASE foreign_push
  BY <1>2 DEF foreign_push
<1>3. CASE capture_pr_identity \/ watch_pr_checks \/ poll_checks_wait
  BY <1>3 DEF capture_pr_identity, watch_pr_checks, poll_checks_wait
<1>4. CASE poll_review_wait \/ collect_ci_failures
  BY <1>4 DEF poll_review_wait, collect_ci_failures
<1>5. CASE collect_coderabbit_feedback \/ evaluate_step
  BY <1>5 DEF collect_coderabbit_feedback, evaluate_step
<1>6. CASE build_remediation_plan \/ remediate_pr_followup
  BY <1>6 DEF build_remediation_plan, remediate_pr_followup
<1>7. CASE validate_remediation_result \/ run_post_pr_tests
  BY <1>7 DEF validate_remediation_result, run_post_pr_tests
<1>8. CASE push_remediation_changes
  BY <1>8 DEF push_remediation_changes
<1>9. CASE run_git_push \/ write_committed_head_push_result
  BY <1>9 DEF run_git_push, write_committed_head_push_result
<1>10. CASE mark_step
  BY <1>10 DEF mark_step
<1>11. CASE \E n \in DOMAIN SafeSteps : rewind(n)
  BY <1>11 DEF rewind
<1>12. CASE UNCHANGED vars
  BY <1>12 DEF vars
<1> QED
  BY <1>1, <1>2, <1>3, <1>4, <1>5, <1>6, <1>7, <1>8, <1>9, <1>10, <1>11, <1>12 DEF Next

\* post_pr_iteration_guard: the step keeps its entry for a head it has counted
\* and adds one with the next number otherwise; the last entry has the index
\* the budget is judged by.
LEMMA GuardSteps ==
    ASSUME GuardInv, post_pr_iteration_guard
    PROVE  /\ GuardInv'
           /\ guard' # << >>
           /\ Len(guard') \in Nat
           /\ DOMAIN guard' = 1 .. Len(guard')
           /\ iteration_index = Len(guard') - 1
<1>1. PICK entry : entry = [head |-> bind, index |-> iteration_index,
                            review |-> review_iteration_index(iteration_index)]
  OBVIOUS
<1>2. entry.index = iteration_index
  BY <1>1
<1>3. /\ IsSeq(Append(guard, entry))
      /\ Len(guard) \in Nat
      /\ DOMAIN guard = 1 .. Len(guard)
      /\ DOMAIN Append(guard, entry) = 1 .. Len(guard) + 1
      /\ Len(Append(guard, entry)) = Len(guard) + 1
      /\ Append(guard, entry)[Len(guard) + 1] = entry
      /\ \A n \in DOMAIN guard : Append(guard, entry)[n] = guard[n]
  BY Appended DEF GuardInv
<1>4. guard = << >> <=> Len(guard) = 0
  <2>1. PICK S : guard \in Seq(S)
    BY DEF GuardInv, IsSeq
  <2> QED
    BY <2>1
<1>5. guard # << >> =>
         /\ Len(guard) \in DOMAIN guard
         /\ latest_guard_for_current_run = guard[Len(guard)]
         /\ latest_guard_for_current_run.index = Len(guard) - 1
  BY <1>3, <1>4 DEF GuardInv, latest_guard_for_current_run, Last
<1>6. rewinds' = rewinds
  BY DEF post_pr_iteration_guard
<1>7. CASE guard # << >> /\ latest_guard_for_current_run.head = bind
  <2>1. iteration_index = Len(guard) - 1
    BY <1>5, <1>7 DEF iteration_index
  <2>2. guard' = guard
    BY <1>5, <1>7, <2>1 DEF post_pr_iteration_guard
  <2> QED
    BY <1>3, <1>6, <1>7, <2>1, <2>2 DEF GuardInv
<1>8. CASE guard = << >> \/ latest_guard_for_current_run.head # bind
  <2>1. iteration_index = Len(guard)
    BY <1>3, <1>4, <1>5, <1>8 DEF iteration_index
  <2>2. guard' = Append(guard, entry)
    BY <1>1, <1>8 DEF post_pr_iteration_guard
  <2>3. ASSUME NEW n \in 1 .. Len(guard) + 1
        PROVE  guard'[n].index = n - 1
    <3>1. n \in DOMAIN guard \/ n = Len(guard) + 1
      BY <1>3
    <3> QED
      BY <1>2, <1>3, <2>1, <2>2, <3>1 DEF GuardInv
  <2>4. Len(guard') = Len(guard) + 1 /\ DOMAIN guard' = 1 .. Len(guard')
    BY <1>3, <2>2
  <2>5. guard' # << >>
    BY <1>3, <2>4
  <2> QED
    BY <1>3, <1>6, <2>1, <2>2, <2>3, <2>4, <2>5 DEF GuardInv
<1> QED
  BY <1>7, <1>8

GuardBudgetStep ==
    pc = "post_pr_iteration_guard" /\ pc' = "watch_pr_checks" /\ rewinds' = rewinds
       => Cardinality({n \in DOMAIN guard' : guard'[n].head # guard'[1].head})
              <= max_post_pr_remediation_iterations

\* latest_guard_for_current_run, RemediationBudget: whenever the guard lets the
\* run go on, its whole history holds at most max_post_pr_remediation_iterations
\* heads after the first, for every budget, any number of pushes, crashes and
\* rewinds.
THEOREM RoundsWithinBudget ==
    ASSUME max_post_pr_remediation_iterations \in Nat
    PROVE  Spec => GuardBudget
<1>1. Init => GuardInv
  <2> SUFFICES ASSUME Init PROVE GuardInv
    OBVIOUS
  <2>1. << >> \in Seq({}) /\ DOMAIN << >> = {}
    OBVIOUS
  <2>2. guard = << >> /\ rewinds = 0
    BY DEF Init
  <2>3. IsSeq(guard)
    BY <2>1, <2>2 DEF IsSeq
  <2> QED
    BY <2>1, <2>2, <2>3 DEF GuardInv
<1>2. GuardInv /\ [Next]_vars => GuardInv'
  <2> SUFFICES ASSUME GuardInv, [Next]_vars PROVE GuardInv'
    OBVIOUS
  <2>1. CASE post_pr_iteration_guard
    BY <2>1, GuardSteps
  <2>2. CASE ~post_pr_iteration_guard
    BY <2>2, OnlyGuardCounts DEF GuardInv
  <2> QED
    BY <2>1, <2>2
<1>3. GuardInv /\ [Next]_vars => GuardBudgetStep
  <2> SUFFICES ASSUME GuardInv, [Next]_vars,
                      pc = "post_pr_iteration_guard", pc' = "watch_pr_checks", rewinds' = rewinds
               PROVE  Cardinality({n \in DOMAIN guard' : guard'[n].head # guard'[1].head})
                          <= max_post_pr_remediation_iterations
    BY DEF GuardBudgetStep
  <2>1. post_pr_iteration_guard
    BY OnlyGuardCounts DEF GuardInv
  <2>2. PICK L : L = Len(guard')
    OBVIOUS
  <2>3. /\ L \in Nat /\ L # 0
        /\ DOMAIN guard' = 1 .. L
        /\ iteration_index = L - 1
    <3>1. IsSeq(guard') /\ guard' # << >>
      BY <2>1, GuardSteps DEF GuardInv
    <3>2. PICK S : guard' \in Seq(S)
      BY <3>1 DEF IsSeq
    <3> QED
      BY <2>1, <2>2, <3>1, <3>2, GuardSteps
  <2>4. ~RemediationBudget(iteration_index)
    BY <2>1 DEF post_pr_iteration_guard, goto
  <2>5. L - 1 <= max_post_pr_remediation_iterations
    BY <2>3, <2>4 DEF RemediationBudget
  <2>6. {n \in DOMAIN guard' : guard'[n].head # guard'[1].head} \subseteq 2 .. L
    BY <2>3
  <2>7. /\ IsFiniteSet(2 .. L)
        /\ Cardinality(2 .. L) = L - 1
    <3>1. 2 \in Int /\ L \in Int
      BY <2>3
    <3> QED
      BY <2>3, <3>1, FS_Interval
  <2>8. /\ Cardinality({n \in DOMAIN guard' : guard'[n].head # guard'[1].head}) <= Cardinality(2 .. L)
        /\ Cardinality({n \in DOMAIN guard' : guard'[n].head # guard'[1].head}) \in Nat
    BY <2>6, <2>7, FS_Subset, FS_CardinalityType
  <2> QED
    BY <2>3, <2>5, <2>7, <2>8
<1> QED
  BY <1>1, <1>2, <1>3, PTL DEF Spec, GuardBudget, GuardBudgetStep

-----------------------------------------------------------------------------
(* Completeness of the feedback that is recorded as ready.                   *)

\* CodeRabbit posts no more threads for this head: it has finished the review,
\* or has gone on to a newer head.
Settled(head, review) == review = [head |-> head, state |-> "ready"] \/ review.head > head

Open(head) == {i \in Items : threads[i].state = "open" /\ threads[i].head = head}

\* Heads grow: what the work directory has is the newest of the run's own
\* commits, CodeRabbit follows the remote head, and has finished no head that
\* it is still at work on.
HeadsInv ==
    /\ made \in Nat /\ local \in Nat /\ remote \in Nat /\ bind \in Nat
    /\ local \in ours /\ local <= made /\ remote <= made /\ bind <= remote
    /\ ours \subseteq Nat /\ \A h \in ours : h <= local
    /\ coderabbit \in [head : Nat, state : {"in_progress", "ready"}] /\ coderabbit.head <= remote
    /\ reviewed \subseteq Nat /\ \A h \in reviewed : h <= coderabbit.head
    /\ coderabbit.state = "in_progress" => coderabbit.head \notin reviewed

ObsFields == {"asked", "n", "stable", "seen", "prev", "finished", "required"}

\* The hash of the last ready observation tells which review it saw.
Observed(hash) == \E items, says, review : hash = << items, says, review >>
HashReview(hash) == hash[3]

\* A collection keeps to its head.  When the review was settled as the threads
\* were asked for, or when the last ready observation saw it settled, so it
\* has stayed, and the threads asked for since then are all there are.
ObsInv ==
    /\ obs # NoObservation(obs.required) => pc = "collect_coderabbit_feedback"
    /\ DOMAIN obs = ObsFields /\ obs.stable \in Nat /\ obs.required \in RequiredStable
    /\ obs.asked /\ obs.finished => Settled(bind, coderabbit) /\ Open(bind) \subseteq obs.seen
    /\ obs.stable > 0 => Observed(obs.prev)
    /\ obs.stable > 0 /\ Settled(bind, HashReview(obs.prev))
          => Settled(bind, coderabbit) /\ (obs.asked => Open(bind) \subseteq obs.seen)

\* A commit is newer than all others.
Commits == /\ local \in Nat /\ made \in Nat /\ local <= made
           /\ local \in ours /\ ours \subseteq Nat
           /\ \A h \in ours : h <= local

LEMMA CommitsGrow ==
    ASSUME HeadsInv,
           \/ UNCHANGED << local, ours, made >>
           \/ made' = made + 1 /\ local' = made + 1 /\ ours' = ours \cup {made + 1}
    PROVE  Commits' /\ made <= made'
<1>1. Commits
  BY DEF HeadsInv, Commits
<1>2. CASE UNCHANGED << local, ours, made >>
  BY <1>1, <1>2 DEF Commits
<1>3. CASE made' = made + 1 /\ local' = made + 1 /\ ours' = ours \cup {made + 1}
  <2>1. local' \in Nat /\ made' \in Nat /\ local' <= made' /\ made <= made' /\ local' \in ours'
    BY <1>1, <1>3 DEF Commits
  <2>2. ASSUME NEW h \in ours' PROVE h \in Nat /\ h <= local'
    <3>1. CASE h \in ours
      <4>1. h \in Nat /\ h <= local
        BY <1>1, <3>1 DEF Commits
      <4> QED
        BY <1>1, <1>3, <4>1 DEF Commits
    <3>2. CASE h = made + 1
      BY <1>1, <1>3, <3>2 DEF Commits
    <3> QED
      BY <1>3, <2>2, <3>1, <3>2
  <2> QED
    BY <2>1, <2>2 DEF Commits
<1> QED
  BY <1>2, <1>3

\* The four steps that move heads.
LEMMA HeadsMove ==
    ASSUME HeadsInv,
           \/ CodeRabbit /\ UNCHANGED loopVars
           \/ foreign_push
           \/ remediate_pr_followup
           \/ run_git_push
    PROVE  HeadsInv'
<1> USE DEF feedbackVars, reviewVars, loopVars, artifacts, work
<1>1. CASE coderabbit_start /\ UNCHANGED loopVars
  <2>1. /\ coderabbit.head < remote
        /\ coderabbit' = [head |-> remote, state |-> "in_progress"]
    BY <1>1 DEF HeadsInv, coderabbit_start
  <2>2. \A h \in reviewed : h \in Nat /\ h <= coderabbit.head
    BY DEF HeadsInv
  <2>3. \A h \in reviewed : h <= remote /\ h # remote
    BY <2>1, <2>2 DEF HeadsInv
  <2> QED
    BY <1>1, <2>1, <2>3 DEF HeadsInv, coderabbit_start
<1>2. CASE (\E i \in Items : coderabbit_comment(i)) /\ UNCHANGED loopVars
  BY <1>2 DEF HeadsInv, coderabbit_comment
<1>3. CASE coderabbit_finish /\ UNCHANGED loopVars
  <2>1. /\ coderabbit' \in [head : Nat, state : {"in_progress", "ready"}]
        /\ coderabbit'.head = coderabbit.head
        /\ coderabbit'.state = "ready"
    BY <1>3 DEF HeadsInv, coderabbit_finish
  <2> QED
    BY <1>3, <2>1 DEF HeadsInv, coderabbit_finish
<1>4. CASE foreign_push
  BY <1>4 DEF HeadsInv, foreign_push
<1>5. CASE remediate_pr_followup
  <2>1. \/ UNCHANGED << local, ours, made >>
        \/ made' = made + 1 /\ local' = made + 1 /\ ours' = ours \cup {made + 1}
    <3>1. ours = ours \cup {local}
      BY DEF HeadsInv
    <3> QED
      BY <1>5, <3>1 DEF remediate_pr_followup
  <2>2. UNCHANGED << remote, bind, coderabbit, reviewed >>
    BY <1>5 DEF remediate_pr_followup
  <2>3. Commits' /\ made <= made'
    BY <2>1, CommitsGrow
  <2> QED
    BY <2>2, <2>3 DEF HeadsInv, Commits
<1>6. CASE run_git_push
  <2>1. \/ remote' = remote
        \/ remote \in ours /\ remote' = local
    BY <1>6 DEF run_git_push
  <2>2. UNCHANGED << bind, coderabbit, reviewed, local, made, ours >>
    BY <1>6 DEF run_git_push
  <2>3. remote' \in Nat /\ remote <= remote' /\ remote' <= made
    BY <2>1 DEF HeadsInv
  <2> QED
    BY <2>2, <2>3 DEF HeadsInv
<1> QED
  BY <1>1, <1>2, <1>3, <1>4, <1>5, <1>6 DEF CodeRabbit

\* Every other step leaves them where they are, except that the push step may
\* commit and that a binding is the remote head.
LEMMA HeadsStay ==
    ASSUME [Next]_vars, ~(CodeRabbit /\ UNCHANGED loopVars), ~foreign_push, ~remediate_pr_followup, ~run_git_push
    PROVE  /\ UNCHANGED << remote, coderabbit, reviewed >>
           /\ bind' = bind \/ bind' = remote
           /\ \/ UNCHANGED << local, ours, made >>
              \/ made' = made + 1 /\ local' = made + 1 /\ ours' = ours \cup {made + 1}
<1> USE DEF feedbackVars, reviewVars, loopVars, artifacts, work
<1>1. CASE capture_pr_identity \/ post_pr_iteration_guard \/ watch_pr_checks \/ poll_checks_wait
  BY <1>1 DEF capture_pr_identity, post_pr_iteration_guard, watch_pr_checks, poll_checks_wait
<1>2. CASE poll_review_wait \/ collect_ci_failures
  BY <1>2 DEF poll_review_wait, collect_ci_failures
<1>3. CASE collect_coderabbit_feedback
  BY <1>3 DEF collect_coderabbit_feedback, collect_query_threads, record_feedback_observation
<1>4. CASE evaluate_step
  BY <1>4 DEF evaluate_step, evaluate_coderabbit_feedback
<1>5. CASE build_remediation_plan \/ write_committed_head_push_result
  BY <1>5 DEF build_remediation_plan, write_committed_head_push_result
<1>6. CASE validate_remediation_result \/ run_post_pr_tests
  BY <1>6 DEF validate_remediation_result, run_post_pr_tests
<1>7. CASE push_remediation_changes
  BY <1>7 DEF push_remediation_changes, write_no_change_push_result, push_existing_local_head,
              commit_remediation_changes
<1>8. CASE mark_step
  BY <1>8 DEF mark_step, mark_coderabbit_feedback, mark_begin, handle_marker_comment,
              apply_marker_resolution, write_marker_report
<1>9. CASE \E n \in DOMAIN SafeSteps : rewind(n)
  BY <1>9 DEF rewind
<1>10. CASE UNCHANGED vars
  BY <1>10 DEF vars
<1> QED
  BY <1>1, <1>2, <1>3, <1>4, <1>5, <1>6, <1>7, <1>8, <1>9, <1>10 DEF Next

LEMMA HeadsSteps == HeadsInv /\ [Next]_vars => HeadsInv'
<1> SUFFICES ASSUME HeadsInv, [Next]_vars PROVE HeadsInv'
  OBVIOUS
<1>1. CASE (CodeRabbit /\ UNCHANGED loopVars) \/ foreign_push \/ remediate_pr_followup \/ run_git_push
  BY <1>1, HeadsMove
<1>2. CASE ~((CodeRabbit /\ UNCHANGED loopVars) \/ foreign_push \/ remediate_pr_followup \/ run_git_push)
  <2>1. /\ UNCHANGED << remote, coderabbit, reviewed >>
        /\ bind' = bind \/ bind' = remote
        /\ \/ UNCHANGED << local, ours, made >>
           \/ made' = made + 1 /\ local' = made + 1 /\ ours' = ours \cup {made + 1}
    BY <1>2, HeadsStay
  <2>2. Commits' /\ made <= made'
    BY <2>1, CommitsGrow
  <2> QED
    BY <2>1, <2>2 DEF HeadsInv, Commits
<1> QED
  BY <1>1, <1>2

\* A thread is on some head, whatever happens to it.
Thread == [state : {"absent", "open", "resolved"}, head : Nat]
ThreadsInv == threads \in [Items -> Thread]

LEMMA ThreadsSteps == HeadsInv /\ ThreadsInv /\ [Next]_vars => ThreadsInv'
<1> SUFFICES ASSUME HeadsInv, ThreadsInv, [Next]_vars PROVE ThreadsInv'
  OBVIOUS
<1> USE DEF feedbackVars, reviewVars, loopVars, artifacts, work
<1>1. CASE threads' = threads
  BY <1>1 DEF ThreadsInv
<1>2. ASSUME NEW i \in Items, coderabbit_comment(i) PROVE ThreadsInv'
  <2>1. [state |-> "open", head |-> coderabbit.head] \in Thread
    BY DEF Thread, HeadsInv
  <2> QED
    BY <1>2, <2>1 DEF coderabbit_comment, ThreadsInv
<1>3. ASSUME NEW head \in Nat, threads' \in reanchored(head) PROVE ThreadsInv'
  <2>1. PICK moved \in SUBSET {i \in Items : threads[i].state = "open"} :
           threads' = [i \in Items |-> IF i \in moved THEN [threads[i] EXCEPT !.head = head] ELSE threads[i]]
    BY <1>3 DEF reanchored
  <2>2. ASSUME NEW i \in Items PROVE [threads[i] EXCEPT !.head = head] \in Thread
    BY DEF ThreadsInv, Thread
  <2> QED
    BY <2>1, <2>2 DEF ThreadsInv
<1>4. CASE apply_marker_resolution
  <2>1. \/ threads' = threads
        \/ \E x : threads' = [threads EXCEPT ![x].state = "resolved"]
    BY <1>4 DEF apply_marker_resolution
  <2>2. ASSUME NEW x, threads' = [threads EXCEPT ![x].state = "resolved"] PROVE ThreadsInv'
    <3>1. ASSUME x \in Items PROVE [threads[x] EXCEPT !.state = "resolved"] \in Thread
      BY <3>1 DEF ThreadsInv, Thread
    <3> QED
      BY <2>2, <3>1 DEF ThreadsInv
  <2> QED
    BY <1>1, <2>1, <2>2
<1>5. CASE CodeRabbit
  BY <1>1, <1>2, <1>5 DEF CodeRabbit, coderabbit_start, coderabbit_finish
<1>6. CASE foreign_push
  BY <1>3, <1>6 DEF foreign_push, HeadsInv
<1>7. CASE capture_pr_identity \/ post_pr_iteration_guard \/ watch_pr_checks \/ poll_checks_wait
  BY <1>1, <1>7 DEF capture_pr_identity, post_pr_iteration_guard, watch_pr_checks, poll_checks_wait
<1>8. CASE poll_review_wait \/ collect_ci_failures
  BY <1>1, <1>8 DEF poll_review_wait, collect_ci_failures
<1>9. CASE collect_coderabbit_feedback
  BY <1>1, <1>9 DEF collect_coderabbit_feedback, collect_query_threads, record_feedback_observation
<1>10. CASE evaluate_step
  BY <1>1, <1>10 DEF evaluate_step, evaluate_coderabbit_feedback
<1>11. CASE build_remediation_plan \/ remediate_pr_followup \/ validate_remediation_result
  BY <1>1, <1>11 DEF build_remediation_plan, remediate_pr_followup, validate_remediation_result
<1>12. CASE run_post_pr_tests \/ push_remediation_changes \/ write_committed_head_push_result
  BY <1>1, <1>12 DEF run_post_pr_tests, push_remediation_changes, write_committed_head_push_result
<1>13. CASE run_git_push
  BY <1>1, <1>3, <1>13 DEF run_git_push, HeadsInv
<1>14. CASE mark_step
  <2>1. ASSUME NEW outcome, mark_coderabbit_feedback(outcome), ~apply_marker_resolution
        PROVE  threads' = threads
    BY <2>1 DEF mark_coderabbit_feedback, mark_begin, handle_marker_comment, write_marker_report
  <2> QED
    BY <1>1, <1>4, <1>14, <2>1 DEF mark_step
<1>15. CASE \E n \in DOMAIN SafeSteps : rewind(n)
  BY <1>1, <1>15 DEF rewind
<1>16. CASE UNCHANGED vars
  BY <1>1, <1>16 DEF vars
<1> QED
  BY <1>5, <1>6, <1>7, <1>8, <1>9, <1>10, <1>11, <1>12, <1>13, <1>14, <1>15, <1>16 DEF Next

\* CodeRabbit moves: a settled review stays settled, and a settled head gets
\* no more threads.
LEMMA CodeRabbitSettles ==
    ASSUME HeadsInv, CodeRabbit, Settled(bind, coderabbit)
    PROVE  Settled(bind, coderabbit') /\ Open(bind)' = Open(bind)
<1>0. bind \in Nat /\ bind' = bind
  BY DEF HeadsInv, CodeRabbit, coderabbit_start, coderabbit_comment, coderabbit_finish
<1>1. CASE coderabbit_start
  <2>1. coderabbit.head < remote /\ coderabbit'.head = remote /\ threads' = threads
    BY <1>1 DEF HeadsInv, coderabbit_start
  <2>2. bind <= coderabbit.head
    BY <1>0 DEF Settled, HeadsInv
  <2>3. coderabbit'.head > bind
    BY <1>0, <2>1, <2>2 DEF HeadsInv
  <2> QED
    BY <1>0, <2>1, <2>3 DEF Settled, Open
<1>2. ASSUME NEW i \in Items, coderabbit_comment(i)
      PROVE  Settled(bind, coderabbit') /\ Open(bind)' = Open(bind)
  <2>1. /\ coderabbit' = coderabbit
        /\ coderabbit.state = "in_progress"
        /\ threads[i].state = "absent"
        /\ threads' = [threads EXCEPT ![i] = [state |-> "open", head |-> coderabbit.head]]
    BY <1>2 DEF coderabbit_comment
  <2>2. coderabbit.head > bind
    BY <2>1 DEF Settled
  <2>3. coderabbit.head # bind
    BY <1>0, <2>2 DEF HeadsInv
  <2>4. \A j \in Items : j # i => threads'[j] = threads[j]
    BY <2>1
  <2>5. threads'[i] = threads[i] \/ threads'[i] = [state |-> "open", head |-> coderabbit.head]
    BY <2>1
  <2>6. ASSUME NEW j \in Items
        PROVE  (threads'[j].state = "open" /\ threads'[j].head = bind)
                  <=> (threads[j].state = "open" /\ threads[j].head = bind)
    <3>1. CASE j = i
      BY <2>1, <2>3, <2>5, <3>1
    <3>2. CASE j # i
      BY <2>4, <3>2
    <3> QED
      BY <3>1, <3>2
  <2> QED
    BY <1>0, <2>1, <2>2, <2>6 DEF Settled, Open
<1>3. CASE coderabbit_finish
  <2>1. /\ coderabbit'.head = coderabbit.head
        /\ coderabbit.state = "in_progress"
        /\ threads' = threads
    BY <1>3 DEF HeadsInv, coderabbit_finish
  <2>2. coderabbit.head > bind
    BY <2>1 DEF Settled
  <2> QED
    BY <1>0, <2>1, <2>2 DEF Settled, Open
<1> QED
  BY <1>1, <1>2, <1>3 DEF CodeRabbit

\* foreign_push: a re-anchored thread leaves its head for the new one.
LEMMA PushSettles ==
    ASSUME HeadsInv, ThreadsInv, foreign_push
    PROVE  bind' = bind /\ coderabbit' = coderabbit /\ Open(bind)' \subseteq Open(bind)
<1>1. bind' = bind /\ coderabbit' = coderabbit /\ threads' \in reanchored(made + 1)
  BY DEF foreign_push
<1>2. made + 1 # bind
  BY DEF HeadsInv
<1>3. PICK moved \in SUBSET {i \in Items : threads[i].state = "open"} :
         threads' = [i \in Items |-> IF i \in moved THEN [threads[i] EXCEPT !.head = made + 1] ELSE threads[i]]
  BY <1>1 DEF reanchored
<1>4. ASSUME NEW i \in Items, threads'[i].state = "open", threads'[i].head = bind
      PROVE  threads[i].state = "open" /\ threads[i].head = bind
  <2>1. CASE i \notin moved
    BY <1>3, <1>4, <2>1
  <2>2. CASE i \in moved
    <3>1. threads'[i] = [threads[i] EXCEPT !.head = made + 1] /\ threads[i].state = "open"
      BY <1>3, <2>2
    <3>2. threads'[i].head = made + 1
      BY <3>1 DEF ThreadsInv, Thread
    <3> QED
      BY <1>2, <1>4, <3>2
  <2> QED
    BY <2>1, <2>2
<1> QED
  BY <1>1, <1>4 DEF Open

\* record_feedback_observation: only a ready observation is remembered, with
\* the review it saw.
LEMMA Recorded ==
    ASSUME ObsInv, NEW outcome, record_feedback_observation(outcome)
    PROVE  /\ bind' = bind /\ coderabbit' = coderabbit /\ threads' = threads
           /\ \/ obs' = NoObservation(obs.required)
              \/ /\ DOMAIN obs' = ObsFields
                 /\ obs'.stable \in Nat
                 /\ obs'.required = obs.required
                 /\ obs'.asked = FALSE
                 /\ obs'.stable > 0 =>
                       obs'.prev = << obs.seen, summary, coderabbit >>
                 /\ outcome = "again"
<1>1. PICK ready : ready = (ready_signal /\ ~in_progress_signal)
  OBVIOUS
<1>2. PICK hash : hash = readiness_stability_hash(obs.seen)
  OBVIOUS
<1>3. PICK stable : stable = next_stable_count(obs.prev, hash, ready, obs.stable)
  OBVIOUS
<1>4. stable \in Nat /\ (stable > 0 => ready)
  BY <1>3 DEF next_stable_count, ObsInv
<1>5. obs' = IF outcome = "again"
             THEN [NoObservation(obs.required) EXCEPT
                      !.n = obs.n + 1, !.stable = stable, !.prev = IF ready THEN hash ELSE <<>>]
             ELSE NoObservation(obs.required)
  BY <1>1, <1>2, <1>3 DEF record_feedback_observation
<1>6. hash = << obs.seen, summary, coderabbit >>
  BY <1>2 DEF readiness_stability_hash
<1>7. bind' = bind /\ coderabbit' = coderabbit /\ threads' = threads
  BY DEF record_feedback_observation
<1>8. CASE outcome = "again"
  <2>1. /\ DOMAIN obs' = ObsFields
        /\ obs'.stable = stable
        /\ obs'.required = obs.required
        /\ obs'.asked = FALSE
        /\ ready => obs'.prev = hash
    BY <1>5, <1>8 DEF NoObservation, ObsFields
  <2> QED
    BY <1>4, <1>6, <1>7, <1>8, <2>1
<1> QED
  BY <1>5, <1>7, <1>8

\* Every step but those of CodeRabbit, of other pushers and of the collection
\* itself keeps the observation or drops it, and while a collection is under
\* way only drops it.
LEMMA OnlyCollectionObserves ==
    ASSUME [Next]_vars, ~(CodeRabbit /\ UNCHANGED loopVars), ~foreign_push, ~collect_coderabbit_feedback
    PROVE  /\ obs' = obs \/ obs' = NoObservation(obs.required)
           /\ pc = "collect_coderabbit_feedback" => obs' = NoObservation(obs.required) \/ UNCHANGED vars
<1> USE DEF feedbackVars, reviewVars, loopVars, artifacts, work
<1> HIDE DEF NoObservation
<1>1. CASE capture_pr_identity \/ post_pr_iteration_guard \/ watch_pr_checks \/ poll_checks_wait
  BY <1>1 DEF capture_pr_identity, post_pr_iteration_guard, watch_pr_checks, poll_checks_wait
<1>2. CASE poll_review_wait \/ collect_ci_failures
  BY <1>2 DEF poll_review_wait, collect_ci_failures
<1>3. CASE evaluate_step
  BY <1>3 DEF evaluate_step, evaluate_coderabbit_feedback
<1>4. CASE build_remediation_plan \/ remediate_pr_followup
  BY <1>4 DEF build_remediation_plan, remediate_pr_followup
<1>5. CASE validate_remediation_result \/ run_post_pr_tests
  BY <1>5 DEF validate_remediation_result, run_post_pr_tests
<1>6. CASE push_remediation_changes
  BY <1>6 DEF push_remediation_changes
<1>7. CASE run_git_push \/ write_committed_head_push_result
  BY <1>7 DEF run_git_push, write_committed_head_push_result
<1>8. CASE mark_step
  BY <1>8 DEF mark_step, mark_coderabbit_feedback, mark_begin, handle_marker_comment,
              apply_marker_resolution, write_marker_report
<1>9. CASE \E n \in DOMAIN SafeSteps : rewind(n)
  BY <1>9 DEF rewind
<1>10. CASE UNCHANGED vars
  BY <1>10 DEF vars
<1> QED
  BY <1>1, <1>2, <1>3, <1>4, <1>5, <1>6, <1>7, <1>8, <1>9, <1>10 DEF Next

LEMMA NothingObserved == ObsInv /\ obs' = NoObservation(obs.required) => ObsInv'
<1> SUFFICES ASSUME ObsInv, obs' = NoObservation(obs.required) PROVE ObsInv'
  OBVIOUS
<1>1. /\ DOMAIN obs' = ObsFields
      /\ obs'.stable = 0 /\ obs'.asked = FALSE
      /\ obs'.required = obs.required
  BY DEF NoObservation, ObsFields
<1>2. obs' = NoObservation(obs'.required)
  BY <1>1
<1> QED
  BY <1>1, <1>2 DEF ObsInv

\* A head whose review has been finished is settled.
LEMMA ReviewedIsSettled ==
    ASSUME HeadsInv, bind \in reviewed
    PROVE  Settled(bind, coderabbit)
<1>1. bind \in Nat /\ bind <= coderabbit.head
  BY DEF HeadsInv
<1>2. CASE coderabbit.head = bind
  <2>1. coderabbit.state = "ready"
    BY <1>2 DEF HeadsInv
  <2>2. coderabbit = [head |-> bind, state |-> "ready"]
    BY <1>2, <2>1 DEF HeadsInv
  <2> QED
    BY <2>2 DEF Settled
<1>3. CASE coderabbit.head # bind
  BY <1>1, <1>3 DEF Settled, HeadsInv
<1> QED
  BY <1>2, <1>3

LEMMA ObsSteps == HeadsInv /\ ThreadsInv /\ ObsInv /\ [Next]_vars => ObsInv'
<1> SUFFICES ASSUME HeadsInv, ThreadsInv, ObsInv, [Next]_vars PROVE ObsInv'
  OBVIOUS
<1>1. CASE CodeRabbit /\ UNCHANGED loopVars
  <2>1. obs' = obs /\ bind' = bind /\ pc' = pc
    BY <1>1 DEF CodeRabbit, coderabbit_start, coderabbit_comment, coderabbit_finish, loopVars
  <2>2. Settled(bind, coderabbit) => Settled(bind, coderabbit') /\ Open(bind)' = Open(bind)
    BY <1>1, CodeRabbitSettles
  <2> QED
    BY <2>1, <2>2 DEF ObsInv, Open
<1>2. CASE foreign_push
  <2>1. obs' = obs /\ pc' = pc
    BY <1>2 DEF foreign_push
  <2>2. bind' = bind /\ coderabbit' = coderabbit /\ Open(bind)' \subseteq Open(bind)
    BY <1>2, PushSettles
  <2> QED
    BY <2>1, <2>2 DEF ObsInv
<1>3. CASE collect_coderabbit_feedback
  <2>1. CASE collect_query_threads /\ goto(pc)
    <3>1. /\ bind' = bind /\ coderabbit' = coderabbit /\ threads' = threads /\ pc' = pc
          /\ obs' = [obs EXCEPT !.asked = TRUE, !.seen = observe_threads, !.finished = bind \in reviewed]
          /\ pc = "collect_coderabbit_feedback"
      BY <1>3, <2>1 DEF collect_query_threads, goto, collect_coderabbit_feedback
    <3>2. /\ DOMAIN obs' = DOMAIN obs
          /\ obs'.stable = obs.stable /\ obs'.prev = obs.prev /\ obs'.required = obs.required
          /\ obs'.seen = observe_threads
          /\ obs'.finished => bind \in reviewed
      BY <3>1 DEF ObsInv, ObsFields
    <3>4. bind \in reviewed => Settled(bind, coderabbit)
      BY ReviewedIsSettled
    <3>3. Open(bind)' = observe_threads
      BY <3>1 DEF Open, observe_threads, normalize_graphql_thread
    <3> QED
      BY <3>1, <3>2, <3>3, <3>4 DEF ObsInv
  <2>2. ASSUME NEW outcome \in {"success", "wait", "again"},
               record_feedback_observation(outcome),
               outcome = "again" => pc' = pc
        PROVE  ObsInv'
    <3>1. CASE obs' = NoObservation(obs.required)
      BY <3>1, NothingObserved
    <3>2. CASE obs' # NoObservation(obs.required)
      <4>1. /\ bind' = bind /\ coderabbit' = coderabbit
            /\ DOMAIN obs' = ObsFields
            /\ obs'.stable \in Nat
            /\ obs'.required = obs.required
            /\ obs'.asked = FALSE
            /\ obs'.stable > 0 => obs'.prev = << obs.seen, summary, coderabbit >>
            /\ outcome = "again"
        BY <2>2, <3>2, Recorded
      <4>2. pc' = "collect_coderabbit_feedback"
        BY <1>3, <2>2, <4>1 DEF collect_coderabbit_feedback
      <4>3. obs'.stable > 0 => Observed(obs'.prev) /\ HashReview(obs'.prev) = coderabbit
        BY <4>1 DEF Observed, HashReview
      <4> QED
        BY <4>1, <4>2, <4>3 DEF ObsInv
    <3> QED
      BY <3>1, <3>2
  <2>3. \/ collect_query_threads /\ goto(pc)
        \/ \E outcome \in {"success", "wait", "again"} :
              record_feedback_observation(outcome) /\ (outcome = "again" => pc' = pc)
    BY <1>3 DEF collect_coderabbit_feedback, goto
  <2> QED
    BY <2>1, <2>2, <2>3
<1>4. CASE ~(CodeRabbit /\ UNCHANGED loopVars) /\ ~foreign_push /\ ~collect_coderabbit_feedback
  <2>1. /\ obs' = obs \/ obs' = NoObservation(obs.required)
        /\ pc = "collect_coderabbit_feedback" => obs' = NoObservation(obs.required) \/ UNCHANGED vars
    BY <1>4, OnlyCollectionObserves
  <2>2. CASE obs' = NoObservation(obs.required)
    BY <2>2, NothingObserved
  <2>3. CASE UNCHANGED vars
    BY <2>3 DEF vars, reviewVars, feedbackVars, loopVars, ObsInv, Open
  <2>4. CASE pc # "collect_coderabbit_feedback"
    <3>1. obs = NoObservation(obs.required)
      BY <2>4 DEF ObsInv
    <3> QED
      BY <2>1, <2>2, <3>1
  <2> QED
    BY <2>1, <2>2, <2>3, <2>4
<1> QED
  BY <1>1, <1>2, <1>3, <1>4

ReadyIsCompleteStep ==
    pc = "collect_coderabbit_feedback" /\ feedback' # feedback
          /\ feedback'.state = "ready" /\ feedback'.head \in reviewed
          /\ (obs.required = 1 => obs.finished)
       => {i \in Items : threads[i].state = "open" /\ threads[i].head = feedback'.head}
              \subseteq feedback'.items

\* In the step of the collection nothing but its second half writes feedback.
LEMMA OnlyCollectionRecords ==
    ASSUME [Next]_vars, pc = "collect_coderabbit_feedback", feedback' # feedback
    PROVE  \E outcome : record_feedback_observation(outcome)
<1> USE DEF feedbackVars, reviewVars, loopVars, artifacts
<1>1. ~CodeRabbit /\ ~foreign_push /\ ~UNCHANGED vars /\ ~\E n \in DOMAIN SafeSteps : rewind(n)
  BY DEF CodeRabbit, coderabbit_start, coderabbit_comment, coderabbit_finish, foreign_push, rewind, vars
<1>2. ~(capture_pr_identity \/ post_pr_iteration_guard \/ watch_pr_checks \/ poll_checks_wait \/ poll_review_wait
         \/ collect_ci_failures)
  BY DEF capture_pr_identity, post_pr_iteration_guard, watch_pr_checks, poll_checks_wait, poll_review_wait,
         collect_ci_failures
<1>3. ~(evaluate_step \/ build_remediation_plan \/ remediate_pr_followup \/ validate_remediation_result
         \/ run_post_pr_tests \/ push_remediation_changes \/ run_git_push
         \/ write_committed_head_push_result \/ mark_step)
  BY DEF evaluate_step, build_remediation_plan, remediate_pr_followup, validate_remediation_result,
         run_post_pr_tests, push_remediation_changes, run_git_push, write_committed_head_push_result, mark_step
<1>4. collect_coderabbit_feedback
  BY <1>1, <1>2, <1>3 DEF Next
<1>5. ~collect_query_threads
  BY DEF collect_query_threads
<1> QED
  BY <1>4, <1>5 DEF collect_coderabbit_feedback

\* record_feedback_observation, next_stable_count: whatever number of identical
\* ready observations a workflow requires, feedback recorded as ready misses no
\* open thread of a head whose review was finished when the threads were asked
\* for; with two observations or more (the code's default) it is enough that
\* the review is finished when the feedback is recorded.
THEOREM FeedbackComplete == Spec => ReadyIsComplete
<1>1. Init => HeadsInv /\ ThreadsInv /\ ObsInv
  <2> SUFFICES ASSUME Init PROVE HeadsInv /\ ThreadsInv /\ ObsInv
    OBVIOUS
  <2>0. /\ made = 1 /\ local = 1 /\ remote = 1 /\ bind = 0 /\ ours = {1}
        /\ coderabbit = [head |-> 0, state |-> "ready"] /\ reviewed = {}
        /\ \E required \in RequiredStable : obs = NoObservation(required)
    BY DEF Init, NoHead
  <2>1. HeadsInv
    <3>1. coderabbit \in [head : Nat, state : {"in_progress", "ready"}] /\ coderabbit.head = 0
      BY <2>0
    <3> QED
      BY <2>0, <3>1 DEF HeadsInv
  <2>2. ThreadsInv
    BY DEF Init, ThreadsInv, Thread, None, NoHead
  <2>3. ObsInv
    <3>1. PICK required \in RequiredStable : obs = NoObservation(required)
      BY <2>0
    <3>2. DOMAIN obs = ObsFields /\ obs.stable = 0 /\ obs.required = required /\ obs.asked = FALSE
      BY <3>1 DEF NoObservation, ObsFields
    <3>3. obs = NoObservation(obs.required)
      BY <3>1, <3>2
    <3> QED
      BY <3>2, <3>3 DEF ObsInv
  <2> QED
    BY <2>1, <2>2, <2>3
<1>2. HeadsInv /\ ThreadsInv /\ ObsInv /\ [Next]_vars => HeadsInv' /\ ThreadsInv' /\ ObsInv'
  BY HeadsSteps, ThreadsSteps, ObsSteps
<1>3. HeadsInv /\ ObsInv /\ [Next]_vars => ReadyIsCompleteStep
  <2> SUFFICES ASSUME HeadsInv, ObsInv, [Next]_vars,
                      pc = "collect_coderabbit_feedback", feedback' # feedback,
                      feedback'.state = "ready", feedback'.head \in reviewed,
                      obs.required = 1 => obs.finished
               PROVE  Open(feedback'.head) \subseteq feedback'.items
    BY DEF ReadyIsCompleteStep, Open
  <2>1. PICK outcome : record_feedback_observation(outcome)
    BY OnlyCollectionRecords
  <2>2. PICK ready : ready = (ready_signal /\ ~in_progress_signal)
    OBVIOUS
  <2>3. PICK hash : hash = readiness_stability_hash(obs.seen)
    OBVIOUS
  <2>4. PICK stable : stable = next_stable_count(obs.prev, hash, ready, obs.stable)
    OBVIOUS
  <2>5. /\ obs.asked
        /\ feedback' = write_feedback_artifacts(
              IF stable >= obs.required THEN "ready"
              ELSE IF obs.n + 1 = MaxObservations THEN "timeout" ELSE "not_ready", obs.seen)
    BY <2>1, <2>2, <2>3, <2>4 DEF record_feedback_observation
  <2>6. /\ feedback'.head = bind
        /\ feedback'.items = obs.seen
        /\ stable >= obs.required
    BY <2>5 DEF write_feedback_artifacts
  <2>7. Settled(bind, coderabbit)
    BY <2>6, ReviewedIsSettled
  <2>8. CASE obs.required = 1
    BY <2>5, <2>6, <2>8 DEF ObsInv
  <2>9. CASE obs.required # 1
    <3>1. obs.required \in Nat /\ obs.required >= 2
      <4>1. PICK required : required = obs.required
        OBVIOUS
      <4>2. required \in RequiredStable
        BY <4>1 DEF ObsInv
      <4>3. required \in Nat /\ required # 0
        BY <4>2, SettingsAssumption
      <4> QED
        BY <2>9, <4>1, <4>3
    <3>2. ready /\ obs.prev = hash /\ obs.stable > 0
      BY <2>4, <2>6, <3>1 DEF next_stable_count, ObsInv
    <3>3. HashReview(obs.prev) = coderabbit
      BY <2>3, <3>2 DEF HashReview, readiness_stability_hash
    <3>4. Open(bind) \subseteq obs.seen
      BY <2>5, <2>7, <3>2, <3>3 DEF ObsInv
    <3> QED
      BY <2>6, <3>4
  <2> QED
    BY <2>8, <2>9
<1> QED
  BY <1>1, <1>2, <1>3, PTL DEF Spec, ReadyIsComplete, ReadyIsCompleteStep
=============================================================================
