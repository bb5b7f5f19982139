--------------------------- MODULE MCFollowupLoop ---------------------------
(* One required and one optional check. *)
EXTENDS FollowupLoop

MCChecks == {"required", "optional"}
MCRequired == {"required"}
MCOptional == {"optional"}
Row(c, state, bucket) == [name |-> c, state |-> state, bucket |-> bucket]
Poll(r) == ("required" :> r) @@ ("optional" :> Row("optional", "success", "pass"))
MCObservations ==
    {Poll(Row("required", "success", "pass")), Poll(Row("required", "failure", "fail")), Poll(Absent)}
MCEvaluations ==
    {[decision |-> "valid", correctness |-> "high", scope |-> "small_adjacent_fix"],
     [decision |-> "invalid", correctness |-> "invalid", scope |-> "follow_up_issue"]}

\* Bound: after a rewind no second remediation of a head is followed.
OneAttemptAfterRewind == rewinds > 0 => retry.n < max_remediations

-----------------------------------------------------------------------------
(* The classifiers on the answers GitHub gives.                              *)

Run(status, conclusion) ==
    [id |-> "7", name |-> "ci", status |-> status, conclusion |-> conclusion, head_sha |-> "h"]

\* A check run that has not finished has a null conclusion: the poller reads
\* its status, and the same run is pending for the watch step.
ASSUME UnfinishedIsPending ==
    \A status \in Waitings :
        /\ normalize_poll_check(Run(status, Null)).bucket = "pending"
        /\ normalize_rest_check_runs(Run(status, Null)).bucket = "pending"

\* Both normalisations agree on what a finished check run amounts to.
ASSUME NormalisationsAgree ==
    \A conclusion \in Failures \cup {"success", "neutral", "skipped"} :
        normalize_poll_check(Run("completed", conclusion)).bucket
            = normalize_rest_check_runs(Run("completed", conclusion)).bucket

\* gh pr checks says "skipping" and "cancel" in its own words; the state decides.
ASSUME GhBuckets ==
    /\ normalize_poll_check(Row("ci", "skipped", "skipping")).bucket = "skipped"
    /\ normalize_gh_pr_checks(Row("ci", "cancelled", "cancel"), "h", 1).bucket = "failed"
    /\ normalize_poll_check([name |-> "ci"]).bucket = "unknown"

Named(name, bucket) == [id |-> name, names |-> {name}, head |-> {"h"}, bucket |-> bucket]
Asking(name, skip) == [matches |-> {name}, allow_skipped |-> skip]
Buckets == {"passed", "skipped", "failed", "pending", "unknown"}
Requiring(name, skip) == [DefaultPolicy EXCEPT !.required = {Asking(name, skip)}]
StateOf(seen, policy) == classify_pr_checks("h", seen, policy, NoCounters).state

\* A skipped required check fails unless its definition allows it; an ignored
\* check never satisfies a requirement; a check of an older commit decides
\* nothing; no policy at all waits for whatever is there.
ASSUME PolicyVerdicts ==
    /\ StateOf({Named("ci", "skipped")}, Requiring("ci", {})) = "failed"
    /\ StateOf({Named("ci", "skipped")}, Requiring("ci", {TRUE})) = "passed"
    /\ StateOf({Named("ci", "passed")},
               [Requiring("ci", {}) EXCEPT !.ignored = {Asking("ci", {})}]) = "pending_timeout"
    /\ \A b \in Buckets :
           StateOf({Named("ci", "passed"), [Named("ci", b) EXCEPT !.id = "old", !.head = {"g"}]},
                   Requiring("ci", {})) = "passed"
    /\ StateOf({}, DefaultPolicy) = "passed"
    /\ StateOf({Named("x", "pending")}, DefaultPolicy) = "pending_timeout"
    /\ StateOf({}, [DefaultPolicy EXCEPT !.allow_unmatched_success = FALSE]) = "unknown"

\* Anybody's comment may complete a review, only the reviewer's own can block it.
ASSUME ReviewVerdicts ==
    LET done == [author |-> {"coderabbit"}, says |-> {"coderabbit", "walkthrough"}]
        limited(by) == [author |-> by, says |-> {"rate limit"}]
    IN  /\ poll_coderabbit_review(TRUE, TRUE, {done}) = "ready"
        /\ poll_coderabbit_review(TRUE, TRUE, {done, limited({"someone"})}) = "ready"
        /\ poll_coderabbit_review(TRUE, TRUE, {done, limited({"coderabbit"})}) = "waiting"
        /\ poll_human_review(TRUE, TRUE, [decision |-> {"CHANGES_REQUESTED"}]) = "waiting"
        /\ poll_human_review(TRUE, TRUE, [decision |-> {"APPROVED"}]) = "ready"
=============================================================================
