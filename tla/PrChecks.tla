------------------------------ MODULE PrChecks ------------------------------
(***************************************************************************)
(* What the checks and the reviews of a pull request amount to: the        *)
(* classification of the checks (components/github/pr_check_wait.rs), the  *)
(* two normalisations of what GitHub answers, one of the watch step        *)
(* (github_pr.rs) and one of the daemon's poller (daemon/poller.rs), and   *)
(* the decisions of the poller.                                            *)
(*                                                                         *)
(* Words are lower-case: both normalisations fold the case.  A JSON row is *)
(* a function on the keys it has; an optional value is a set of at most    *)
(* one element.  A definition is the set of names its pattern matches and  *)
(* an optional allow_skipped.  Counters stop one above their limit, which  *)
(* no comparison tells from larger values; poll_attempts decides nothing   *)
(* and is left out, as are the counts and reasons in the artifact.         *)
(***************************************************************************)
EXTENDS Naturals, Sequences, FiniteSetsExt

\* JSON null, as the value of a key that is present.
Null == "null"

-----------------------------------------------------------------------------
(* Rows.                                                                     *)

\* row.get(k1).or_else(row.get(k2))...: the first key the row has, even when
\* its value is null, decides.
get(row, keys) ==
    LET present == {n \in DOMAIN keys : keys[n] \in DOMAIN row}
    IN  IF present = {} THEN Null ELSE row[keys[Min(present)]]

text(row, keys, default) == IF get(row, keys) = Null THEN default ELSE get(row, keys)

optional(row, key) == IF get(row, << key >>) = Null THEN {} ELSE {row[key]}

Failures == {"failure", "startup_failure", "timed_out", "action_required", "cancelled", "stale"}
Waitings == {"queued", "requested", "waiting", "pending", "in_progress"}

check_bucket(status, conclusion, bucket, state) ==
    IF bucket \in {"pass", "passed"} \/ {conclusion, state} \cap {"success", "neutral"} # {}
    THEN "passed"
    ELSE IF "skipped" \in {conclusion, state} THEN "skipped"
    ELSE IF \/ conclusion \in Failures \/ state \in Failures \cup {"failed"}
            \/ bucket \in {"fail", "failed"}
    THEN "failed"
    ELSE IF {status, state} \cap Waitings # {} \/ bucket = "pending" THEN "pending"
    ELSE "unknown"

\* The poller reads the rows of both queries alike.
normalize_poll_check(row) ==
    LET name  == text(row, << "name" >>, "unknown")
        state == text(row, << "state", "status", "conclusion" >>, "unknown")
    IN  [id     |-> text(row, << "id" >>, name),
         names  |-> {name} \cup optional(row, "workflow"),
         head   |-> optional(row, "head_sha"),
         bucket |-> check_bucket(text(row, << "status", "state" >>, ""),
                                 text(row, << "conclusion", "state" >>, ""),
                                 text(row, << "bucket" >>, state), state)]

\* The watch step reads a row of gh pr checks, bound to the head it asked for ...
normalize_gh_pr_checks(row, head, index) ==
    LET name  == text(row, << "name" >>, "unknown")
        state == text(row, << "state" >>, "unknown")
    IN  [id     |-> << "gh-pr-checks", name, index >>,
         names  |-> {name} \cup optional(row, "workflow"),
         head   |-> {head},
         bucket |-> check_bucket(state, state, text(row, << "bucket" >>, "unknown"), state)]

\* ... and a row of the check-runs of a commit.
normalize_rest_check_runs(row) ==
    LET status     == text(row, << "status" >>, "")
        conclusion == text(row, << "conclusion" >>, "")
        state      == IF optional(row, "conclusion") # {} THEN conclusion
                      ELSE text(row, << "status" >>, "unknown")
    IN  [id     |-> << "check-run", text(row, << "id" >>, "0") >>,
         names  |-> {text(row, << "name" >>, "unknown")} \cup optional(row, "suite"),
         head   |-> optional(row, "head_sha"),
         bucket |-> check_bucket(status, conclusion, state, state)]

\* Both queries, as far as they were answered; a row is known by its index.  The watch step does without
\* the second one, the poller does not.
query_checks(rows, runs, head) ==
    {normalize_gh_pr_checks(rows[n], head, n) : n \in DOMAIN rows}
        \cup {normalize_rest_check_runs(runs[n]) : n \in DOMAIN runs}

query_pr_checks(rows, runs) ==
    {normalize_poll_check(rows[n]) : n \in DOMAIN rows}
        \cup {normalize_poll_check(runs[n]) : n \in DOMAIN runs}

-----------------------------------------------------------------------------
(* Classification.                                                           *)

DefaultPolicy ==
    [required |-> {}, optional |-> {}, ignored |-> {}, allow_unmatched_success |-> TRUE,
     default_allow_skipped |-> FALSE, block_optional_failures |-> FALSE,
     missing_retry_attempts |-> 3, api_error_retry_attempts |-> 3]

NoCounters == [missing |-> 0, api |-> 0]

definition_matches(d, check) == check.names \cap d.matches # {}

current_checks(checks, head) == {c \in checks : c.head \subseteq {head}}

\* Ids of ignored checks, the stale ones included.
ignored_check_ids(checks, policy) ==
    {c.id : c \in {k \in checks : \E d \in policy.ignored : definition_matches(d, k)}}

considered(checks, head, policy) ==
    {c \in current_checks(checks, head) : c.id \notin ignored_check_ids(checks, policy)}

classify_check(check, allow_skipped) ==
    IF check.bucket # "skipped" THEN check.bucket ELSE IF allow_skipped THEN "passed" ELSE "failed"

allow_skipped(d, policy) ==
    IF d.allow_skipped = {} THEN policy.default_allow_skipped ELSE TRUE \in d.allow_skipped

matched(checks, d) == {c \in checks : definition_matches(d, c)}

aggregate_match_state(checks, d, policy) ==
    LET buckets == {classify_check(c, allow_skipped(d, policy)) : c \in matched(checks, d)}
    IN  IF buckets = {} THEN "missing"
        ELSE IF "failed" \in buckets THEN "failed"
        ELSE IF "pending" \in buckets THEN "pending"
        ELSE IF "unknown" \in buckets THEN "unknown"
        ELSE "passed"

match_definitions(checks, definitions, policy) ==
    {aggregate_match_state(checks, d, policy) : d \in definitions}

matched_check_ids(checks, policy) ==
    {c.id : c \in {k \in checks : \E d \in policy.required \cup policy.optional :
                                      definition_matches(d, k)}}

unmatched(checks, policy) == {c \in checks : c.id \notin matched_check_ids(checks, policy)}

missing_state(policy, counters) ==
    IF counters.missing <= policy.missing_retry_attempts THEN "pending_timeout" ELSE "fatal"

classify_state(checks, policy, counters) ==
    LET required == match_definitions(checks, policy.required, policy)
        optionals == match_definitions(checks, policy.optional, policy)
        other    == unmatched(checks, policy)
        Other(bucket) == \E c \in other : c.bucket = bucket
    IN  IF "failed" \in required THEN "failed"
        ELSE IF "missing" \in required THEN missing_state(policy, counters)
        ELSE IF "pending" \in required THEN "pending_timeout"
        ELSE IF policy.block_optional_failures /\ "failed" \in optionals THEN "failed"
        ELSE IF Other("pending") THEN "pending_timeout"
        ELSE IF "unknown" \in required THEN "unknown"
        ELSE IF \E c \in other : classify_check(c, policy.default_allow_skipped) = "failed"
        THEN "failed"
        ELSE IF Other("unknown") THEN "unknown"
        ELSE IF policy.required = {} /\ ~policy.allow_unmatched_success THEN "unknown"
        ELSE "passed"

more(count, limit) == IF count <= limit THEN count + 1 ELSE count

\* [state, counters] of one answered poll, and of one that failed.
classify_pr_checks(head, checks, policy, old) ==
    LET seen     == considered(checks, head, policy)
        missing  == "missing" \in match_definitions(seen, policy.required, policy)
        counters == [api |-> 0,
                     missing |-> IF missing THEN more(old.missing, policy.missing_retry_attempts)
                                 ELSE 0]
    IN  [state |-> classify_state(seen, policy, counters), counters |-> counters]

classify_api_error(policy, old) ==
    LET api == more(old.api, policy.api_error_retry_attempts)
    IN  [state |-> IF api <= policy.api_error_retry_attempts THEN "pending_timeout" ELSE "fatal",
         counters |-> [old EXCEPT !.api = api]]

-----------------------------------------------------------------------------
(* The poller: "ready", "waiting", "transient" or "terminal".                *)

\* A wait without a pull request, a head or a readable policy cannot be
\* polled, which is terminal for checks; the checks themselves resume the run
\* whether they passed or failed.
poll_pr_checks(identified, state) ==
    IF ~identified \/ state \in {"fatal", "unknown"} THEN "terminal"
    ELSE IF state \in {"passed", "failed"} THEN "ready" ELSE "waiting"

\* A comment is what its author's login contains and the phrases of its body.
\* Done and the name of the reviewer may be in anybody's comment, an error
\* only in one of the reviewer's own.
DonePhrases == {"finished reviewing", "review completed", "summary by coderabbit", "walkthrough"}
BlockingPhrases == {"rate limited", "rate limit", "review limit reached", "run out of usage credits",
                    "usage credits", "quota", "encountered an error", "review failed"}

is_coderabbit_authored_comment(c) == "coderabbit" \in c.author

coderabbit_has_blocking_error(comments) ==
    \E c \in comments : is_coderabbit_authored_comment(c) /\ c.says \cap BlockingPhrases # {}

coderabbit_is_ready(comments) ==
    /\ \E c \in comments : c.says \cap {"coderabbit", "summary by coderabbit"} # {}
    /\ ~coderabbit_has_blocking_error(comments)
    /\ \E c \in comments : c.says \cap DonePhrases # {}

poll_coderabbit_review(identified, answered, comments) ==
    IF ~identified THEN "waiting" ELSE IF ~answered THEN "transient"
    ELSE IF coderabbit_is_ready(comments) THEN "ready" ELSE "waiting"

review_decision_ready(view) == "APPROVED" \in view.decision

poll_human_review(identified, answered, view) ==
    IF ~identified THEN "waiting" ELSE IF ~answered THEN "transient"
    ELSE IF review_decision_ready(view) THEN "ready" ELSE "waiting"
=============================================================================
