-------------------------- MODULE RemediationResults --------------------------
(***************************************************************************)
(* What the validation of a remediation result looks at (components/       *)
(* github/pr_remediation.rs, stale_scope.rs).  A document the agent, or    *)
(* its wrapper, left is normalised, compared with the scope it should      *)
(* belong to and then with the plan, item by item; its quality decides     *)
(* which retry counter the launch is charged to.                           *)
(*                                                                         *)
(* A binding is [id, head]: id stands for run, repository and pull request *)
(* together.  A plan is [seq, must_fix]; a result is [id, head, out, plan, *)
(* scope, state, replay_error, results], its scope the values it claims.   *)
(* Null is an absent field.                                                *)
(***************************************************************************)
EXTENDS Sequences, Naturals

Null == "null"

ScopeKind == "remediation_result_validation"

success_statuses == {"fixed", "changed", "already_satisfied", "not_reproduced"}
unsuccessful_statuses == {"not_fixed", "skipped", "failed"}

-----------------------------------------------------------------------------
(* Normalisation and the stale scope.                                        *)

top_level_current(b, plan, r) ==
    r.id = b.id /\ r.head = b.head /\ r.plan \in {Null, plan.seq}

Filled(value, default) == IF value = Null THEN default ELSE value

\* The fields the document leaves out of its scope.
backfill_current_retry_scope(b, plan, r) ==
    [id |-> Filled(r.scope.id, b.id), head |-> Filled(r.scope.head, b.head),
     plan |-> Filled(r.scope.plan, plan.seq), out |-> Filled(r.scope.out, r.out),
     kind |-> Filled(r.scope.kind, ScopeKind)]

\* Only a document whose top level is current is completed.
normalize_remediation_result_for_validation(b, plan, r) ==
    IF top_level_current(b, plan, r)
    THEN [r EXCEPT !.plan = plan.seq, !.scope = backfill_current_retry_scope(b, plan, r)]
    ELSE r

compare_required_scope_fields(b, plan, r) ==
    r.scope.id = b.id /\ r.scope.head = b.head /\ r.scope.plan = plan.seq

compare_optional_scope_fields(r) ==
    /\ r.out # Null => r.scope.out \in {Null, r.out}
    /\ r.scope.kind \in {Null, ScopeKind}

\* A result that was once recorded as stale is not compared again.
classify_stale_remediation_scope(b, plan, r) ==
    /\ r.state \notin {"stale_artifact", "stale_artifact_cap_exhausted"}
    /\ ~(compare_required_scope_fields(b, plan, r) /\ compare_optional_scope_fields(r))

-----------------------------------------------------------------------------
(* Against the plan.                                                         *)

top_level_remediation_errors(b, plan, r) ==
    \/ r.id # b.id
    \/ r.head # b.head
    \/ r.plan # plan.seq
    \/ r.results = << >>
    \/ r.replay_error

\* Items without a source are dropped; of two with one key the last counts.
plan_items_by_key(plan) ==
    {plan.must_fix[n] : n \in {n \in DOMAIN plan.must_fix :
        /\ plan.must_fix[n].key # Null
        /\ \A m \in DOMAIN plan.must_fix : plan.must_fix[m].key = plan.must_fix[n].key => m <= n}}

\* A marker or a body hash counts only where the plan has one.
validate_result_binding(b, p, item) ==
    /\ item.head = b.head
    /\ p.head = b.head
    /\ p.marker # Null => item.marker = p.marker
    /\ p.hash # Null => item.hash = p.hash

validate_item_identity(b, plan, item) ==
    /\ \E p \in plan_items_by_key(plan) : p.key = item.key
    /\ \A p \in plan_items_by_key(plan) : p.key = item.key => validate_result_binding(b, p, item)
    /\ item.response # Null

validate_fixed_evidence(r, item) == item.evidence.head = r.out

validate_deterministic_evidence(b, item) ==
    /\ item.evidence.head = b.head
    /\ item.status = "already_satisfied" => item.evidence.passed_command
    /\ item.status = "not_reproduced" => item.evidence.not_found_lookup

validate_success_evidence(b, r, item) ==
    /\ item.status \in {"already_satisfied", "not_reproduced"} => validate_deterministic_evidence(b, item)
    /\ item.status \in {"fixed", "changed"} => validate_fixed_evidence(r, item)

validate_item_status(item) == item.status \in success_statuses \cup unsuccessful_statuses

validate_result_item(b, plan, r, item) ==
    /\ validate_item_identity(b, plan, item)
    /\ validate_item_status(item)
    /\ validate_success_evidence(b, r, item)

\* Every item of the plan has one result, not two.
validate_complete_result_coverage(plan, r) ==
    \A p \in plan_items_by_key(plan) :
        \E n \in DOMAIN r.results :
            /\ r.results[n].key = p.key
            /\ \A m \in DOMAIN r.results : r.results[m].key = p.key => m = n

semantic_remediation_validation(b, plan, r) ==
    /\ ~top_level_remediation_errors(b, plan, r)
    /\ \A n \in DOMAIN r.results : validate_result_item(b, plan, r, r.results[n])
    /\ validate_complete_result_coverage(plan, r)

Successful(r) == \A n \in DOMAIN r.results : r.results[n].status \in success_statuses

\* What a document amounts to; the counters it moves are PrRemediation's.
result_quality(b, plan, document) ==
    LET r == normalize_remediation_result_for_validation(b, plan, document)
    IN  IF classify_stale_remediation_scope(b, plan, r) THEN "stale"
        ELSE IF ~semantic_remediation_validation(b, plan, r) THEN "malformed"
        ELSE IF Successful(r) THEN "good" ELSE "unsuccessful"

-----------------------------------------------------------------------------
(* The result the executor writes when the agent left none.                  *)

wrapper_failure_result_item(b, p) ==
    [key |-> p.key, head |-> b.head, marker |-> p.marker, hash |-> p.hash, response |-> "invocation failed",
     status |-> "failed",
     evidence |-> [head |-> b.head, passed_command |-> FALSE, not_found_lookup |-> FALSE]]

wrapper_failure_retry_scope(b, plan, out) ==
    [id |-> b.id, head |-> b.head, plan |-> plan.seq, out |-> out, kind |-> ScopeKind]

\* The store adds the identity of the binding it writes for.
wrapper_failure_payload(b, plan, out) ==
    [id |-> b.id, head |-> b.head, out |-> out, plan |-> plan.seq,
     scope |-> wrapper_failure_retry_scope(b, plan, out), state |-> "unvalidated", replay_error |-> FALSE,
     results |-> [n \in DOMAIN plan.must_fix |-> wrapper_failure_result_item(b, plan.must_fix[n])]]
=============================================================================
