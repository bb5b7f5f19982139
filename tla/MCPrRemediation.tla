------------------------- MODULE MCPrRemediation -------------------------
(* Small instances of the remediation loop. *)
EXTENDS PrRemediation, TLC

Plain == [attempts |-> 2, validation |-> 2, stale |-> 1]
Tight == [attempts |-> 1, validation |-> 1, stale |-> 1]
TwoConfigs == {Plain, Tight}
OneConfig == {Plain}
Symmetry == Permutations(Executions)

-----------------------------------------------------------------------------
\* Documents against a plan of two items.
MCBinding == [id |-> "run", head |-> "h1"]
MCItem(k) == [key |-> k, head |-> "h1", marker |-> IF k = "ci" THEN Null ELSE k, hash |-> Null]
MCPlan == [seq |-> "7", must_fix |-> << MCItem("ci"), MCItem("thread") >>]
NoScope == [id |-> Null, head |-> Null, plan |-> Null, out |-> Null, kind |-> Null]

MCResult(k, status, seen) ==
    [key |-> k, head |-> "h1", marker |-> IF k = "ci" THEN Null ELSE k, hash |-> Null,
     response |-> "done", status |-> status,
     evidence |-> [head |-> seen, passed_command |-> FALSE, not_found_lookup |-> TRUE]]

Document(results) ==
    [id |-> "run", head |-> "h1", out |-> "h2", plan |-> Null, scope |-> NoScope,
     state |-> "unvalidated", replay_error |-> FALSE, results |-> results]

MCResults ==
    LET one == {MCResult(k, s, h) : k \in {"ci", "thread", "other"},
                    s \in {"fixed", "already_satisfied", "not_reproduced", "failed", "odd"}, h \in {"h1", "h2"}}
    IN  UNION {[1..n -> one] : n \in 0..2}

\* A document is good exactly when both items of the plan are answered once,
\* each "fixed" at the new head or "not_reproduced" at the old one.
GoodDocuments ==
    {d \in MCResults : result_quality(MCBinding, MCPlan, Document(d)) = "good"}
ASSUME GoodAreAnswered ==
    GoodDocuments = {d \in MCResults :
        /\ Len(d) = 2
        /\ {d[1].key, d[2].key} = {"ci", "thread"}
        /\ \A n \in 1..2 : \/ d[n].status = "fixed" /\ d[n].evidence.head = "h2"
                           \/ d[n].status = "not_reproduced" /\ d[n].evidence.head = "h1"}

\* The qualities the loop explores are those of real documents: the one of an
\* earlier plan is stale even when it is right about its items.
ASSUME QualitiesOccur ==
    LET fixed == << MCResult("ci", "fixed", "h2"), MCResult("thread", "fixed", "h2") >>
        Of(d) == result_quality(MCBinding, MCPlan, d)
    IN  /\ Of(Document(fixed)) = "good"
        /\ Of([Document(fixed) EXCEPT !.plan = "6"]) = "stale"
        /\ Of([Document(fixed) EXCEPT !.plan = "6", !.state = "stale_artifact"]) = "malformed"
        /\ Of([Document(fixed) EXCEPT !.scope.kind = "other"]) = "stale"
        /\ Of(Document(<< fixed[1] >>)) = "malformed"
        /\ Of([Document(fixed) EXCEPT !.replay_error = TRUE]) = "malformed"
        /\ Of(Document(<< fixed[1], MCResult("thread", "failed", "h1") >>)) = "unsuccessful"
        /\ Of(wrapper_failure_payload(MCBinding, MCPlan, "h1")) = "unsuccessful"
=============================================================================
