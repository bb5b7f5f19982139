--------------------------- MODULE MCScopeControl ---------------------------
(***************************************************************************)
(* One run, a source file inside the charter and a new one that puts the   *)
(* patch over the budget, and a configuration that is loosened once.       *)
(***************************************************************************)
EXTENDS ScopeControl

MCFiles == {"core", "extra"}

MCAttr ==
    [core  |-> [new |-> FALSE, source |-> TRUE, binary |-> FALSE, lines |-> 1, deps |-> 0,
                apis |-> 1, within |-> "engine"],
     extra |-> [new |-> TRUE, source |-> TRUE, binary |-> FALSE, lines |-> 2, deps |-> 0,
                apis |-> 0, within |-> None]]

MCPolicies ==
    LET b(n) == [files |-> n, lines |-> n, modules |-> 1, deps |-> 0, apis |-> 1]
        c(n) == [deltas |-> n, rounds |-> 2]
    IN <<[budget |-> b(2), caps |-> c(1), subsystems |-> {"engine"}],
         [budget |-> b(9), caps |-> c(2), subsystems |-> {"engine", None}]>>
=============================================================================
