---------------------------- MODULE AttemptLedger ----------------------------
(***************************************************************************)
(* What the recovery of a run promises about its durable record: every     *)
(* epoch belongs to exactly one attempt, epochs only grow, and the result  *)
(* of an attempt is written once and never again.                          *)
(***************************************************************************)
EXTENDS Naturals

CONSTANT Results   \* how a runner can end

VARIABLES
    epoch,    \* the run's recovery epoch
    results   \* result of the attempt of each epoch so far

Init ==
    /\ epoch = 0
    /\ results = [n \in 1..0 |-> "started"]

\* A recovery claims the next epoch and opens its attempt.
Reserve ==
    /\ epoch' = epoch + 1
    /\ results' = [n \in 1..epoch + 1 |-> IF n = epoch + 1 THEN "started" ELSE results[n]]

\* An open attempt receives its result.
Complete ==
    /\ \E n \in 1..epoch, r \in Results :
          /\ results[n] = "started"
          /\ results' = [results EXCEPT ![n] = r]
    /\ UNCHANGED epoch

Next == Reserve \/ Complete

Spec == Init /\ [][Next]_<<epoch, results>>
=============================================================================
