------------------------- MODULE MCRecoveryProtocol -------------------------
(* RecoveryProtocol on small instances. *)
EXTENDS RecoveryProtocol, TLC

CONSTANTS c1, c2, a1, a2

TwoCallers == {c1, c2}
OneCaller == {c1}
TwoSteps == {"implement", "watch_pr_checks"}
OneStep == {"watch_pr_checks"}
TwoVerbs == {"resume", "rewind"}
Resume == {"resume"}
TwoResults == {"success", "waiting_external"}
TwoSnapshots == {a1, a2}

\* Callers are interchangeable.
CallerSymmetry == Permutations(Callers)
=============================================================================
