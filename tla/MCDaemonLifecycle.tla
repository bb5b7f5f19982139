------------------------- MODULE MCDaemonLifecycle -------------------------
(* DaemonLifecycle on small instances. *)
EXTENDS DaemonLifecycle, TLC

CONSTANTS d1, d2, i1, i2

TwoDaemons == {d1, d2}
OneDaemon == {d1}
OneIssue == {i1}
TwoIssues == {i1, i2}

\* Daemons are interchangeable, and so are issues.
DaemonSymmetry == Permutations(Daemons)
BothSymmetry == Permutations(Daemons) \cup Permutations(Issues)

\* Bound of LifecycleErrors: the engine thread of an issue's second claim is not
\* followed beyond its start.
FirstRuns ==
    \A d \in Daemons, i \in Issues : stage[d][i][2] \notin InThread \ {"starting"}
=============================================================================
