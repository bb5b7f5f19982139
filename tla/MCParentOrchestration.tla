----------------------- MODULE MCParentOrchestration -----------------------
(***************************************************************************)
(* Two children, two runs each, and one fault of the parent.               *)
(***************************************************************************)
EXTENDS ParentOrchestration

MCChildren == 1 .. 2
MCMaxRuns == <<2, 1>>
MCFirstSubs == {1}
MCListed == {1}
=============================================================================
