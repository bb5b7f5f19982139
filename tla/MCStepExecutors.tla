-------------------------- MODULE MCStepExecutors --------------------------
(* StepExecutors on small instances. *)
EXTENDS StepExecutors, TLC

AllKinds == {"manifest", "verify", "shell", "agent"}

Entry == [mode |-> "manifest", resolved |-> TRUE, remove |-> TRUE, if_missing |-> FALSE,
          if_present |-> FALSE, retries |-> 1, ok |-> {0}, retry |-> {1}, needs |-> TRUE,
          bars |-> FALSE, asks |-> TRUE, forbids |-> FALSE, fatal |-> FALSE, profile |-> "cargo",
          check |-> "test", custom |-> FALSE, existing_pr |-> FALSE]
Conditional == [Entry EXCEPT !.if_missing = TRUE, !.remove = FALSE, !.asks = FALSE, !.needs = FALSE,
                             !.bars = TRUE, !.fatal = TRUE]
Unresolved == [Entry EXCEPT !.resolved = FALSE, !.mode = "manifest"]
Check == [Entry EXCEPT !.mode = "legacy"]
Untyped == [Check EXCEPT !.check = "typecheck"]
Diff == [Entry EXCEPT !.mode = "diff"]

MCGroups == {<<>>, <<Entry, Conditional>>, <<Diff, Check>>, <<Untyped>>, <<Unresolved>>}

Gate == [NoAgent EXCEPT !.gate = TRUE, !.early = TRUE, !.marker = "Success"]
OnFile == [NoAgent EXCEPT !.file = TRUE, !.marker = "Success"]
Scoped == [NoAgent EXCEPT !.gate = TRUE, !.scoped = TRUE, !.idle = TRUE, !.cont = TRUE, !.required = {"a"}]
Canned == [NoAgent EXCEPT !.gate = TRUE, !.static = "stdout"]
Written == [NoAgent EXCEPT !.file = TRUE, !.static = "content"]

MCAgents == {Gate, OnFile, Scoped, Canned, Written}
MCPaths == {"a"}
MCCodes == {0, 1, 127}
MCCodeMap == 127 :> "Retryable"
MCOnStdout == "good" :> "Retryable"
=============================================================================
