----------------------------- MODULE StepState -----------------------------
(***************************************************************************)
(* The state of a step that runs another program, and the two invariants   *)
(* that say what its result may rest on.  StepExecutors has the actions.   *)
(***************************************************************************)
EXTENDS Naturals

CONSTANTS
    Kinds,           \* the step types of the instance
    Groups,          \* the command sequences of the manifest and verify steps
    AgentConfigs,    \* parameter sets of the agent step
    Paths,           \* paths of the workspace
    Codes,           \* exit codes
    CodeMap,         \* exit_code_map of the shell and agent steps
    OnStdout,        \* outcome_on_stdout of the shell step
    DetectionFails,  \* whether git status may fail
    MaxEdits         \* changes of the workspace by the agent's processes

ASSUME ExecutorAssumption ==
    /\ Kinds \subseteq {"manifest", "verify", "shell", "agent"}
    /\ 0 \in Codes /\ Codes \subseteq Nat
    /\ DOMAIN CodeMap \subseteq Codes \ {0}
    /\ DetectionFails \in BOOLEAN /\ MaxEdits \in Nat

VARIABLES
    step,    \* the step under way
    procs,   \* its processes: the one spawned, its child, its grandchild, and
             \* whoever is left of the commands before
    read,    \* TRUE once the reader threads have seen the end of the output
    timer,   \* what the clocks of the wait loop would answer
    tree, file,  \* changed paths of the workspace, and the file a step asks for
    edits,
    gained   \* history: a path or file appeared after the step began

-----------------------------------------------------------------------------
\* The processes that run, and among them those that hold the output: one that
\* redirected or closed it lives on unseen by the readers.
Alive == {p \in DOMAIN procs : procs[p].live}
Holders == {p \in Alive : procs[p].holds}

\* LlxprtStepConfig::gates_on_diff: success asks for a change or for a file.
gates_on_diff(conf) == conf.file \/ conf.gate

-----------------------------------------------------------------------------
(* Properties                                                              *)

\* Nobody who stayed in the process group still holds the output of a command
\* when its result is used, when it is tried again and when the step ends
\* (command_manifest.rs: wait_for_manifest_child); only a manifest entry goes
\* on without having read its output to the end.  A shell command whose stdin
\* could not be written is left before that (shell.rs: join_stdin_writer).
NothingHoldsOutput ==
    /\ step.pc \in {"result", "spawn", "entry", "ended"}
    /\ ~(step.kind = "shell" /\ step.outcome = "error")
    => /\ \A p \in Holders : ~procs[p].group
       /\ step.kind \in {"shell", "agent"} => Holders = {}

\* An agent step that is gated on a change succeeds only on a change that was
\* made while it ran, never on one it found (llxprt.rs: initial_changed_paths,
\* initial_success_condition_met).
GatedSuccess ==
    /\ step.kind = "agent" /\ step.outcome = "Success"
    /\ gates_on_diff(step.conf) /\ ~step.conf.existing /\ ~step.conf.cont
    => gained
=============================================================================
