--------------------------- MODULE StepExecutors ---------------------------
(***************************************************************************)
(* The executors that run other programs: the command manifest group, the  *)
(* verifier, the shell step and the agent (llxprt) step.                   *)
(*                                                                         *)
(* Each spawns a process, drains its output on reader threads and waits    *)
(* for it against a deadline.  The process may fork; what it forks holds   *)
(* the same output pipes unless they are redirected or closed, may ignore  *)
(* a TERM signal and may leave the process group.  A reader ends when      *)
(* nobody holds its pipe any more, whoever else lives.  The four executors *)
(* differ in whom they kill, when, and in whether they wait for the        *)
(* readers for ever.                                                       *)
(*                                                                         *)
(* One step is executed per behaviour.  Output is abstracted to whether it *)
(* is blank, has what a required pattern asks for or what a forbidden one  *)
(* rules out; the workspace to its set of changed paths and one file.      *)
(***************************************************************************)
EXTENDS StepState, Naturals, Sequences, FiniteSets

vars == <<step, procs, read, timer, tree, file, edits, gained>>
ground == <<tree, file, edits, gained>>

-----------------------------------------------------------------------------
(* Processes                                                               *)

Dead == [live |-> FALSE, group |-> FALSE, deaf |-> FALSE, holds |-> FALSE]
Spawned == [Dead EXCEPT !.live = TRUE, !.group = TRUE, !.holds = TRUE]
NoProcs == [main |-> Dead, child |-> Dead, deep |-> Dead, stray |-> Dead]
Descendants == {"child", "deep"}
ParentOf(p) == IF p = "child" THEN "main" ELSE "child"

Kill(ps, victims) == [p \in DOMAIN ps |-> IF p \in victims THEN Dead ELSE ps[p]]

\* Mutant: only the process itself is killed.
terminate_child_alone(ps) == Kill(ps, {"main"})

\* TERM, then KILL, to the whole process group: command_manifest.rs, and the
\* same in verify.rs and llxprt/process_control.rs while the leader is unreaped.
terminate_child(ps) == Kill(ps, {p \in DOMAIN ps : ps[p].group} \cup {"main"})

terminate_command(ps) == terminate_child(ps)

\* A leader that was waited for answers no getpgid: the signal goes to its pid.
terminate_agent_tree(ps) == IF step.reaped THEN ps ELSE terminate_child(ps)

\* pkill -P reaches the direct children, and after the first kill of the
\* process they are children of init: the second pkill finds nobody.
terminate_process_tree(ps) ==
    Kill(ps, {"main"} \cup {p \in {"child"} : ~ps[p].deaf})

-----------------------------------------------------------------------------
(* The step                                                                *)

NoAgent ==
    [gate |-> FALSE, early |-> FALSE, existing |-> FALSE, cont |-> FALSE, file |-> FALSE,
     required |-> {}, marker |-> "none", static |-> "none", scoped |-> FALSE, idle |-> FALSE]

Fresh(kind, group, conf, limit, stdin) ==
    [kind |-> kind, group |-> group, conf |-> conf, limit |-> limit, stdin |-> stdin,
     pc |-> "start", cmd |-> 1, tries |-> 0, code |-> 0, signal |-> FALSE, timed |-> FALSE,
     reaped |-> FALSE,
     out |-> "blank", marked |-> FALSE, seen |-> FALSE, hit |-> FALSE, initial |-> {},
     met |-> FALSE, all |-> TRUE, fatal |-> FALSE, interrupted |-> FALSE, outcome |-> "none"]

Fresh_timer == [late |-> FALSE, quiet |-> FALSE, ripe |-> FALSE, fresh |-> FALSE]

\* Commands of a group and agents with a success file are about a file.
Asks == step.kind \in {"manifest", "verify"} \/ step.conf.file

Init ==
    /\ \E kind \in Kinds, group \in Groups, conf \in AgentConfigs, limit, stdin \in BOOLEAN :
           /\ kind \in {"manifest", "agent"} => limit
           /\ kind # "shell" => ~stdin
           /\ kind = "manifest" => \A i \in DOMAIN group : group[i].mode = "manifest"
           /\ step = Fresh(kind, IF kind \in {"manifest", "verify"} THEN group ELSE <<>>,
                           IF kind = "agent" THEN conf ELSE NoAgent, limit, stdin)
    /\ procs = NoProcs /\ read = FALSE /\ timer = Fresh_timer
    /\ tree \in SUBSET Paths /\ (step.kind \in {"shell", "manifest"} => tree = {})
    /\ file \in {"absent", "present", "outside"}
    /\ file # "absent" => Asks
    /\ file = "outside" => step.kind # "agent"
    /\ edits = 0 /\ gained = FALSE

At(pc) == step.pc = pc
Goto(pc) == step' = [step EXCEPT !.pc = pc]
End(outcome) == step' = [step EXCEPT !.pc = "ended", !.outcome = outcome]
Command == step.group[step.cmd]

\* A verify step mixes checks of the manifest with the profile's own commands.
Manifest == step.kind = "manifest" \/ (step.kind = "verify" /\ Command.mode = "manifest")

-----------------------------------------------------------------------------
(* Entering a step                                                         *)

\* An empty group is allowed, an empty list of checks is a pass.
verify_check_sequence == step.group

execute_manifest_group ==
    /\ At("start") /\ step.kind \in {"manifest", "verify"}
    /\ IF verify_check_sequence = <<>> THEN End("Success") ELSE Goto("entry")
    /\ UNCHANGED <<procs, read, timer, ground>>

\* A file for stdin that cannot be read is fatal before anything is spawned.
resolve_shell_stdin ==
    /\ At("start") /\ step.kind = "shell"
    /\ \/ Goto("spawn")
       \/ step.stdin /\ End("Fatal")
    /\ UNCHANGED <<procs, read, timer, ground>>

-----------------------------------------------------------------------------
(* Manifest entries                                                        *)

\* Tokens of the arguments that the context does not resolve are an error.
resolve_entry_argv(entry) == entry.resolved

\* run_if_missing_any and run_if_present_all, on the model's one file.
entry_conditions_match(entry) ==
    /\ entry.if_missing => file = "absent"
    /\ entry.if_present => file # "absent"

\* A target that resolves outside the workspace is refused.
validate_removal_target == file = "present"

\* The path is renamed to a tombstone and the tombstone removed, or renamed
\* back when that fails.
remove_manifest_path(entry, works) ==
    CASE ~entry.remove \/ file = "absent" -> [ok |-> TRUE, file |-> file]
      [] validate_removal_target /\ works -> [ok |-> TRUE, file |-> "absent"]
      [] OTHER -> [ok |-> FALSE, file |-> file]

validate_manifest_working_directory(there) == there

manifest_entry_for_check(entry) == entry.mode = "manifest"

run_manifest_entry ==
    LET entry == Command IN
    /\ At("entry") /\ manifest_entry_for_check(entry)
    /\ \/ /\ ~resolve_entry_argv(entry) /\ End("error") /\ UNCHANGED file
       \/ /\ resolve_entry_argv(entry) /\ ~entry_conditions_match(entry)
          /\ Goto("skipped") /\ UNCHANGED file
       \/ /\ resolve_entry_argv(entry) /\ entry_conditions_match(entry)
          /\ \E works, there \in BOOLEAN :
                 LET removal == remove_manifest_path(entry, works) IN
                 /\ file' = removal.file
                 /\ IF removal.ok /\ validate_manifest_working_directory(there)
                    THEN step' = [step EXCEPT !.pc = "spawn", !.tries = entry.retries + 1]
                    ELSE End("error")
    /\ UNCHANGED <<procs, read, timer, tree, edits, gained>>

-----------------------------------------------------------------------------
(* Checks that are not in the manifest                                     *)

profile_default_command(profile, check) ==
    CASE profile \in {"npm", "pnpm", "yarn"} -> check \in {"lint", "typecheck", "test", "format", "build"}
      [] profile \in {"cargo", "go"} -> check \in {"lint", "test", "format", "build"}
      [] profile = "python" -> check \in {"lint", "typecheck", "test", "format"}
      [] OTHER -> FALSE

resolve_check_command(entry) == entry.custom \/ profile_default_command(entry.profile, entry.check)

\* A change is there, or a pull request exists already.
run_diff_or_existing_pr_check(entry) == entry.existing_pr \/ tree # {}

legacy_check ==
    LET entry == Command IN
    /\ At("entry") /\ entry.mode = "legacy"
    /\ IF resolve_check_command(entry) THEN Goto("spawn") ELSE End("error")
    /\ UNCHANGED <<procs, read, timer, ground>>

-----------------------------------------------------------------------------
(* Results of the commands of a group                                      *)

\* The step goes on to its next command or ends.
Next_command(st) ==
    IF st.cmd < Len(st.group) THEN [st EXCEPT !.pc = "entry", !.cmd = @ + 1]
    ELSE [st EXCEPT !.pc = "ended",
                    !.outcome = CASE st.all -> "Success" [] st.fatal -> "Fatal" [] OTHER -> "Fixable"]

\* VerifyRunState: a timeout and a fatal failure stop the sequence; so does
\* every failure of a manifest group.
record(st, passed, fatal, stop) ==
    LET next == [st EXCEPT !.all = @ /\ passed, !.fatal = @ \/ (~passed /\ fatal)]
    IN  IF stop \/ next.fatal \/ (st.kind = "manifest" /\ ~passed)
        THEN [Next_command(next) EXCEPT !.pc = "ended", !.cmd = st.cmd,
                 !.outcome = IF next.all THEN "Success" ELSE IF next.fatal THEN "Fatal" ELSE "Fixable"]
        ELSE Next_command(next)

skipped_manifest_check ==
    /\ At("skipped")
    /\ step' = record(step, TRUE, FALSE, FALSE)
    /\ UNCHANGED <<procs, read, timer, ground>>

diff_gate_result ==
    /\ At("entry") /\ Command.mode = "diff"
    /\ step' = record(step, run_diff_or_existing_pr_check(Command), TRUE, FALSE)
    /\ UNCHANGED <<procs, read, timer, ground>>

\* What the readers handed over, which is nothing when they were given up.
Text == IF read THEN step.out ELSE "blank"

pattern_failures(entry) == (entry.needs /\ Text # "good") \/ (entry.bars /\ Text = "bad")

expectation_failures(entry) ==
    \/ step.signal \/ step.code \notin entry.ok
    \/ pattern_failures(entry)
    \/ step.timed

artifact_failures(entry) == (entry.asks /\ file # "present") \/ (entry.forbids /\ file = "present")

should_retry_manifest_result(entry) ==
    step.tries > 1 /\ ~step.signal /\ step.code \in entry.retry

manifest_process_result ==
    LET entry == Command IN
    /\ At("result") /\ Manifest
    /\ step' = IF should_retry_manifest_result(entry)
               THEN [step EXCEPT !.pc = "spawn", !.tries = @ - 1]
               ELSE record(step, ~expectation_failures(entry) /\ ~artifact_failures(entry),
                           entry.fatal, FALSE)
    /\ UNCHANGED <<procs, read, timer, ground>>

\* A command that is not found is fatal, by its code or by what it printed (the
\* bad output); a timed-out one stops the sequence.
is_command_not_found == step.code = 127 \/ Text = "bad"

completed_legacy_result ==
    /\ At("result") /\ step.kind = "verify" /\ ~Manifest
    /\ step' = IF step.timed THEN record(step, FALSE, FALSE, TRUE)
               ELSE record(step, ~step.signal /\ step.code = 0, is_command_not_found, FALSE)
    /\ UNCHANGED <<procs, read, timer, ground>>

mapped_nonzero_outcome(default) ==
    IF ~step.signal /\ step.code \in DOMAIN CodeMap THEN CodeMap[step.code] ELSE default

\* The first configured pattern that the output has decides.
match_outcome_on_stdout == OnStdout[Text]

\* Output that is not the JSON it should be, or lacks a mapped path, is fatal.
extract_json_context == IF Text = "bad" THEN "Fatal" ELSE "Success"

resolve_shell_outcome ==
    /\ At("result") /\ step.kind = "shell"
    /\ \/ step.timed /\ End("Fatal")
       \/ ~step.timed /\ (step.signal \/ step.code # 0)
          /\ End(mapped_nonzero_outcome("Fixable"))
       \/ ~step.timed /\ ~step.signal /\ step.code = 0
          /\ End(IF Text \in DOMAIN OnStdout THEN match_outcome_on_stdout ELSE extract_json_context)
    /\ UNCHANGED <<procs, read, timer, ground>>

-----------------------------------------------------------------------------
(* Spawning and waiting                                                    *)

\* A program that cannot be started: fatal for a manifest entry and a check,
\* an error of the step otherwise.
manifest_spawn_error ==
    IF step.kind \in {"manifest", "verify"} THEN record(step, FALSE, TRUE, FALSE)
    ELSE [step EXCEPT !.pc = "ended", !.outcome = "error"]

spawn_manifest_child ==
    /\ At("spawn")
    /\ \/ /\ step' = [step EXCEPT !.pc = "wait", !.timed = FALSE, !.reaped = FALSE, !.out = "blank"]
          /\ procs' = [NoProcs EXCEPT !.main = Spawned, !.stray.live = Alive # {}]
          /\ read' = FALSE /\ timer' = Fresh_timer
       \/ /\ step' = manifest_spawn_error
          /\ UNCHANGED <<procs, read, timer>>
    /\ UNCHANGED ground


\* try_wait is asked before the clock.
wait_for_child_exit(running, limited, late) ==
    CASE ~running -> "exited"
      [] running /\ limited /\ late -> "timed_out"
      [] OTHER -> "running"

Terminate(ps) == CASE step.kind = "shell" -> terminate_process_tree(ps)
                   [] Manifest -> terminate_child(ps)
                   [] OTHER -> terminate_command(ps)

\* What comes after the wait: a manifest entry gives its readers a moment, a
\* check and a shell command join theirs.
AfterWait == IF step.kind # "shell" /\ Manifest THEN "readers" ELSE "join"

wait_for_manifest_child ==
    /\ At("wait") /\ step.kind # "agent"
    /\ LET answer == wait_for_child_exit(procs.main.live, step.limit \/ Manifest, timer.late) IN
       \/ /\ answer = "exited" /\ UNCHANGED procs
          /\ step' = [step EXCEPT !.pc = AfterWait, !.reaped = TRUE]
       \/ /\ answer = "timed_out"
          /\ step' = [step EXCEPT !.pc = AfterWait, !.timed = TRUE, !.signal = TRUE]
          /\ procs' = Terminate(procs)
    /\ UNCHANGED <<read, timer, ground>>

\* 100 milliseconds, then the group is killed, then three seconds.
wait_for_reader_after_process_exit ==
    /\ At("readers")
    /\ \/ read /\ Goto("result") /\ UNCHANGED procs
       \/ ~read /\ Goto("cleanup") /\ procs' = terminate_child(procs)
    /\ UNCHANGED <<read, timer, ground>>

wait_for_reader_after_cleanup ==
    /\ At("cleanup") /\ Goto("result")
    /\ UNCHANGED <<procs, read, timer, ground>>

\* A failed write to stdin is returned before the readers are joined.
join_stdin_writer ==
    /\ At("join") /\ step.kind = "shell" /\ step.stdin /\ ~step.timed
    /\ End("error")
    /\ UNCHANGED <<procs, read, timer, ground>>

join_pipe_reader ==
    /\ At("join") /\ read
    /\ Goto("result")
    /\ UNCHANGED <<procs, read, timer, ground>>

-----------------------------------------------------------------------------
(* The agent step                                                          *)

Failed == {"failed"}
detect_changed_paths == {tree} \cup (IF DetectionFails THEN {Failed} ELSE {})

\* What was changed before the step is not its work; a failed detection is
\* taken for a clean workspace.
detect_initial_changed_paths(conf, seen) ==
    IF conf.existing \/ seen = Failed THEN {} ELSE seen

new_changed_paths(paths, initial) == paths \ initial

diff_requirements_met(paths, required) == paths # {} /\ required \subseteq paths

success_condition_met(conf, on_diff, initial, seen) ==
    \/ conf.file /\ file = "present"
    \/ /\ on_diff /\ seen # Failed
       /\ diff_requirements_met(new_changed_paths(seen, initial), conf.required)

\* Mutant: only the condition's present value counts.
diff_gate_fixable_now(st, seen) ==
    ~success_condition_met(st.conf, st.conf.gate, st.initial, seen)

\* Success is withheld when the condition held before, or does not hold now.
diff_gate_fixable(st, seen) ==
    st.met \/ ~success_condition_met(st.conf, st.conf.gate, st.initial, seen)

gated(st, outcome, seen) ==
    IF outcome = "Success" /\ gates_on_diff(st.conf) /\ diff_gate_fixable(st, seen)
    THEN "Fixable" ELSE outcome

\* LlxprtStepConfig::build, then a configured text in place of the agent.
execute_llxprt ==
    /\ At("start") /\ step.kind = "agent"
    /\ \E seen \in detect_changed_paths :
           LET conf == step.conf
               initial == detect_initial_changed_paths(conf, seen)
               ready == [step EXCEPT !.initial = initial,
                             !.met = ~conf.existing /\ success_condition_met(conf, conf.gate, {}, seen)]
           IN  CASE conf.static = "content" ->
                      /\ file' = "present" /\ gained' = TRUE
                      /\ step' = [ready EXCEPT !.pc = "ended",
                                               !.outcome = IF conf.file THEN "Success" ELSE "error"]
                 [] conf.static = "stdout" ->
                      /\ step' = [ready EXCEPT !.pc = "ended", !.outcome = gated(ready, "Success", seen)]
                      /\ UNCHANGED <<file, gained>>
                 [] OTHER -> /\ step' = [ready EXCEPT !.pc = "spawn"]
                             /\ UNCHANGED <<file, gained>>
    /\ UNCHANGED <<procs, read, timer, tree, edits>>

\* The condition must hold in two polls, the second after a minimum of time.
check_success_condition(st, seen) ==
    ~st.met /\ success_condition_met(st.conf, st.conf.early, st.initial, seen) /\ timer.ripe

\* Output since the last progress line resets the idle clock at every poll.
check_idle_timeout(st) == st.conf.idle /\ ~timer.fresh /\ timer.quiet

\* ProcessPoll::run, one turn of the loop, which asks for the exit of the leader
\* last but for the early stop.  Whoever leaves it goes to join.
poll_agent ==
    /\ At("wait") /\ step.kind = "agent"
    /\ \E seen \in detect_changed_paths :
           LET left == [step EXCEPT !.pc = "terminate", !.seen = step.marked]
               stop == timer.late \/ step.interrupted \/ check_idle_timeout(step) \/ step.marked
           IN  \/ stop /\ step' = left
               \/ ~stop /\ ~procs.main.live /\ step' = [left EXCEPT !.reaped = TRUE]
               \/ /\ ~stop /\ procs.main.live /\ check_success_condition(step, seen)
                  /\ step' = [left EXCEPT !.hit = TRUE]
    /\ UNCHANGED <<procs, read, timer, ground>>

\* The idle clock restarts at a poll that finds new output.
poll_resets_idle ==
    /\ At("wait") /\ step.kind = "agent" /\ ~timer.late /\ timer.fresh /\ timer.quiet
    /\ timer' = [timer EXCEPT !.quiet = FALSE]
    /\ UNCHANGED <<step, procs, read, ground>>

log_progress ==
    /\ At("wait") /\ step.kind = "agent" /\ ~timer.late /\ timer.fresh
    /\ timer' = [timer EXCEPT !.fresh = FALSE]
    /\ UNCHANGED <<step, procs, read, ground>>

timed_out(st) == timer.late /\ ~st.hit /\ ~st.seen
idle_timed_out(st) == st.conf.idle /\ timer.quiet /\ ~st.hit /\ ~st.seen

should_terminate(st) == st.interrupted \/ st.hit \/ st.seen \/ timed_out(st) \/ idle_timed_out(st)

terminate_agent ==
    /\ At("terminate")
    /\ procs' = IF should_terminate(step) THEN terminate_agent_tree(procs) ELSE procs
    /\ step' = [step EXCEPT !.pc = "join", !.signal = @ \/ (should_terminate(step) /\ procs.main.live)]
    /\ UNCHANGED <<read, timer, ground>>

\* A timed-out agent that left work is kept for a scope decision.
recover_partial_timeout(st, seen) ==
    IF seen # Failed /\ new_changed_paths(seen, st.initial) # {} /\ st.conf.scoped
    THEN "Wait" ELSE "Fatal"

resolve_no_diff_outcome(st) == IF st.conf.cont /\ Text # "blank" THEN "Success" ELSE "Fixable"

\* finish_llxprt_process reads the clocks again, after the readers are joined;
\* a marker in the last line counts as well.
classify_llxprt_outcome ==
    /\ At("result") /\ step.kind = "agent"
    /\ \E seen \in detect_changed_paths :
           LET st == [step EXCEPT !.seen = @ \/ step.marked] IN
           End(CASE st.seen -> gated(st, st.conf.marker, seen)
                 [] st.hit -> "Success"
                 [] timed_out(st) \/ idle_timed_out(st) -> recover_partial_timeout(st, seen)
                 [] st.signal \/ st.code # 0 -> mapped_nonzero_outcome("Fatal")
                 [] ~st.met /\ success_condition_met(st.conf, st.conf.gate, st.initial, seen) -> "Success"
                 [] gates_on_diff(st.conf) -> resolve_no_diff_outcome(st)
                 [] OTHER -> "Success")
    /\ UNCHANGED <<procs, read, timer, ground>>

-----------------------------------------------------------------------------
(* Readers, clocks and the processes themselves                            *)

Running == step.pc \in {"wait", "terminate", "readers", "cleanup", "join"}

\* The end of the output is seen once nobody holds the pipes.
spawn_reader ==
    /\ Running /\ ~read /\ Holders = {}
    /\ read' = TRUE
    /\ UNCHANGED <<step, procs, timer, ground>>

deadline_passes ==
    /\ Running /\ ~timer.late
    /\ timer' = [timer EXCEPT !.late = TRUE, !.quiet = step.conf.idle, !.ripe = step.kind = "agent"]
    /\ UNCHANGED <<step, procs, read, ground>>

time_passes ==
    /\ Running /\ step.kind = "agent"
    /\ \/ ~timer.ripe /\ timer' = [timer EXCEPT !.ripe = TRUE]
       \/ step.conf.idle /\ ~timer.quiet /\ timer' = [timer EXCEPT !.quiet = TRUE]
    /\ UNCHANGED <<step, procs, read, ground>>

interrupt ==
    /\ step.kind = "agent" /\ Running /\ ~step.interrupted
    /\ step' = [step EXCEPT !.interrupted = TRUE]
    /\ UNCHANGED <<procs, read, timer, ground>>

main_exits ==
    /\ procs.main.live
    /\ procs' = Kill(procs, {"main"})
    /\ \E code \in Codes, signal \in BOOLEAN :
           step' = [step EXCEPT !.code = IF signal THEN 0 ELSE code, !.signal = signal]
    /\ UNCHANGED <<read, timer, ground>>

descendant_exits(p) ==
    /\ ~At("ended") /\ procs[p].live /\ procs' = Kill(procs, {p})
    /\ UNCHANGED <<step, read, timer, ground>>

\* A process that ignores TERM matters where no KILL follows.
forks(p) ==
    /\ Running /\ procs[ParentOf(p)].live /\ ~procs[p].live
    /\ \E deaf \in {FALSE, step.kind = "shell" /\ p = "child"},
           holds \in {FALSE, procs[ParentOf(p)].holds} :
           procs' = [procs EXCEPT ![p] = [live |-> TRUE, group |-> procs[ParentOf(p)].group,
                                          deaf |-> deaf, holds |-> holds]]
    /\ UNCHANGED <<step, read, timer, ground>>

closes_output(p) ==
    /\ Running /\ procs[p].live /\ procs[p].holds
    /\ procs' = [procs EXCEPT ![p].holds = FALSE]
    /\ UNCHANGED <<step, read, timer, ground>>

leaves_group(p) ==
    /\ Running /\ procs[p].live /\ procs[p].group /\ step.kind # "shell"
    /\ procs' = [procs EXCEPT ![p].group = FALSE]
    /\ UNCHANGED <<step, read, timer, ground>>

\* Output, which for the agent may be the configured marker.
prints ==
    /\ Running /\ ~read /\ Holders # {}
    /\ \E out \in {"good", "bad"} :
           step' = [step EXCEPT !.out = out, !.marked = @ \/ (step.conf.marker # "none" /\ out = "good")]
    /\ timer' = [timer EXCEPT !.fresh = step.conf.idle]
    /\ step' # step
    /\ UNCHANGED <<procs, read, ground>>

\* Only processes of the step change the workspace, and whoever of them lives
\* may do so at any time.
edits_workspace ==
    /\ ~At("ended") /\ Alive # {} /\ edits < MaxEdits /\ edits' = edits + 1
    /\ \/ \E q \in {q \in Paths : step.kind = "agent"} :
              /\ tree' = IF q \in tree THEN tree \ {q} ELSE tree \cup {q}
              /\ gained' = (gained \/ q \notin tree) /\ UNCHANGED file
       \/ /\ file = "absent" /\ Asks /\ file' = "present" /\ gained' = TRUE /\ UNCHANGED tree
       \/ /\ file = "present" /\ file' = "absent" /\ UNCHANGED <<tree, gained>>
    /\ UNCHANGED <<step, procs, read, timer>>

-----------------------------------------------------------------------------
Executor ==
    \/ execute_manifest_group \/ resolve_shell_stdin \/ execute_llxprt
    \/ run_manifest_entry \/ legacy_check \/ skipped_manifest_check \/ diff_gate_result
    \/ manifest_process_result \/ completed_legacy_result \/ resolve_shell_outcome
    \/ spawn_manifest_child \/ wait_for_manifest_child \/ wait_for_reader_after_process_exit
    \/ wait_for_reader_after_cleanup \/ join_stdin_writer \/ join_pipe_reader
    \/ poll_agent \/ poll_resets_idle \/ log_progress \/ terminate_agent \/ classify_llxprt_outcome

Environment ==
    \/ time_passes \/ interrupt \/ main_exits \/ prints \/ edits_workspace
    \/ closes_output("main") \/ descendant_exits("stray")
    \/ \E p \in Descendants :
           descendant_exits(p) \/ forks(p) \/ leaves_group(p) \/ closes_output(p)

Next == Executor \/ spawn_reader \/ deadline_passes \/ Environment

Spec == Init /\ [][Next]_vars

\* The executor's thread and its readers run, and the clock advances; nothing
\* is assumed of the processes, which may go on for ever.
FairSpec == Spec /\ WF_vars(Executor) /\ WF_vars(spawn_reader) /\ WF_vars(deadline_passes)

-----------------------------------------------------------------------------
(* Properties: StepState, and                                              *)

\* Whom the end of the wait does not kill: a process outside the group; one of
\* a shell command that pkill -P does not reach or that ignores its TERM; and
\* everyone once the leader has exited by itself, since then nobody is signalled
\* (verify.rs: run_command_with_timeout; a manifest entry does not join).
Spared(p) ==
    \/ ~procs[p].group \/ step.reaped
    \/ step.kind = "shell" /\ (p = "deep" \/ procs[p].deaf)

=============================================================================
