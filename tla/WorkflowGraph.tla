---------------------------- MODULE WorkflowGraph ----------------------------
(***************************************************************************)
(* A workflow type and the checks it passes before an engine is built on   *)
(* it: workflow/validation.rs, and the type, token and artifact checks of  *)
(* workflow/config_loader.rs.  Everything here is a pure function of the   *)
(* definition wf:                                                          *)
(*   wf.id          workflow_type_id, "" when empty                        *)
(*   wf.steps       sequence of [id, type, terminal, cap, uses, context,   *)
(*                  produces, consumes]                                    *)
(*   wf.transitions sequence of [from, to, on, limit]                      *)
(* on is "any" for a transition without a condition; cap and limit are {}  *)
(* or {n}; a variable is <<name>> or <<step, name>>.  A validator is the   *)
(* predicate that it reports no error.                                     *)
(***************************************************************************)
EXTENDS Naturals, Sequences

PostPrEntry == "capture_pr_identity"
PrePrCleanupTerminal == "abandon_and_log"
PostPrFailureTerminal == "post_pr_failure_terminal"
RequiredCollectors == {"collect_ci_failures", "collect_coderabbit_feedback"}
PostPrIterationGuard == "post_pr_iteration_guard"

StepDefs(wf) == {wf.steps[k] : k \in DOMAIN wf.steps}
TransitionDefs(wf) == {wf.transitions[k] : k \in DOMAIN wf.transitions}

step_id_set(wf) == {d.id : d \in StepDefs(wf)}

\* "any", a missing condition, is no outcome.
Outcomes == {"success", "retryable", "fatal", "fixable", "abandon", "wait"}

\* A transition without a condition is taken on success.
effective_condition(t) == IF t.on = "any" THEN "success" ELSE t.on

----------------------------------------------------------------------------
(* What the engine does with the table (engine/runner.rs, transition.rs).   *)

Matches(t, s, o) == t.from = s /\ (t.on = o \/ (t.on = "any" /\ o = "success"))

\* The first transition of the step whose condition is the outcome; as a set
\* that is empty when there is none.
FirstMatch(wf, s, o) ==
    LET hits == {k \in DOMAIN wf.transitions : Matches(wf.transitions[k], s, o)}
    IN  {wf.transitions[k] : k \in {j \in hits : \A i \in hits : j <= i}}

\* steps.iter().position: the first step of that name.
Position(wf, s) ==
    CHOOSE k \in DOMAIN wf.steps :
        wf.steps[k].id = s /\ \A j \in DOMAIN wf.steps : wf.steps[j].id = s => k <= j

\* The runner's loop-back: an unknown step is never one.
LoopsBack(wf, s, n) ==
    {s, n} \subseteq step_id_set(wf) /\ Position(wf, n) <= Position(wf, s)

----------------------------------------------------------------------------
(* workflow/validation.rs.                                                  *)

validate_transitions_reference_valid_steps(wf) ==
    \A t \in TransitionDefs(wf) : {t.from, t.to} \subseteq step_id_set(wf)

\* Two transitions of one outcome may agree on the target, not differ.
validate_no_duplicate_outcomes(wf) ==
    \A t, u \in TransitionDefs(wf) :
        t.from = u.from /\ effective_condition(t) = effective_condition(u) => t.to = u.to

\* The depth-first search, as the rounds it takes at most: one per transition.
compute_reachable_steps(wf, start) ==
    LET seen[n \in 0..Len(wf.transitions)] ==
            IF n = 0 THEN {start}
            ELSE LET before == seen[n - 1]
                 IN  before \cup {t.to : t \in {u \in TransitionDefs(wf) : u.from \in before}}
    IN  seen[Len(wf.transitions)]

\* A step without any edge is exempt.
validate_all_steps_reachable(wf) ==
    wf.steps # <<>> =>
        \A s \in step_id_set(wf) :
            \/ s \in compute_reachable_steps(wf, wf.steps[1].id)
            \/ \A t \in TransitionDefs(wf) : s \notin {t.from, t.to}

is_post_pr_graph(wf) ==
    \/ PostPrEntry \in step_id_set(wf)
    \/ \E t \in TransitionDefs(wf) : PostPrEntry \in {t.from, t.to}

compute_post_pr_reachable_steps(wf) == compute_reachable_steps(wf, PostPrEntry)

\* After the pull request exists nothing is abandoned, and a failure goes to the
\* post-PR terminal, unless it is the watch step's.
validate_post_pr_routes(wf) ==
    is_post_pr_graph(wf) =>
        \A t \in TransitionDefs(wf) :
            t.from \in compute_post_pr_reachable_steps(wf) =>
                /\ t.to # PrePrCleanupTerminal
                /\ t.on # "abandon"
                /\ t.on \in {"fatal", "retryable"} =>
                       t.to = PostPrFailureTerminal \/ t.from = "watch_pr_checks"

validate_required_collectors_present_and_reachable(wf) ==
    is_post_pr_graph(wf) =>
        RequiredCollectors \subseteq step_id_set(wf) \cap compute_post_pr_reachable_steps(wf)

is_terminal_step(d) == d.terminal \/ d.type = PostPrFailureTerminal

\* index_of: a HashMap, so the last step of that name.
IndexOf(wf, s) ==
    CHOOSE k \in DOMAIN wf.steps :
        wf.steps[k].id = s /\ \A j \in DOMAIN wf.steps : wf.steps[j].id = s => j <= k

validate_loop_back_limits(wf) ==
    \A t \in TransitionDefs(wf) :
        {t.from, t.to} \subseteq step_id_set(wf) /\ IndexOf(wf, t.to) <= IndexOf(wf, t.from)
            => t.limit # {}

validate_terminal_steps(wf) ==
    \A d \in StepDefs(wf) :
        is_terminal_step(d) => \A t \in TransitionDefs(wf) : t.from # d.id

\* A cleanup is terminal, not the first step, and entered only on an explicit
\* failure outcome, of which there is at least one.
validate_failure_cleanup_steps(wf) ==
    \A d \in StepDefs(wf) :
        d.type = "failure_cleanup" =>
            LET incoming == {t \in TransitionDefs(wf) : t.to = d.id}
            IN  /\ d.terminal
                /\ wf.steps[1].id # d.id
                /\ incoming # {}
                /\ \A t \in incoming : t.on \in {"fatal", "retryable", "fixable"}

validate_pr_remediation_caps(wf) ==
    \A d \in StepDefs(wf) :
        d.type = PostPrIterationGuard => \E n \in d.cap : n > 0

validate_workflow_graph(wf) ==
    /\ validate_transitions_reference_valid_steps(wf)
    /\ validate_no_duplicate_outcomes(wf)
    /\ validate_all_steps_reachable(wf)
    /\ validate_post_pr_routes(wf)
    /\ validate_required_collectors_present_and_reachable(wf)
    /\ validate_loop_back_limits(wf)
    /\ validate_terminal_steps(wf)
    /\ validate_failure_cleanup_steps(wf)
    /\ validate_pr_remediation_caps(wf)

----------------------------------------------------------------------------
(* workflow/config_loader.rs.                                               *)

validate_workflow_type(wf) ==
    /\ wf.id # ""
    /\ wf.steps # <<>>
    /\ \A d \in StepDefs(wf) : d.id # "" /\ d.type # ""
    /\ validate_workflow_graph(wf)

validate_config_matches_type(config, wf) == config.type_id = wf.id

\* Step outputs are known under their own name and under the step's.
Outputs(d, names) == {<<n>> : n \in names} \cup {<<d.id, n>> : n \in names}

register_context_map_outputs(d) == Outputs(d, d.context)

known_executor_outputs(type) ==
    IF type = "github_pr_identity"
    THEN {"repository_owner", "repository_name", "pr_number", "head_ref", "head_sha",
          "base_ref", "base_sha"}
    ELSE {}

register_known_executor_outputs(d) == Outputs(d, known_executor_outputs(d.type))

BuiltIns ==
    {<<n>> : n \in {"work_dir", "repo_root", "project_subdir", "project_dir",
                    "artifact_base_dir", "diff_path_base", "diff_path_base_dir",
                    "diff_path_normalization", "run_id", "current_step_id",
                    "failed_work_step", "failed_work_outcome"}}

\* keys: the names of the config's variables.
build_available_variables(wf, keys) ==
    LET known == {<<n>> : n \in keys} \cup BuiltIns
                 \cup UNION {register_context_map_outputs(d) \cup
                             register_known_executor_outputs(d) : d \in StepDefs(wf)}
    IN  known \cup (IF <<"primary_issue_number">> \in known THEN {<<"issue_number">>} ELSE {})

\* Exact match: a namespaced variable is not looked up by its bare name.
validate_step_tokens(d, available) == d.uses \ available

validate_workflow_tokens(wf, keys) ==
    UNION {validate_step_tokens(d, build_available_variables(wf, keys)) : d \in StepDefs(wf)}

\* The artifacts that a step consumes and no step produces; order plays no part.
validate_artifact_dependencies(wf) ==
    UNION {d.consumes : d \in StepDefs(wf)} \ UNION {d.produces : d \in StepDefs(wf)}
=============================================================================
