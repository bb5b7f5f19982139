---------------------------- MODULE MCEngineRunner ----------------------------
(* EngineRunner on a small workflow: work, verification that can send it back
   or ask for itself again, a wait for the pull request's checks, a cleanup. *)
EXTENDS EngineRunner

FourSteps == <<"implement", "verify", "watch_pr_checks", "cleanup">>

Edge(from, on, to, limit) == [from |-> from, to |-> to, on |-> on, limit |-> limit]

SmallWorkflow ==
    <<Edge("implement", "any", "verify", {}),
      Edge("implement", "fatal", "cleanup", {}),
      Edge("verify", "success", "watch_pr_checks", {}),
      Edge("verify", "fixable", "implement", {1}),
      Edge("watch_pr_checks", "fixable", "implement", {1}),
      Edge("watch_pr_checks", "fatal", "cleanup", {})>>

Cleanup == {"cleanup"}
Watch == {"watch_pr_checks"}

SmallOutcomes ==
    [s \in Steps |->
        CASE s = "implement" -> {"success", "fatal"}
          [] s = "verify" -> {"success", "fixable"}
          [] s = "watch_pr_checks" -> {"success", "wait", "fixable", "fatal"}
          [] s = "cleanup" -> {"success", "fatal"}]

----------------------------------------------------------------------------
(* The validators on inputs of their own, evaluated before the run.         *)

Three == {"a", "b", "c"}
Links == <<<<"a", "a">>, <<"a", "b">>, <<"a", "c">>, <<"b", "a">>, <<"b", "b">>,
           <<"b", "c">>, <<"c", "a">>, <<"c", "b">>, <<"c", "c">>>>

\* Reachability against its definition, on every graph of three steps: the
\* least set that holds the start and that no edge leaves.
ASSUME ReachabilityIsClosure ==
    \A edges \in SUBSET (Three \X Three) :
        LET links == SelectSeq(Links, LAMBDA l : l \in edges)
            wf == [transitions |-> [k \in DOMAIN links |->
                       [from |-> links[k][1], to |-> links[k][2]]]]
            closed == {C \in SUBSET Three : \A e \in edges : e[1] \in C => e[2] \in C}
        IN  \A s \in Three : compute_reachable_steps(wf, s) =
                {n \in Three : \A C \in closed : s \in C => n \in C}

PlainStep(id) == [id |-> id, type |-> id, terminal |-> FALSE, cap |-> {3}]

\* The pull request part of the shipped workflow, in outline.
FollowUp ==
    [id |-> "follow_up",
     steps |-> <<PlainStep("capture_pr_identity"), PlainStep("watch_pr_checks"),
                 PlainStep("collect_ci_failures"), PlainStep("collect_coderabbit_feedback"),
                 PlainStep("post_pr_iteration_guard"), PlainStep("post_pr_failure_terminal"),
                 PlainStep("abandon_and_log")>>,
     transitions |->
         <<Edge("capture_pr_identity", "any", "watch_pr_checks", {}),
           Edge("watch_pr_checks", "fatal", "collect_ci_failures", {}),
           Edge("watch_pr_checks", "success", "collect_coderabbit_feedback", {}),
           Edge("collect_ci_failures", "any", "collect_coderabbit_feedback", {}),
           Edge("collect_coderabbit_feedback", "fixable", "post_pr_iteration_guard", {}),
           Edge("collect_coderabbit_feedback", "fatal", "post_pr_failure_terminal", {}),
           Edge("post_pr_iteration_guard", "success", "watch_pr_checks", {3})>>]

Extended(edge) == [FollowUp EXCEPT !.transitions = Append(@, edge)]

\* It is valid with its isolated cleanup step, and each of these is refused: the
\* collectors bypassed, an abandoned pull request, a failure that skips the
\* terminal, two targets for one outcome, an unlimited loop, a way out of the
\* terminal step, a guard without a cap.
ASSUME FollowUpIsValid ==
    /\ validate_workflow_type(FollowUp)
    /\ \A edge \in {Edge("watch_pr_checks", "fixable", "abandon_and_log", {}),
                    Edge("watch_pr_checks", "abandon", "post_pr_failure_terminal", {}),
                    Edge("collect_ci_failures", "retryable", "post_pr_iteration_guard", {}),
                    Edge("capture_pr_identity", "success", "post_pr_failure_terminal", {}),
                    Edge("post_pr_iteration_guard", "fixable", "watch_pr_checks", {}),
                    Edge("post_pr_failure_terminal", "success", "abandon_and_log", {}),
                    Edge("capture_pr_identity", "wait", "nowhere", {})} :
           ~validate_workflow_type(Extended(edge))
    /\ ~validate_workflow_type([FollowUp EXCEPT !.transitions = SubSeq(@, 4, 7)])
    /\ ~validate_workflow_type([FollowUp EXCEPT !.steps[5].cap = {}])
=============================================================================
