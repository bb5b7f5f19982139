------------------------- MODULE EngineRunnerProofs -------------------------
(***************************************************************************)
(* Safety of one run of the engine, for every valid workflow, every limit  *)
(* and every number of deaths and continuations: the limits of the loop    *)
(* edges, the provenance of a cleanup and the proof behind a merged run,   *)
(* after what validation guarantees of the workflow's graph; and, in the   *)
(* last part, safety of the steps it executes.                             *)
(***************************************************************************)
EXTENDS EngineRunner, StepState, WellFoundedInduction, SequenceTheorems, TLAPS

-----------------------------------------------------------------------------
(* What a workflow type that passed validation means for the engine that   *)
(* runs it, for every workflow: the checks of workflow/validation.rs are   *)
(* stated about the table, the theorems about the routes the runner takes. *)

StepRecord == [id : STRING, type : STRING, terminal : BOOLEAN, cap : SUBSET Nat,
               uses : SUBSET Seq(STRING), context : SUBSET STRING,
               produces : SUBSET STRING, consumes : SUBSET STRING]
TransitionRecord == [from : STRING, to : STRING, on : STRING, limit : SUBSET Nat]

\* A parsed definition.
WorkflowType ==
    [id : STRING, steps : Seq(StepRecord), transitions : Seq(TransitionRecord)]

\* No two steps share an id.  The loader does not check this.
DistinctSteps(wf) ==
    \A i, j \in DOMAIN wf.steps : wf.steps[i].id = wf.steps[j].id => i = j

\* The transition the runner follows is one of the table's and matches.
LEMMA FirstMatchInTable ==
    ASSUME NEW wf, NEW s, NEW o, NEW t \in FirstMatch(wf, s, o)
    PROVE  t \in TransitionDefs(wf) /\ Matches(t, s, o)
BY DEF FirstMatch, TransitionDefs

\* A match is on the effective condition.
LEMMA MatchIsEffective ==
    ASSUME NEW t, NEW s, NEW o \in Outcomes, Matches(t, s, o)
    PROVE  t.from = s /\ effective_condition(t) = o
BY DEF Matches, effective_condition, Outcomes

\* In a valid workflow the order of the transitions does not matter: whichever
\* transition of a step matches an outcome, the run goes to the same step as by
\* the first, which is the one find_transition takes.
THEOREM RoutesAreDeterministic ==
    ASSUME NEW wf, validate_workflow_graph(wf),
           NEW s, NEW o \in Outcomes, NEW t \in FirstMatch(wf, s, o),
           NEW u \in TransitionDefs(wf), Matches(u, s, o)
    PROVE  t.to = u.to
<1>1. t \in TransitionDefs(wf) /\ Matches(t, s, o)
  BY FirstMatchInTable
<1>2. t.from = u.from /\ effective_condition(t) = effective_condition(u)
  BY <1>1, MatchIsEffective
<1>. QED
  BY <1>1, <1>2 DEF validate_workflow_graph, validate_no_duplicate_outcomes

\* In a valid workflow the runner enters a failure cleanup only on an outcome
\* that is a failure, never on success and never as its first step: the
\* failure it is to record exists.
THEOREM CleanupOnlyOnFailure ==
    ASSUME NEW wf, validate_workflow_graph(wf),
           NEW d \in StepDefs(wf), d.type = "failure_cleanup",
           NEW s, NEW o \in Outcomes, NEW t \in FirstMatch(wf, s, o), t.to = d.id
    PROVE  o \in {"fatal", "retryable", "fixable"} /\ wf.steps[1].id # d.id
<1>1. t \in TransitionDefs(wf) /\ Matches(t, s, o)
  BY FirstMatchInTable
<1>2. t.on \in {"fatal", "retryable", "fixable"} /\ wf.steps[1].id # d.id
  BY <1>1 DEF validate_workflow_graph, validate_failure_cleanup_steps
<1>3. o = t.on
  BY <1>1, <1>2 DEF Matches
<1>. QED
  BY <1>2, <1>3

\* A run of a valid workflow ends at a terminal step, whatever its outcome.
THEOREM TerminalStepEndsRun ==
    ASSUME NEW wf, validate_workflow_graph(wf),
           NEW d \in StepDefs(wf), is_terminal_step(d), NEW o
    PROVE  FirstMatch(wf, d.id, o) = {}
<1>1. ASSUME NEW t \in FirstMatch(wf, d.id, o) PROVE FALSE
  <2>1. t \in TransitionDefs(wf) /\ t.from = d.id
    BY <1>1, FirstMatchInTable DEF Matches
  <2>. QED
    BY <2>1 DEF validate_workflow_graph, validate_terminal_steps
<1>. QED
  BY <1>1

\* With distinct step ids, both indices of a step are its only one.
LEMMA IndicesAgree ==
    ASSUME NEW wf \in WorkflowType, DistinctSteps(wf), NEW s \in step_id_set(wf)
    PROVE  Position(wf, s) = IndexOf(wf, s)
<1>1. PICK k \in DOMAIN wf.steps : wf.steps[k].id = s
  BY DEF step_id_set, StepDefs
<1>2. \A j \in DOMAIN wf.steps : wf.steps[j].id = s => j = k
  BY <1>1 DEF DistinctSteps
<1>3. DOMAIN wf.steps \subseteq Nat
  BY DEF WorkflowType
<1>4. Position(wf, s) = k
  BY <1>1, <1>2, <1>3 DEF Position
<1>5. IndexOf(wf, s) = k
  BY <1>1, <1>2, <1>3 DEF IndexOf
<1>. QED
  BY <1>4, <1>5

\* Every loop the runner can take in a valid workflow has a limit of its own;
\* the global default of max_iterations is never the one that stops it.  This
\* needs distinct step ids: validation looks up the last step of a name, the
\* runner the first.
THEOREM LoopsAreCapped ==
    ASSUME NEW wf \in WorkflowType, validate_workflow_graph(wf), DistinctSteps(wf),
           NEW s, NEW o \in Outcomes, NEW t \in FirstMatch(wf, s, o),
           LoopsBack(wf, s, t.to)
    PROVE  t.limit # {}
<1>1. t \in TransitionDefs(wf) /\ t.from = s
  BY FirstMatchInTable DEF Matches
<1>2. {s, t.to} \subseteq step_id_set(wf) /\ Position(wf, t.to) <= Position(wf, s)
  BY DEF LoopsBack
<1>3. Position(wf, s) = IndexOf(wf, s) /\ Position(wf, t.to) = IndexOf(wf, t.to)
  BY <1>2, IndicesAgree
<1>. QED
  BY <1>1, <1>2, <1>3 DEF validate_workflow_graph, validate_loop_back_limits

-----------------------------------------------------------------------------
(* The types of a run                                                      *)

RunStatus == {"none", "starting", "running", "review_ready", "completed", "merged", "failed",
              "abandoned", "paused", "waiting_external", "ready_to_resume"}
LeaseState == {"none", "running", "completed", "failed", "abandoned", "cleanup_abandoned",
               "waiting_external", "ready_to_resume", "taken"}
Phases == {"off", "starting", "ready", "executing", "executed", "routed", "completing",
           "merging", "proved", "ended"}
Completions == {"success", "failure", "abandoned", "interrupted", "waiting_external"}

SomeStep == Steps \cup {NoStep}
FailureState == [step : SomeStep, to : SomeStep, done : BOOLEAN, denied : BOOLEAN]
RunRow == [status : RunStatus, current : SomeStep, fail : FailureState, live : BOOLEAN,
           wait : SomeStep]
Counts == [Edges -> Nat]
CheckpointStatus == {"none", "completed", "interrupted", "waiting", "ready_to_resume"}
Checkpoint == [status : CheckpointStatus, counts : Counts, bound : BOOLEAN]
Runner == [phase : Phases, step : SomeStep, outcome : Outcomes,
           result : Completions \cup {"none", "error"}, counts : Counts,
           by : {"daemon", "cli", "operator"}]

RowType ==
    /\ row \in RunRow
    /\ runner \in Runner
    /\ lease \in LeaseState
    /\ owned \in BOOLEAN
    /\ pr \in {"open", "merged", "other"}
    /\ artifact \in BOOLEAN

StoreType ==
    /\ ckpt \in [Steps -> Checkpoint]
    /\ order \in Seq(Steps)
    /\ traversed \in Counts
    /\ lost \in Nat /\ deaths \in Nat /\ resumes \in Nat

\* The phases of an execution and the rows they have written.
PhaseInv ==
    /\ ~At("off") => runner.step \in Steps /\ row.status # "none"
    /\ row.status = "none" => order = <<>>
    /\ row.status # "none" => row.current \in Steps
    /\ At("starting") => runner.step = StepSeq[1]
    /\ runner.phase \in {"executing", "executed"} => row.current = runner.step
    /\ At("completing") => runner.result \in Completions
    /\ At("ended") => runner.result # "none"
    /\ row.status = "merged" => runner.phase \in {"ended", "off"}

TypeInv == RowType /\ StoreType /\ PhaseInv

\* What is recorded of a failure on its way to its cleanup.
FailInv ==
    /\ \/ row.fail = NoFailure
       \/ row.fail.step \in Steps \ CleanupSteps /\ row.fail.to \in CleanupSteps
    /\ row.fail.denied =>
          ~row.fail.done /\ row.status = "failed" /\ runner.phase \in {"ended", "off"}
    /\ row.status = "ready_to_resume" /\ row.current \in CleanupSteps =>
          row.fail.to = row.current
    /\ At("routed") /\ routes_to_cleanup(runner.step, runner.outcome) =>
          /\ row.fail.to \in resolve_next_step(runner.step, runner.outcome)
          /\ identity_current

\* A run never waits in a cleanup.
WaitInv ==
    /\ row.wait \notin CleanupSteps
    /\ \A s \in CleanupSteps : ckpt[s].status # "waiting"
    /\ runner.result = "waiting_external" =>
          /\ runner.phase \in {"completing", "ended"}
          /\ order # <<>> /\ Last(order) \notin CleanupSteps

UpperLimit(e, n) == \A m \in LimitsOf[e] : m <= n

\* The counts that an execution starts from or would be resumed with.
CurrentCounts == IF runner.phase \in {"off", "ended"} THEN load_checkpoint_state ELSE runner.counts

\* Counts that no limit forbids and that were really traversed.
WithinLimits(c) ==
    \A e \in Edges :
        c[e] <= traversed[e] /\ \A n \in Nat : UpperLimit(e, n) => c[e] <= n

\* Counts, saved or in memory, are within the limits; what they miss of the
\* traversals was lost, at most one budget at a time.
CountInv ==
    /\ WithinLimits(runner.counts)
    /\ \A s \in Steps : WithinLimits(ckpt[s].counts)
    /\ runner.phase \in {"routed", "completing", "merging", "proved"} =>
          runner.counts = load_checkpoint_state
    /\ \A e \in Edges : \A n \in Nat :
          UpperLimit(e, n) => traversed[e] <= CurrentCounts[e] + n * lost

----------------------------------------------------------------------------
(* The table of a valid workflow.                                           *)

LEMMA StepSeqNotEmpty == Len(StepSeq) \in Nat \ {0} /\ DOMAIN StepSeq = 1 .. Len(StepSeq)
<1>1. StepSeq \in Seq(STRING) /\ Workflow.steps # <<>>
  BY EngineAssumption DEF validate_workflow_type
<1>2. ASSUME StepSeq = <<>> PROVE FALSE
  <2>1. Workflow.steps = <<>>
    BY <1>2 DEF Workflow
  <2>. QED  BY <1>1, <2>1
<1>. QED  BY <1>1, <1>2

\* A step of the sequence is a step definition, and a cleanup is of its type.
LEMMA StepDefOf ==
    ASSUME NEW s \in Steps
    PROVE  \E d \in StepDefs(Workflow) :
              /\ d.id = s
              /\ s \in CleanupSteps => d.type = "failure_cleanup" /\ d.terminal
<1>1. PICK k \in DOMAIN StepSeq : StepSeq[k] = s
  BY DEF Steps
<1>2. k \in DOMAIN Workflow.steps
  BY DEF Workflow
<1>3. /\ Workflow.steps[k].id = s
      /\ s \in CleanupSteps => Workflow.steps[k].type = "failure_cleanup" /\ Workflow.steps[k].terminal
  BY <1>1 DEF Workflow
<1>. QED  BY <1>2, <1>3 DEF StepDefs

LEMMA TableIsValid == validate_workflow_graph(Workflow)
BY EngineAssumption DEF validate_workflow_type

\* The run does not start in a cleanup.
LEMMA FirstStep == StepSeq[1] \in Steps \ CleanupSteps
<1>1. StepSeq[1] \in Steps
  BY StepSeqNotEmpty DEF Steps
<1>2. ASSUME StepSeq[1] \in CleanupSteps PROVE FALSE
  <2>1. PICK d \in StepDefs(Workflow) : d.id = StepSeq[1] /\ d.type = "failure_cleanup"
    BY <1>1, <1>2, StepDefOf
  <2>2. Workflow.steps[1].id # d.id
    BY <2>1, TableIsValid DEF validate_workflow_graph, validate_failure_cleanup_steps
  <2>. QED  BY <2>1, <2>2, StepSeqNotEmpty DEF Workflow
<1>. QED  BY <1>1, <1>2

\* What find_transition returns.
LEMMA Found ==
    ASSUME NEW s \in Steps, NEW o \in Outcomes, NEW t \in find_transition(s, o)
    PROVE  /\ t.from = s /\ t.to \in Steps /\ t.limit \subseteq Nat
           /\ <<s, t.to>> \in Edges
           /\ find_transition(s, o) = {t}
           /\ s \notin CleanupSteps
           /\ t.to \in CleanupSteps => o \in {"fatal", "retryable", "fixable"}
<1>1. t \in TransitionDefs(Workflow) /\ Matches(t, s, o)
  BY FirstMatchInTable DEF find_transition
<1>2. PICK k \in DOMAIN Transitions : t = Transitions[k]
  BY <1>1 DEF TransitionDefs, Workflow
<1>3. t \in [from : Steps, to : Steps, on : Outcomes \cup {"any"}, limit : SUBSET Nat]
  <2>. DEFINE T == [from : Steps, to : Steps, on : Outcomes \cup {"any"}, limit : SUBSET Nat]
  <2>1. Transitions \in Seq(T)
    BY EngineAssumption
  <2>. HIDE DEF T
  <2>2. Transitions[k] \in T
    BY <1>2, <2>1
  <2>. QED  BY <1>2, <2>2 DEF T
<1>4. t.from = s /\ t.to \in Steps /\ t.limit \subseteq Nat
  BY <1>1, <1>3 DEF Matches
<1>5. <<s, t.to>> \in Edges
  BY <1>2, <1>4 DEF Edges
<1>6. DOMAIN Transitions \subseteq Nat
  BY EngineAssumption
<1>7. ASSUME NEW u \in find_transition(s, o) PROVE u = t
  BY <1>6, <1>7 DEF find_transition, FirstMatch, Workflow
<1>8. ASSUME s \in CleanupSteps PROVE FALSE
  <2>1. PICK d \in StepDefs(Workflow) : d.id = s /\ d.terminal
    BY <1>8, StepDefOf
  <2>2. FirstMatch(Workflow, d.id, o) = {}
    BY <2>1, TableIsValid, TerminalStepEndsRun DEF is_terminal_step
  <2>. QED  BY <2>1, <2>2 DEF find_transition
<1>9. ASSUME t.to \in CleanupSteps PROVE o \in {"fatal", "retryable", "fixable"}
  <2>1. PICK d \in StepDefs(Workflow) : d.id = t.to /\ d.type = "failure_cleanup"
    BY <1>4, <1>9, StepDefOf
  <2>. QED  BY <2>1, TableIsValid, CleanupOnlyOnFailure DEF find_transition
<1>. QED  BY <1>4, <1>5, <1>7, <1>8, <1>9

\* The limit of a transition is one of its edge's.
LEMMA LimitOfEdge ==
    ASSUME NEW s \in Steps, NEW o \in Outcomes, NEW t \in find_transition(s, o)
    PROVE  edge_limit(t) \in Nat /\ edge_limit(t) \in LimitsOf[<<s, t.to>>]
<1>1. PICK k \in DOMAIN Transitions : t = Transitions[k]
  BY FirstMatchInTable DEF find_transition, TransitionDefs, Workflow
<1>2. t.from = s /\ t.limit \subseteq Nat /\ <<s, t.to>> \in Edges
  BY Found
<1>3. edge_limit(t) \in Nat
  BY <1>2, EngineAssumption DEF edge_limit
<1>. QED  BY <1>1, <1>2, <1>3 DEF LimitsOf

----------------------------------------------------------------------------
(* The checkpoints and the step a continuation starts from.                 *)

\* Writing the checkpoint of s makes it the newest and forgets no step.
LEMMA WriteOrder ==
    ASSUME order \in Seq(Steps), NEW s \in Steps
    PROVE  /\ Append(Others(s), s) \in Seq(Steps)
           /\ Append(Others(s), s) # <<>>
           /\ Last(Append(Others(s), s)) = s
           /\ Range(Append(Others(s), s)) = Stored \cup {s}
<1>1. Others(s) \in Seq(Steps) /\ Range(Others(s)) \cup {s} = Stored \cup {s}
  <2>1. CASE ~\E k \in DOMAIN order : order[k] = s
    BY <2>1 DEF Others, Stored
  <2>2. CASE \E k \in DOMAIN order : order[k] = s
    <3>. DEFINE k == CHOOSE j \in DOMAIN order : order[j] = s
                R == RemoveAt(order, k)
    <3>1. k \in 1 .. Len(order) /\ order[k] = s /\ Len(order) \in Nat /\ Others(s) = R
      BY <2>2 DEF Others
    <3>. HIDE DEF k
    <3>2. /\ SubSeq(order, 1, k - 1) \in Seq(Steps)
          /\ Len(SubSeq(order, 1, k - 1)) = k - 1
          /\ \A i \in 1 .. k - 1 : SubSeq(order, 1, k - 1)[i] = order[i]
      BY <3>1
    <3>3. /\ SubSeq(order, k + 1, Len(order)) \in Seq(Steps)
          /\ Len(SubSeq(order, k + 1, Len(order))) = Len(order) - k
          /\ \A i \in 1 .. Len(order) - k :
                SubSeq(order, k + 1, Len(order))[i] = order[k + i]
      BY <3>1
    <3>4. /\ R \in Seq(Steps)
          /\ Len(R) = Len(order) - 1
          /\ \A i \in 1 .. Len(order) - 1 : R[i] = IF i < k THEN order[i] ELSE order[i + 1]
      <4>. DEFINE A == SubSeq(order, 1, k - 1)
                  B == SubSeq(order, k + 1, Len(order))
      <4>1. R = A \o B
        BY DEF RemoveAt
      <4>2. /\ A \in Seq(Steps) /\ Len(A) = k - 1 /\ \A i \in 1 .. k - 1 : A[i] = order[i]
            /\ B \in Seq(Steps) /\ Len(B) = Len(order) - k
            /\ \A i \in 1 .. Len(order) - k : B[i] = order[k + i]
        BY <3>2, <3>3
      <4>. HIDE DEF R, A, B
      <4>3. /\ A \o B \in Seq(Steps) /\ Len(A \o B) = Len(order) - 1
            /\ \A i \in 1 .. Len(order) - 1 :
                  (A \o B)[i] = IF i <= k - 1 THEN A[i] ELSE B[i - (k - 1)]
        <5>1. /\ A \o B \in Seq(Steps) /\ Len(A \o B) = Len(A) + Len(B)
              /\ \A i \in 1 .. Len(A) + Len(B) :
                    (A \o B)[i] = IF i <= Len(A) THEN A[i] ELSE B[i - Len(A)]
          BY <4>2, ConcatProperties
        <5>2. Len(A) + Len(B) = Len(order) - 1
          BY <3>1, <4>2
        <5>. QED  BY <4>2, <5>1, <5>2
      <4>4. ASSUME NEW i \in 1 .. Len(order) - 1, i >= k
            PROVE  B[i - (k - 1)] = order[i + 1]
        <5>1. i - (k - 1) \in 1 .. Len(order) - k /\ k + (i - (k - 1)) = i + 1
          BY <3>1, <4>4
        <5>. QED  BY <4>2, <5>1
      <4>5. R \in Seq(Steps) /\ Len(R) = Len(order) - 1
        BY <4>1, <4>3
      <4>6. ASSUME NEW i \in 1 .. Len(order) - 1
            PROVE  R[i] = IF i < k THEN order[i] ELSE order[i + 1]
        <5>1. CASE i < k
          <6>1. i \in 1 .. k - 1 /\ i <= k - 1
            BY <3>1, <5>1
          <6>2. R[i] = A[i]
            BY <4>1, <4>3, <6>1
          <6>. QED  BY <4>2, <5>1, <6>1, <6>2
        <5>2. CASE ~(i < k)
          <6>1. i >= k /\ ~(i <= k - 1)
            BY <3>1, <5>2
          <6>2. R[i] = B[i - (k - 1)]
            BY <4>1, <4>3, <6>1
          <6>. QED  BY <4>4, <5>2, <6>1, <6>2
        <5>. QED  BY <5>1, <5>2
      <4>. QED  BY <4>5, <4>6
    <3>. HIDE DEF R
    <3>5. ASSUME NEW x \in Range(R) PROVE x \in Stored
      BY <3>1, <3>4 DEF Range, Stored
    <3>6. ASSUME NEW x \in Stored, x # s PROVE x \in Range(R)
      <4>1. PICK i \in 1 .. Len(order) : x = order[i]
        BY DEF Range, Stored
      <4>2. CASE i < k
        BY <3>1, <3>4, <4>1, <4>2 DEF Range
      <4>3. CASE i > k
        <5>1. i - 1 \in 1 .. Len(order) - 1 /\ R[i - 1] = order[i]
          BY <3>1, <3>4, <4>3
        <5>. QED  BY <3>4, <4>1, <5>1 DEF Range
      <4>. QED  BY <3>1, <3>6, <4>1, <4>2, <4>3
    <3>. QED  BY <3>1, <3>4, <3>5, <3>6
  <2>. QED  BY <2>1, <2>2
<1>2. Append(Others(s), s) \in Seq(Steps) /\ Append(Others(s), s) # <<>>
  BY <1>1
<1>3. Last(Append(Others(s), s)) = s
  BY <1>1 DEF Last
<1>4. Range(Append(Others(s), s)) = Range(Others(s)) \cup {s}
  <2>. DEFINE q == Others(s)
  <2>. HIDE DEF q
  <2>1. q \in Seq(Steps)
    BY <1>1 DEF q
  <2>2. /\ DOMAIN Append(q, s) = 1 .. Len(q) + 1
        /\ Append(q, s)[Len(q) + 1] = s
        /\ \A i \in 1 .. Len(q) : Append(q, s)[i] = q[i]
    BY <2>1
  <2>. QED  BY <2>1, <2>2 DEF Range, q
<1>. QED  BY <1>1, <1>2, <1>3, <1>4

\* Every non-empty set of naturals has a least element.
LEMMA LeastNat ==
    ASSUME NEW T, T \subseteq Nat, T # {}
    PROVE  \E k \in T : \A j \in T : k <= j
<1>1. IsWellFoundedOn(OpToRel(<, Nat), Nat)
  BY NatLessThanWellFounded
<1>2. PICK k \in T : \A j \in T : ~(<<j, k>> \in OpToRel(<, Nat))
  BY <1>1, WFMin
<1>3. \A j \in T : ~(j < k)
  BY <1>2 DEF OpToRel
<1>. QED  BY <1>3

LEMMA GreatestIndex ==
    ASSUME NEW n \in Nat, NEW T, T \subseteq 1 .. n, T # {}
    PROVE  \E k \in T : \A j \in T : j <= k
<1>. DEFINE U == {m \in Nat : \A j \in T : j <= m}
<1>1. U \subseteq Nat /\ n \in U
  OBVIOUS
<1>2. PICK m \in U : \A i \in U : m <= i
  <2>. HIDE DEF U
  <2>. QED  BY <1>1, LeastNat
<1>3. m \in T
  <2>. SUFFICES ASSUME m \notin T PROVE FALSE
    OBVIOUS
  <2>1. PICK j \in T : TRUE
    OBVIOUS
  <2>2. m \in Nat /\ m >= 1 /\ m - 1 \in Nat
    BY <2>1
  <2>3. m - 1 \in U
    BY <2>2
  <2>. QED  BY <1>2, <2>2, <2>3
<1>. QED  BY <1>3

\* The newest stored step of a set is one of the set.
LEMMA NewestOf ==
    ASSUME order \in Seq(Steps), NEW S, S \cap Stored # {}
    PROVE  Newest(S) \in S \cap Stored
<1>. DEFINE T == {k \in DOMAIN order : order[k] \in S}
<1>1. T \subseteq 1 .. Len(order) /\ T # {} /\ Len(order) \in Nat
  BY DEF Stored, Range
<1>2. \E k \in T : \A j \in T : j <= k
  <2>. HIDE DEF T
  <2>. QED  BY <1>1, GreatestIndex
<1>3. \E k \in DOMAIN order : order[k] \in S /\ \A j \in DOMAIN order : order[j] \in S => j <= k
  BY <1>2
<1>. QED  BY <1>3 DEF Newest, Stored, Range

\* A continuation starts at a stored step, and never at a cleanup.
LEMMA PlannedStep ==
    ASSUME TypeInv, FailInv, WaitInv, NEW kind, NEW force, NEW s \in PlanFor(kind, force),
           kind \in {"resume", "retry", "retry_failed_step", "rewind"}
    PROVE  /\ s \in Steps \ CleanupSteps /\ ~row.fail.denied /\ row.status # "merged"
<1>0. order \in Seq(Steps) /\ Stored \subseteq Steps
  BY DEF TypeInv, StoreType, Stored, Range
<1>1. s \in select_checkpoint(kind) /\ check_resumable_status(kind, force)
      /\ (s \in SafeSteps \/ checkpoint_is_authorized(kind, s))
  BY DEF PlanFor
<1>2. select_resume_checkpoint \subseteq Steps
  <2>1. load_checkpoint_before_step(row.current) \subseteq Steps
    BY <1>0 DEF load_checkpoint_before_step
  <2>2. Resumable # {} => Newest(Resumable) \in Stored
    BY <1>0, NewestOf DEF Resumable
  <2>3. Stored # {} => Newest(Stored) \in Stored
    BY <1>0, NewestOf
  <2>4. identity_current => row.fail.step \in Stored
    BY DEF identity_current
  <2>. QED  BY <1>0, <2>1, <2>2, <2>3, <2>4 DEF select_resume_checkpoint
<1>3. select_checkpoint(kind) \subseteq Steps
  <2>1. Stored \cap RetryableSteps # {} => Newest(Stored \cap RetryableSteps) \in Stored
    BY <1>0, NewestOf
  <2>. QED  BY <1>0, <1>2, <2>1 DEF select_checkpoint, select_retry_checkpoint
<1>4. s \in Steps
  BY <1>1, <1>3
<1>5. ~row.fail.denied
  BY <1>1 DEF check_resumable_status, is_ownership_denied_terminal, FailInv
<1>6. row.status # "merged"
  BY <1>1 DEF check_resumable_status, is_resumable, is_cleanup_failure_abandonment
<1>7. ASSUME s \in CleanupSteps PROVE FALSE
  <2>1. checkpoint_is_authorized(kind, s)
    BY <1>1, <1>7, EngineAssumption
  <2>2. s # row.fail.step
    BY <1>4, <1>7, NoStepAssumption DEF FailInv, NoFailure
  <2>3. CASE kind = "resume" /\ incomplete_cleanup
    BY <1>1, <2>2, <2>3 DEF select_checkpoint, select_resume_checkpoint, bound_to_failure
  <2>4. CASE kind = "resume" /\ ckpt[s].status = "waiting"
    BY <1>7, <2>4 DEF WaitInv
  <2>. QED  BY <2>1, <2>2, <2>3, <2>4 DEF checkpoint_is_authorized
<1>. QED  BY <1>4, <1>5, <1>6, <1>7

----------------------------------------------------------------------------
(* Type correctness.                                                        *)

\* What save_checkpoint leaves: the row of s, newest, and the others' data.
LEMMA SaveCheckpoint ==
    ASSUME StoreType, NEW s \in Steps, NEW st \in CheckpointStatus, NEW c \in Counts,
           NEW b \in BOOLEAN, save_checkpoint(s, st, c, b)
    PROVE  /\ ckpt' \in [Steps -> Checkpoint]
           /\ order' \in Seq(Steps) /\ order' # <<>> /\ Last(order') = s
           /\ Stored' = Stored \cup {s}
           /\ ckpt'[s] = [status |-> st, counts |-> c, bound |-> b]
           /\ \A t \in Steps \ {s} :
                 /\ ckpt'[t].status = ckpt[t].status /\ ckpt'[t].counts = ckpt[t].counts
                 /\ ckpt'[t].bound = (ckpt[t].bound /\ ~b)
           /\ load_checkpoint_state' = c
<1>1. order' = Append(Others(s), s)
  BY DEF save_checkpoint
<1>2. /\ order' \in Seq(Steps) /\ order' # <<>> /\ Last(order') = s
      /\ Stored' = Stored \cup {s}
  BY <1>1, WriteOrder DEF StoreType, Stored
<1>3. ckpt' = [t \in Steps |->
           IF t = s THEN [status |-> st, counts |-> c, bound |-> b]
           ELSE [ckpt[t] EXCEPT !.bound = @ /\ ~b]]
  BY DEF save_checkpoint
<1>4. ckpt'[s] = [status |-> st, counts |-> c, bound |-> b]
  BY <1>3
<1>5. ASSUME NEW t \in Steps \ {s}
      PROVE  /\ ckpt'[t] \in Checkpoint
             /\ ckpt'[t].status = ckpt[t].status /\ ckpt'[t].counts = ckpt[t].counts
             /\ ckpt'[t].bound = (ckpt[t].bound /\ ~b)
  <2>1. ckpt[t] \in Checkpoint /\ (ckpt[t].bound /\ ~b) \in BOOLEAN
    BY DEF StoreType, Checkpoint
  <2>2. ckpt'[t] = [ckpt[t] EXCEPT !.bound = (ckpt[t].bound /\ ~b)]
    BY <1>3
  <2>. QED  BY <2>1, <2>2 DEF Checkpoint
<1>6. ckpt'[s] \in Checkpoint
  BY <1>4 DEF Checkpoint
<1>7. ckpt' \in [Steps -> Checkpoint]
  BY <1>3, <1>5, <1>6
<1>8. load_checkpoint_state' = c
  BY <1>2, <1>4 DEF load_checkpoint_state
<1>. QED  BY <1>2, <1>4, <1>5, <1>7, <1>8

\* What set_resume_point leaves.
LEMMA SetResumePoint ==
    ASSUME StoreType, NEW s \in Steps, set_resume_point(s)
    PROVE  /\ ckpt' \in [Steps -> Checkpoint]
           /\ order' \in Seq(Steps) /\ order' # <<>> /\ Last(order') = s
           /\ \A t \in Steps : ckpt'[t].counts = ckpt[t].counts
           /\ \A t \in Steps : ckpt'[t].status \in {ckpt[t].status, "ready_to_resume"}
           /\ load_checkpoint_state' = ckpt[s].counts
<1>1. order' = Append(Others(s), s)
  BY DEF set_resume_point
<1>2. order' \in Seq(Steps) /\ order' # <<>> /\ Last(order') = s
  BY <1>1, WriteOrder DEF StoreType
<1>3. ckpt' = [ckpt EXCEPT ![s].status = "ready_to_resume", ![s].bound = FALSE]
  BY DEF set_resume_point
<1>4. ckpt \in [Steps -> Checkpoint]
  BY DEF StoreType
<1>5. ckpt' \in [Steps -> Checkpoint]
  BY <1>3, <1>4 DEF Checkpoint, CheckpointStatus
<1>6. \A t \in Steps : /\ ckpt'[t].counts = ckpt[t].counts
                         /\ ckpt'[t].status \in {ckpt[t].status, "ready_to_resume"}
  BY <1>3, <1>4 DEF Checkpoint
<1>. QED  BY <1>2, <1>5, <1>6 DEF load_checkpoint_state

LEMMA LoadedCounts == StoreType => load_checkpoint_state \in Counts
<1>. SUFFICES ASSUME StoreType PROVE load_checkpoint_state \in Counts
  OBVIOUS
<1>1. CASE order = <<>>
  BY <1>1 DEF load_checkpoint_state, NoCounts, Counts
<1>2. CASE order # <<>>
  <2>1. Last(order) \in Steps
    BY <1>2 DEF StoreType, Last
  <2>. QED  BY <1>2, <2>1 DEF load_checkpoint_state, StoreType, Checkpoint
<1>. QED  BY <1>1, <1>2

LEMMA OffIsRunner == Off \in Runner
BY DEF Off, Runner, Phases, SomeStep, Outcomes, Counts, NoCounts

LEMMA TypeInit == Init => TypeInv
<1>. SUFFICES ASSUME Init PROVE TypeInv
  OBVIOUS
<1>1. NoFailure \in FailureState /\ NoCounts \in Counts
  BY DEF NoFailure, FailureState, SomeStep, NoCounts, Counts
<1>2. RowType
  BY <1>1, OffIsRunner DEF Init, RowType, RunRow, RunStatus, SomeStep, LeaseState
<1>3. StoreType
  BY <1>1 DEF Init, StoreType, Checkpoint, CheckpointStatus
<1>4. PhaseInv
  BY DEF Init, PhaseInv, At, Off
<1>. QED  BY <1>2, <1>3, <1>4 DEF TypeInv

\* The fields of the rows, for the steps below.
LEMMA Fields ==
    ASSUME RowType
    PROVE  /\ row.status \in RunStatus /\ row.current \in SomeStep /\ row.fail \in FailureState
           /\ row.live \in BOOLEAN /\ row.wait \in SomeStep
           /\ runner.phase \in Phases /\ runner.step \in SomeStep /\ runner.outcome \in Outcomes
           /\ runner.result \in Completions \cup {"none", "error"}
           /\ runner.counts \in Counts /\ runner.by \in {"daemon", "cli", "operator"}
BY DEF RowType, RunRow, Runner

\* The target that a failure is recorded with.
LEMMA RecordedTarget ==
    ASSUME NEW s \in Steps, NEW o \in Outcomes, routes_to_cleanup(s, o)
    PROVE  /\ s \notin CleanupSteps
           /\ (CHOOSE n \in resolve_next_step(s, o) : TRUE) \in CleanupSteps
           /\ (CHOOSE n \in resolve_next_step(s, o) : TRUE) \in resolve_next_step(s, o)
<1>1. PICK n \in resolve_next_step(s, o) : n \in CleanupSteps
  BY DEF routes_to_cleanup
<1>2. PICK t \in find_transition(s, o) : t.to = n
  BY <1>1 DEF resolve_next_step
<1>3. resolve_next_step(s, o) = {n}
  <2>1. find_transition(s, o) = {t}
    BY <1>2, Found
  <2>2. o # "abandon"
    BY <1>1 DEF resolve_next_step
  <2>. QED  BY <1>2, <2>1, <2>2 DEF resolve_next_step
<1>4. s \notin CleanupSteps
  BY <1>2, Found
<1>. QED  BY <1>1, <1>3, <1>4

\* The failure that persist_step_result records.
LEMMA RecordedFailure ==
    ASSUME RowType, FailInv, NEW s \in Steps, NEW o \in Outcomes,
           s \in CleanupSteps => row.fail.to = s
    PROVE  /\ failure_states_for_step(s, o) \in FailureState
           /\ \/ failure_states_for_step(s, o) = NoFailure
              \/ /\ failure_states_for_step(s, o).step \in Steps \ CleanupSteps
                 /\ failure_states_for_step(s, o).to \in CleanupSteps
           /\ failure_states_for_step(s, o).denied => row.fail.denied
           /\ s \in CleanupSteps => /\ failure_states_for_step(s, o).to = row.fail.to
                                    /\ failure_states_for_step(s, o).step = row.fail.step
                                    /\ row.fail.step \in Steps
           /\ routes_to_cleanup(s, o) =>
                 /\ failure_states_for_step(s, o).step = s
                 /\ failure_states_for_step(s, o).to \in resolve_next_step(s, o)
<1>0. row.fail \in FailureState /\ CleanupSteps \subseteq Steps
  BY Fields, EngineAssumption
<1>1. CASE s \in CleanupSteps
  <2>1. failure_states_for_step(s, o) = [row.fail EXCEPT !.done = @ \/ o = "success"]
    BY <1>1 DEF failure_states_for_step
  <2>2. row.fail # NoFailure
    BY <1>0, <1>1, NoStepAssumption DEF NoFailure
  <2>3. row.fail.step \in Steps \ CleanupSteps /\ row.fail.to \in CleanupSteps
    BY <2>2 DEF FailInv
  <2>4. ~routes_to_cleanup(s, o)
    BY <1>1, RecordedTarget
  <2>5. (row.fail.done \/ o = "success") \in BOOLEAN
    BY <1>0 DEF FailureState
  <2>. QED  BY <1>0, <1>1, <2>1, <2>3, <2>4, <2>5 DEF FailureState
<1>2. CASE s \notin CleanupSteps /\ routes_to_cleanup(s, o)
  <2>. DEFINE n == CHOOSE m \in resolve_next_step(s, o) : TRUE
  <2>1. n \in CleanupSteps /\ n \in resolve_next_step(s, o)
    BY <1>2, RecordedTarget
  <2>2. failure_states_for_step(s, o) = [step |-> s, done |-> FALSE, denied |-> FALSE, to |-> n]
    BY <1>2 DEF failure_states_for_step
  <2>. HIDE DEF n
  <2>. QED  BY <1>0, <1>2, <2>1, <2>2 DEF FailureState, SomeStep
<1>3. CASE s \notin CleanupSteps /\ ~routes_to_cleanup(s, o)
  BY <1>0, <1>3 DEF failure_states_for_step, FailInv
<1>. QED  BY <1>1, <1>2, <1>3

\* An error ends the execution and may lose counts.
LEMMA FailEnds ==
    ASSUME RowType, StoreType, Fail
    PROVE  /\ runner' = [runner EXCEPT !.phase = "ended", !.result = "error"]
           /\ runner' \in Runner
           /\ lost' \in {lost, lost + 1} /\ lost' \in Nat
           /\ lost' = lost => runner.counts = load_checkpoint_state
<1>1. runner' = [runner EXCEPT !.phase = "ended", !.result = "error"]
  BY DEF Fail, End, SetRunner
<1>2. runner' \in Runner
  BY <1>1 DEF RowType, Runner, Phases
<1>3. lost \in Nat /\ lost' = IF runner.counts = load_checkpoint_state THEN lost ELSE lost + 1
  BY DEF Fail, Lose, StoreType
<1>. QED  BY <1>1, <1>2, <1>3

LEMMA TypeStep ==
    ASSUME TypeInv, FailInv, WaitInv, CleanupHasProvenance, [Next]_vars
    PROVE  TypeInv'
<1>a. /\ RowType /\ StoreType /\ PhaseInv
      /\ row \in RunRow /\ runner \in Runner /\ load_checkpoint_state \in Counts
  BY LoadedCounts DEF TypeInv, RowType
<1>b. CleanupSteps \subseteq Steps
  BY EngineAssumption
<1>f. /\ row.status \in RunStatus /\ row.current \in SomeStep /\ row.fail \in FailureState
      /\ row.live \in BOOLEAN /\ row.wait \in SomeStep
      /\ runner.phase \in Phases /\ runner.step \in SomeStep /\ runner.outcome \in Outcomes
      /\ runner.result \in Completions \cup {"none", "error"}
      /\ runner.counts \in Counts /\ runner.by \in {"daemon", "cli", "operator"}
  BY <1>a, Fields
<1>1. CASE persist_launch_with_capsule
  <2>1. StepSeq[1] \in SomeStep /\ StepSeq[1] \in Steps
    BY FirstStep DEF SomeStep
  <2>2. row' \in RunRow
    BY <1>1, <1>a, <2>1 DEF RunRow, persist_launch_with_capsule, RunStatus
  <2>3. PICK by \in Launchers :
            /\ runner' = [Off EXCEPT !.phase = "starting", !.step = StepSeq[1], !.by = by]
            /\ lease' = IF by = "daemon" THEN "running" ELSE "none"
    BY <1>1 DEF persist_launch_with_capsule, SetRunner
  <2>4. runner' \in Runner
    BY <2>1, <2>3, OffIsRunner, EngineAssumption DEF Runner, Phases
  <2>5. RowType'
    BY <1>1, <1>a, <2>2, <2>3, <2>4 DEF RowType, persist_launch_with_capsule, env, LeaseState
  <2>6. StoreType'
    BY <1>1, <1>a DEF StoreType, persist_launch_with_capsule, env
  <2>7. PhaseInv'
    BY <1>1, <1>a, <2>1, <2>3 DEF PhaseInv, persist_launch_with_capsule, At, Off, RunRow
  <2>. QED  BY <2>5, <2>6, <2>7 DEF TypeInv
<1>2. CASE mark_run_started
  <2>1. row' \in RunRow /\ runner' \in Runner
    BY <1>2, <1>a DEF Runner, RunRow, mark_run_started, RunStatus, Phases, SetRunner
  <2>2. RowType' /\ StoreType'
    BY <1>2, <1>a, <2>1 DEF RowType, StoreType, mark_run_started, env
  <2>3. PhaseInv'
    BY <1>2, <1>a DEF PhaseInv, mark_run_started, At, SetRunner, RunRow, Runner
  <2>. QED  BY <2>2, <2>3 DEF TypeInv
<1>3. CASE prepare_step_start
  <2>1. runner.step \in Steps
    BY <1>3, <1>a DEF prepare_step_start, At, PhaseInv
  <2>2. CASE Fail /\ UNCHANGED row
    <3>1. runner' \in Runner /\ lost' \in Nat
      BY <1>a, <2>2, FailEnds
    <3>2. RowType' /\ StoreType'
      BY <1>3, <1>a, <2>2, <3>1 DEF RowType, StoreType, prepare_step_start, env
    <3>3. PhaseInv'
      BY <1>3, <1>a, <2>2 DEF PhaseInv, prepare_step_start, At, Fail, End, SetRunner, Runner
    <3>. QED  BY <3>2, <3>3 DEF TypeInv
  <2>3. CASE /\ row' = [row EXCEPT !.current = runner.step]
             /\ SetRunner([runner EXCEPT !.phase = "executing"])
             /\ UNCHANGED lost
    <3>1. row' \in RunRow /\ runner' \in Runner
      BY <1>a, <1>f, <2>3 DEF Runner, RunRow, SetRunner, Phases
    <3>2. RowType' /\ StoreType'
      BY <1>3, <1>a, <2>3, <3>1 DEF RowType, StoreType, prepare_step_start, env
    <3>3. PhaseInv'
      BY <1>3, <1>a, <2>1, <2>3 DEF PhaseInv, prepare_step_start, At, SetRunner, Runner, RunRow
    <3>. QED  BY <3>2, <3>3 DEF TypeInv
  <2>. QED  BY <1>3, <2>2, <2>3 DEF prepare_step_start
<1>4. CASE execute_current_step
  <2>1. CASE Fail
    <3>1. runner' \in Runner /\ lost' \in Nat
      BY <1>a, <2>1, FailEnds
    <3>2. RowType' /\ StoreType'
      BY <1>4, <1>a, <3>1 DEF RowType, StoreType, execute_current_step, env
    <3>3. PhaseInv'
      BY <1>4, <1>a, <2>1 DEF PhaseInv, execute_current_step, At, Fail, End, SetRunner, Runner
    <3>. QED  BY <3>2, <3>3 DEF TypeInv
  <2>2. CASE \E o \in OutcomesOf[runner.step] :
                SetRunner([runner EXCEPT !.phase = "executed", !.outcome = o]) /\ UNCHANGED lost
    <3>1. PICK o \in OutcomesOf[runner.step] :
             runner' = [runner EXCEPT !.phase = "executed", !.outcome = o] /\ UNCHANGED lost
      BY <2>2 DEF SetRunner
    <3>2. runner.step \in Steps
      BY <1>4, <1>a DEF execute_current_step, At, PhaseInv
    <3>3. o \in Outcomes
      BY <3>2, EngineAssumption
    <3>4. runner' \in Runner
      BY <1>a, <3>1, <3>3 DEF Runner, Phases
    <3>5. RowType' /\ StoreType'
      BY <1>4, <1>a, <3>1, <3>4 DEF RowType, StoreType, execute_current_step, env
    <3>6. PhaseInv'
      BY <1>4, <1>a, <3>1 DEF PhaseInv, execute_current_step, At, Runner
    <3>. QED  BY <3>5, <3>6 DEF TypeInv
  <2>. QED  BY <1>4, <2>1, <2>2 DEF execute_current_step
<1>5. CASE persist_step_result
  <2>. DEFINE s == runner.step
              o == runner.outcome
              f == failure_states_for_step(s, o)
  <2>1. s \in Steps /\ At("executed") /\ row.status # "none" /\ row.current = s
    BY <1>5, <1>a DEF persist_step_result, At, PhaseInv
  <2>2. s \in CleanupSteps => row.fail.to = s
    BY <2>1 DEF CleanupHasProvenance, At
  <2>3. f \in FailureState /\ (s \in CleanupSteps => row.fail.step \in Steps)
    BY <1>a, <1>f, <2>1, <2>2, RecordedFailure
  <2>4. CASE Fail /\ UNCHANGED <<row, ckpt, order, lease>>
    <3>1. runner' \in Runner /\ lost' \in Nat
      BY <1>a, <2>4, FailEnds
    <3>2. RowType' /\ StoreType'
      BY <1>5, <1>a, <2>4, <3>1 DEF RowType, StoreType, persist_step_result, env
    <3>3. PhaseInv'
      BY <1>a, <2>1, <2>4 DEF PhaseInv, At, Fail, End, SetRunner, Runner
    <3>. QED  BY <3>2, <3>3 DEF TypeInv
  <2>5. CASE ~(Fail /\ UNCHANGED <<row, ckpt, order, lease>>)
    <3>1. /\ save_checkpoint(s, "completed", runner.counts, build_failure_cleanup_state(s, o))
          /\ row' = [row EXCEPT
                !.fail = f,
                !.status = IF s \notin CleanupSteps THEN @
                           ELSE IF o = "success" THEN "abandoned" ELSE "failed",
                !.current = IF s \in CleanupSteps THEN row.fail.step ELSE @]
          /\ lease' \in {lease, "cleanup_abandoned"}
          /\ runner' = [runner EXCEPT !.phase = "routed"]
          /\ UNCHANGED <<lost, artifact, traversed, env>>
      BY <1>5, <2>5 DEF persist_step_result, SetRunner
    <3>2. ckpt' \in [Steps -> Checkpoint] /\ order' \in Seq(Steps)
      BY <1>a, <1>f, <2>1, <3>1, SaveCheckpoint DEF CheckpointStatus, build_failure_cleanup_state, routes_to_cleanup
    <3>3. runner' \in Runner
      BY <1>a, <3>1 DEF Runner, Phases
    <3>4. row' \in RunRow /\ row'.status \in RunStatus \ {"none"} /\ row'.current \in Steps
      <4>. DEFINE st == IF s \notin CleanupSteps THEN row.status
                        ELSE IF o = "success" THEN "abandoned" ELSE "failed"
                  c == IF s \in CleanupSteps THEN row.fail.step ELSE row.current
      <4>1. st \in RunStatus \ {"none"} /\ c \in Steps /\ c \in SomeStep
        BY <1>f, <2>1, <2>3 DEF RunStatus, SomeStep
      <4>2. row' = [row EXCEPT !.fail = f, !.status = st, !.current = c]
        BY <3>1
      <4>. HIDE DEF st, c, f
      <4>. QED  BY <1>a, <2>3, <4>1, <4>2 DEF RunRow
    <3>5. row'.status = "merged" => row.status = "merged"
      BY <1>a, <3>1 DEF RunRow
    <3>6. RowType' /\ StoreType'
      BY <1>a, <3>1, <3>2, <3>3, <3>4 DEF RowType, StoreType, env, LeaseState
    <3>7. PhaseInv'
      BY <1>a, <2>1, <3>1, <3>4, <3>5 DEF PhaseInv, At, Runner
    <3>. QED  BY <3>6, <3>7 DEF TypeInv
  <2>. QED  BY <2>4, <2>5
<1>6. CASE persist_terminal_ownership_failure
  <2>. DEFINE s == runner.step
              n == CHOOSE m \in resolve_next_step(s, runner.outcome) : TRUE
              f == [step |-> s, done |-> FALSE, denied |-> TRUE, to |-> n]
  <2>1. s \in Steps /\ At("executed") /\ row.status # "none"
    BY <1>6, <1>a DEF persist_terminal_ownership_failure, At, PhaseInv
  <2>2. n \in Steps
    BY <1>6, <1>b, <1>f, <2>1, RecordedTarget DEF persist_terminal_ownership_failure
  <2>3. f \in FailureState
    BY <2>1, <2>2 DEF FailureState, SomeStep
  <2>4. row' = [row EXCEPT !.status = "failed", !.current = s, !.fail = f]
    BY <1>6 DEF persist_terminal_ownership_failure
  <2>. HIDE DEF f, n
  <2>5. row' \in RunRow /\ row'.status = "failed" /\ row'.current \in Steps
    BY <1>a, <1>f, <2>1, <2>3, <2>4 DEF RunRow, RunStatus
  <2>6. ckpt' \in [Steps -> Checkpoint] /\ order' \in Seq(Steps)
    BY <1>6, <1>a, <1>f, <2>1, SaveCheckpoint DEF CheckpointStatus, persist_terminal_ownership_failure
  <2>7. runner' = [runner EXCEPT !.phase = "ended", !.result = "failure"]
    BY <1>6 DEF persist_terminal_ownership_failure, End, SetRunner
  <2>8. runner' \in Runner
    BY <1>a, <2>7 DEF Runner, Phases, Completions
  <2>9. RowType' /\ StoreType'
    BY <1>6, <1>a, <2>5, <2>6, <2>8
       DEF RowType, StoreType, persist_terminal_ownership_failure, env, LeaseState
  <2>10. PhaseInv'
    BY <1>a, <2>1, <2>5, <2>7 DEF PhaseInv, At, Runner
  <2>. QED  BY <2>9, <2>10 DEF TypeInv
<1>7. CASE advance_to_next_step
  <2>. DEFINE s == runner.step
  <2>1. s \in Steps /\ At("routed") /\ row.status # "none" /\ row.status # "merged"
    BY <1>7, <1>a DEF advance_to_next_step, At, PhaseInv
  <2>2. PICK t \in find_transition(s, runner.outcome) :
           IF enforce_edge_limit(s, t)
           THEN Complete("abandoned") /\ UNCHANGED traversed
           ELSE /\ SetRunner([runner EXCEPT !.phase = "ready", !.step = t.to,
                         !.outcome = "success", !.counts = increment_edge(s, t)])
                /\ traversed' = [traversed EXCEPT ![<<s, t.to>>] =
                         IF is_limited_transition(s, t.to, t) THEN @ + 1 ELSE @]
    BY <1>7 DEF advance_to_next_step
  <2>3. t.to \in Steps /\ <<s, t.to>> \in Edges
    BY <1>f, <2>1, Found
  <2>4. UNCHANGED <<row, ckpt, order, lease, artifact, lost, env>>
    BY <1>7 DEF advance_to_next_step
  <2>5. CASE enforce_edge_limit(s, t)
    <3>1. runner' = [runner EXCEPT !.phase = "completing", !.result = "abandoned"]
          /\ traversed' = traversed
      BY <2>2, <2>5 DEF Complete, SetRunner
    <3>2. runner' \in Runner
      BY <1>a, <3>1 DEF Runner, Phases, Completions
    <3>3. RowType' /\ StoreType'
      BY <1>a, <2>4, <3>1, <3>2 DEF RowType, StoreType, env
    <3>4. PhaseInv'
      BY <1>a, <2>1, <2>4, <3>1 DEF PhaseInv, At, Runner, Completions
    <3>. QED  BY <3>3, <3>4 DEF TypeInv
  <2>6. CASE ~enforce_edge_limit(s, t)
    <3>1. /\ runner' = [runner EXCEPT !.phase = "ready", !.step = t.to,
                            !.outcome = "success", !.counts = increment_edge(s, t)]
          /\ traversed' = [traversed EXCEPT ![<<s, t.to>>] =
                            IF is_limited_transition(s, t.to, t) THEN @ + 1 ELSE @]
      BY <2>2, <2>6 DEF SetRunner
    <3>2. increment_edge(s, t) \in Counts
      BY <1>f, <2>3 DEF increment_edge, Counts
    <3>3. traversed' \in Counts
      BY <1>a, <2>3, <3>1 DEF StoreType, Counts
    <3>4. runner' \in Runner
      BY <1>a, <2>3, <3>1, <3>2 DEF Runner, Phases, Outcomes, SomeStep
    <3>5. RowType' /\ StoreType'
      BY <1>a, <2>4, <3>3, <3>4 DEF RowType, StoreType, env
    <3>6. PhaseInv'
      BY <1>a, <2>1, <2>3, <2>4, <3>1 DEF PhaseInv, At, Runner
    <3>. QED  BY <3>5, <3>6 DEF TypeInv
  <2>. QED  BY <2>5, <2>6
<1>8. CASE finish_without_transition
  <2>1. /\ runner.step \in Steps /\ At("routed") /\ row.status # "none" /\ row.status # "merged"
        /\ UNCHANGED <<row, lease, artifact, traversed, lost, env>>
    BY <1>8, <1>a DEF finish_without_transition, At, PhaseInv
  <2>2. PICK p \in {"ended", "completing"}, x \in Completions :
           runner' = [runner EXCEPT !.phase = p, !.result = x]
    BY <1>8 DEF finish_without_transition, End, Complete, SetRunner, Completions
  <2>3. runner' \in Runner
    BY <1>a, <2>2 DEF Runner, Phases
  <2>4. ckpt' \in [Steps -> Checkpoint] /\ order' \in Seq(Steps)
    BY <1>8, <1>a, <1>f, <2>1, SaveCheckpoint
       DEF CheckpointStatus, finish_without_transition, StoreType
  <2>5. RowType' /\ StoreType'
    BY <1>a, <2>1, <2>3, <2>4 DEF RowType, StoreType, env
  <2>6. PhaseInv'
    BY <1>a, <2>1, <2>2 DEF PhaseInv, At, Runner, Completions
  <2>. QED  BY <2>5, <2>6 DEF TypeInv
<1>9. CASE record_run_completion
  <2>. DEFINE st == status_for_completion(runner.result)
  <2>1. /\ runner.step \in Steps /\ runner.result \in Completions
        /\ UNCHANGED <<ckpt, order, lease, artifact, traversed, lost, env>>
    BY <1>9, <1>a DEF record_run_completion, At, PhaseInv
  <2>2. st \in RunStatus \ {"none", "merged"}
    BY <2>1 DEF status_for_completion, Completions, RunStatus
  <2>3. /\ row' = [row EXCEPT !.status = st, !.current = runner.step]
        /\ runner' = [runner EXCEPT !.phase = IF st = "review_ready" THEN "merging" ELSE "ended"]
    BY <1>9 DEF record_run_completion, SetRunner
  <2>. HIDE DEF st
  <2>4. row' \in RunRow /\ runner' \in Runner
    BY <1>a, <1>f, <2>2, <2>3 DEF RunRow, Runner, Phases
  <2>5. RowType' /\ StoreType'
    BY <1>a, <2>1, <2>4 DEF RowType, StoreType, env
  <2>6. PhaseInv'
    BY <1>a, <2>1, <2>2, <2>3 DEF PhaseInv, At, Runner, RunRow, Completions
  <2>. QED  BY <2>5, <2>6 DEF TypeInv
<1>10. CASE complete_merge_required_run
  <2>1. /\ runner.step \in Steps /\ At("merging") /\ row.status \notin {"none", "merged"}
        /\ UNCHANGED <<row, ckpt, order, lease, artifact, traversed, lost, env>>
    BY <1>10, <1>a DEF complete_merge_required_run, At, PhaseInv
  <2>2. \/ runner' = [runner EXCEPT !.phase = "proved"]
        \/ \E x \in {"success", "error"} : runner' = [runner EXCEPT !.phase = "ended", !.result = x]
    BY <1>10 DEF complete_merge_required_run, End, SetRunner
  <2>3. runner' \in Runner
    BY <1>a, <2>2 DEF Runner, Phases, Completions
  <2>4. RowType' /\ StoreType'
    BY <1>a, <2>1, <2>3 DEF RowType, StoreType, env
  <2>5. PhaseInv'
    BY <1>a, <2>1, <2>2 DEF PhaseInv, At, Runner
  <2>. QED  BY <2>4, <2>5 DEF TypeInv
<1>11. CASE complete_typed_merge
  <2>1. /\ runner.step \in Steps /\ At("proved") /\ row.status # "none"
        /\ UNCHANGED <<ckpt, order, lease, traversed, lost, env>>
    BY <1>11, <1>a DEF complete_typed_merge, At, PhaseInv
  <2>2. /\ row' = row \/ row' = [row EXCEPT !.status = "merged"]
        /\ artifact' \in {artifact, TRUE}
        /\ \E x \in {"success", "error"} : runner' = [runner EXCEPT !.phase = "ended", !.result = x]
    BY <1>11 DEF complete_typed_merge, End, SetRunner
  <2>3. row' \in RunRow /\ runner' \in Runner
    BY <1>a, <2>2 DEF Runner, Phases, Completions, RunRow, RunStatus
  <2>4. RowType' /\ StoreType'
    BY <1>a, <2>1, <2>2, <2>3 DEF RowType, StoreType, env
  <2>5. PhaseInv'
    BY <1>a, <2>1, <2>2 DEF PhaseInv, At, Runner, RunRow
  <2>. QED  BY <2>4, <2>5 DEF TypeInv
<1>12. CASE finalize_lease
  <2>. DEFINE st == IF runner.by = "daemon" THEN run_daemon_runner(runner.result)
                    ELSE lease_status_for_outcome
              w == IF runner.by = "daemon" /\ runner.result = "waiting_external"
                   THEN Last(order) ELSE row.wait
  <2>1. /\ At("ended") /\ row.status # "none" /\ runner.result # "none"
        /\ UNCHANGED <<ckpt, order, artifact, traversed, lost, env>>
        /\ runner' = Off /\ lease' \in {lease, st}
        /\ row' = [row EXCEPT !.live = @ /\ runner.by # "cli", !.wait = w]
    BY <1>12, <1>a DEF finalize_lease, At, PhaseInv, SetRunner
  <2>2. run_daemon_runner(runner.result) \in LeaseState
    BY <1>f, <2>1 DEF run_daemon_runner, LeaseState, Completions
  <2>3. lease_status_for_outcome \in LeaseState
    BY DEF lease_status_for_outcome, LeaseState
  <2>4. w \in SomeStep
    <3>1. runner.result = "waiting_external" => Last(order) \in Steps
      BY <1>a DEF WaitInv, Last, StoreType
    <3>. QED  BY <1>f, <3>1 DEF SomeStep
  <2>. HIDE DEF st, w
  <2>5. row' \in RunRow
    BY <1>a, <1>f, <2>1, <2>4 DEF RunRow
  <2>6. st \in LeaseState
    BY <2>2, <2>3 DEF st
  <2>7. RowType' /\ StoreType'
    BY <1>a, <2>1, <2>5, <2>6, OffIsRunner DEF RowType, StoreType, env
  <2>8. PhaseInv'
    BY <1>a, <2>1 DEF PhaseInv, At, Off, RunRow
  <2>. QED  BY <2>7, <2>8 DEF TypeInv
<1>13. CASE interrupt_at_step
  <2>1. /\ runner.step \in Steps /\ runner.phase \in {"ready", "executed"}
        /\ row.status \notin {"none", "merged"}
        /\ UNCHANGED <<row, lease, artifact, traversed, lost, env>>
        /\ runner' = [runner EXCEPT !.phase = "completing", !.result = "interrupted"]
        /\ save_checkpoint(runner.step, "interrupted", runner.counts, FALSE)
    BY <1>13, <1>a DEF interrupt_at_step, At, PhaseInv, SetRunner
  <2>2. runner' \in Runner
    BY <1>a, <2>1 DEF Runner, Phases, Completions
  <2>3. ckpt' \in [Steps -> Checkpoint] /\ order' \in Seq(Steps)
    BY <1>a, <1>f, <2>1, SaveCheckpoint DEF CheckpointStatus
  <2>4. RowType' /\ StoreType'
    BY <1>a, <2>1, <2>2, <2>3 DEF RowType, StoreType, env
  <2>5. PhaseInv'
    BY <1>a, <2>1 DEF PhaseInv, At, Runner, Completions
  <2>. QED  BY <2>4, <2>5 DEF TypeInv
<1>14. ASSUME NEW kind \in {"resume", "retry", "retry_failed_step", "rewind"},
              NEW force \in BOOLEAN, recover_operator_run(kind, force)
       PROVE  TypeInv'
  <2>1. PICK s \in PlanFor(kind, force) :
           runner' = [Off EXCEPT !.phase = "ready", !.step = s,
                          !.counts = load_checkpoint_state, !.by = "operator"]
    BY <1>14 DEF recover_operator_run, SetRunner, resume_counts
  <2>2. /\ At("off") /\ row.status # "none" /\ resumes' = resumes + 1
        /\ UNCHANGED <<row, ckpt, order, lease, owned, pr, artifact, traversed, lost, deaths>>
    BY <1>14 DEF recover_operator_run
  <2>3. s \in Steps /\ row.status # "merged"
    BY PlannedStep
  <2>4. runner' \in Runner
    BY <1>a, <2>1, <2>3, OffIsRunner DEF Runner, Phases, SomeStep
  <2>5. RowType' /\ StoreType'
    BY <1>a, <2>2, <2>4 DEF RowType, StoreType
  <2>6. PhaseInv'
    BY <1>a, <2>1, <2>2, <2>3 DEF PhaseInv, At, Off
  <2>. QED  BY <2>5, <2>6 DEF TypeInv
<1>15. CASE poll_ready
  <2>1. /\ At("off") /\ row.wait \in Steps /\ row.status = "waiting_external"
        /\ row' = [row EXCEPT !.status = "ready_to_resume", !.current = row.wait, !.wait = NoStep]
        /\ lease' = "ready_to_resume" /\ set_resume_point(row.wait)
        /\ lost' \in {lost, lost + 1}
        /\ UNCHANGED <<runner, artifact, traversed, env>>
    BY <1>15, <1>f DEF poll_ready, SomeStep
  <2>2. row' \in RunRow
    BY <1>a, <1>f, <2>1 DEF RunRow, RunStatus, SomeStep
  <2>3. ckpt' \in [Steps -> Checkpoint] /\ order' \in Seq(Steps)
    BY <1>a, <2>1, SetResumePoint
  <2>4. RowType' /\ StoreType'
    BY <1>a, <2>1, <2>2, <2>3 DEF RowType, StoreType, env, LeaseState
  <2>5. PhaseInv'
    BY <1>a, <2>1 DEF PhaseInv, At, RunRow
  <2>. QED  BY <2>4, <2>5 DEF TypeInv
<1>16. CASE resume_ready
  <2>1. /\ At("off") /\ row.status = "ready_to_resume" /\ row.current \in Steps
        /\ resumes' = resumes + 1
        /\ lease' \in {"running", "failed"}
        /\ \/ runner' = runner
           \/ runner' = [Off EXCEPT !.phase = "ready", !.step = row.current,
                             !.counts = load_checkpoint_state, !.by = "daemon"]
        /\ UNCHANGED <<row, ckpt, order, owned, pr, artifact, traversed, lost, deaths>>
    BY <1>16, <1>a DEF resume_ready, PhaseInv, SetRunner, resume_counts
  <2>2. runner' \in Runner
    BY <1>a, <2>1, OffIsRunner DEF Runner, Phases, SomeStep
  <2>3. RowType' /\ StoreType'
    BY <1>a, <2>1, <2>2 DEF RowType, StoreType, LeaseState
  <2>4. PhaseInv'
    BY <1>a, <2>1 DEF PhaseInv, At, Off
  <2>. QED  BY <2>3, <2>4 DEF TypeInv
<1>17. CASE try_claim
  BY <1>17, <1>a DEF try_claim, TypeInv, RowType, StoreType, PhaseInv, At, env, LeaseState
<1>18. CASE Crash
  <2>1. /\ ~At("off") /\ deaths' = deaths + 1 /\ runner' = Off
        /\ row' = [row EXCEPT !.live = @ /\ runner.by = "operator"]
        /\ UNCHANGED <<ckpt, order, lease, owned, pr, artifact, traversed, resumes>>
    BY <1>18 DEF Crash, SetRunner
  <2>2. lost' \in Nat
    <3>1. lost' \in {lost, lost + 1}
      BY <1>18 DEF Crash, Lose
    <3>. QED  BY <1>a, <3>1 DEF StoreType
  <2>3. row' \in RunRow
    BY <1>a, <1>f, <2>1 DEF RunRow
  <2>4. RowType' /\ StoreType'
    BY <1>a, <2>1, <2>2, <2>3, OffIsRunner DEF RowType, StoreType
  <2>5. PhaseInv'
    BY <1>a, <2>1 DEF PhaseInv, At, Off, RunRow
  <2>. QED  BY <2>4, <2>5 DEF TypeInv
<1>19. CASE daemon_exits
  <2>1. /\ row' = [row EXCEPT !.live = FALSE] /\ row' \in RunRow
        /\ UNCHANGED <<ckpt, order, runner, lease, artifact, traversed, lost, env>>
    BY <1>19, <1>a DEF daemon_exits, RunRow
  <2>. QED  BY <1>a, <2>1 DEF TypeInv, RowType, StoreType, PhaseInv, At, env, RunRow
<1>20. CASE lose_workspace \/ merge_pull_request \/ UNCHANGED vars
  <2>1. /\ owned' \in BOOLEAN /\ pr' \in {"open", "merged", "other"}
        /\ UNCHANGED <<row, ckpt, order, runner, lease, artifact, traversed, lost, deaths, resumes>>
    BY <1>20, <1>a DEF lose_workspace, merge_pull_request, vars, RowType
  <2>. QED  BY <1>a, <2>1 DEF TypeInv, RowType, StoreType, PhaseInv, At
<1>. QED
  BY <1>1, <1>2, <1>3, <1>4, <1>5, <1>6, <1>7, <1>8, <1>9, <1>10, <1>11, <1>12, <1>13, <1>14,
     <1>15, <1>16, <1>17, <1>18, <1>19, <1>20 DEF Next, RunnerStep

\* The proof of a merge: only complete_typed_merge says merged, and nothing
\* that follows takes it back.
LEMMA MergedStep ==
    ASSUME TypeInv, FailInv, WaitInv, CleanupHasProvenance, MergedIsProved, [Next]_vars
    PROVE  MergedIsProved'
<1>a. row \in RunRow /\ artifact \in BOOLEAN /\ PhaseInv /\ runner.result \in Completions \cup {"none", "error"}
  BY Fields DEF TypeInv, RowType
<1>1. CASE complete_typed_merge
  <2>1. At("proved") /\ pr' = pr
    BY <1>1 DEF complete_typed_merge, env
  <2>2. row.status # "merged" /\ ~artifact
    BY <1>a, <2>1 DEF PhaseInv, At, MergedIsProved
  <2>3. CASE build_reachability_proof /\ row' = [row EXCEPT !.status = "merged"] /\ artifact' = TRUE
    BY <1>a, <2>1, <2>3 DEF MergedIsProved, build_reachability_proof, RunRow
  <2>4. CASE UNCHANGED <<row, artifact>>
    BY <2>1, <2>2, <2>4 DEF MergedIsProved
  <2>. QED  BY <1>1, <2>3, <2>4 DEF complete_typed_merge
<1>2. CASE merge_pull_request
  BY <1>2, <1>a DEF merge_pull_request, MergedIsProved
<1>3. ASSUME artifact' = artifact, pr' = pr, (row'.status = "merged") = (row.status = "merged")
      PROVE  MergedIsProved'
  BY <1>3 DEF MergedIsProved
<1>4. CASE persist_launch_with_capsule \/ mark_run_started \/ prepare_step_start
  BY <1>3, <1>4, <1>a
     DEF persist_launch_with_capsule, mark_run_started, prepare_step_start, env, PhaseInv, At, RunRow
<1>5. CASE execute_current_step \/ interrupt_at_step \/ advance_to_next_step
           \/ finish_without_transition \/ complete_merge_required_run
  BY <1>3, <1>5
     DEF execute_current_step, interrupt_at_step, advance_to_next_step,
         finish_without_transition, complete_merge_required_run, env
<1>6. CASE persist_step_result
  <2>1. row.status # "merged"
    BY <1>6, <1>a DEF persist_step_result, PhaseInv, At
  <2>2. row' = row \/ \E f, c : \E st \in {row.status, "abandoned", "failed"} :
                          row' = [row EXCEPT !.fail = f, !.status = st, !.current = c]
    <3>. DEFINE st == IF runner.step \notin CleanupSteps THEN row.status
                      ELSE IF runner.outcome = "success" THEN "abandoned" ELSE "failed"
                c == IF runner.step \in CleanupSteps THEN row.fail.step ELSE row.current
                f == failure_states_for_step(runner.step, runner.outcome)
    <3>1. row' = row \/ row' = [row EXCEPT !.fail = f, !.status = st, !.current = c]
      BY <1>6 DEF persist_step_result
    <3>2. st \in {row.status, "abandoned", "failed"}
      OBVIOUS
    <3>. HIDE DEF st, c, f
    <3>. QED  BY <3>1, <3>2
  <2>3. artifact' = artifact /\ pr' = pr
    BY <1>6 DEF persist_step_result, env
  <2>4. row'.status # "merged"
    BY <1>a, <2>1, <2>2 DEF RunRow
  <2>. QED  BY <1>3, <2>1, <2>3, <2>4
<1>7. CASE persist_terminal_ownership_failure
  <2>1. row.status # "merged" /\ row'.status = "failed"
    BY <1>7, <1>a DEF persist_terminal_ownership_failure, PhaseInv, At, RunRow
  <2>. QED  BY <1>3, <1>7, <2>1 DEF persist_terminal_ownership_failure, env
<1>8. CASE record_run_completion
  <2>1. row.status # "merged" /\ runner.result \in Completions
    BY <1>8, <1>a DEF record_run_completion, PhaseInv, At
  <2>2. status_for_completion(runner.result) # "merged"
    BY <2>1 DEF status_for_completion, Completions
  <2>3. row'.status = status_for_completion(runner.result)
    BY <1>8, <1>a DEF record_run_completion, RunRow
  <2>. QED  BY <1>3, <1>8, <2>1, <2>2, <2>3 DEF record_run_completion, env
<1>9. CASE finalize_lease
  BY <1>3, <1>9, <1>a DEF finalize_lease, env, RunRow
<1>10. ASSUME NEW kind, NEW force, recover_operator_run(kind, force)
       PROVE  MergedIsProved'
  BY <1>3, <1>10 DEF recover_operator_run
<1>11. CASE poll_ready
  <2>1. row.status = "waiting_external" /\ row'.status = "ready_to_resume"
    BY <1>11, <1>a DEF poll_ready, RunRow
  <2>. QED  BY <1>3, <1>11, <2>1 DEF poll_ready, env
<1>12. CASE resume_ready \/ try_claim \/ lose_workspace \/ UNCHANGED vars
  BY <1>3, <1>12 DEF resume_ready, try_claim, lose_workspace, env, vars
<1>13. CASE Crash \/ daemon_exits
  BY <1>3, <1>13, <1>a DEF Crash, daemon_exits, env, RunRow
<1>. QED
  BY <1>1, <1>2, <1>4, <1>5, <1>6, <1>7, <1>8, <1>9, <1>10, <1>11, <1>12, <1>13
     DEF Next, RunnerStep

CleanupInv == FailInv /\ WaitInv /\ CleanupHasProvenance

\* Ending with an error touches no row.
LEMMA CleanupFail ==
    ASSUME TypeInv, CleanupInv, Fail, UNCHANGED <<row, ckpt, order>>, ~At("off"),
           runner.result # "waiting_external"
    PROVE  CleanupInv'
<1>1. runner' = [runner EXCEPT !.phase = "ended", !.result = "error"] /\ runner \in Runner
  BY FailEnds DEF TypeInv, RowType
<1>2. runner'.phase = "ended" /\ runner'.result = "error"
  BY <1>1 DEF Runner
<1>. QED  BY <1>2 DEF CleanupInv, FailInv, WaitInv, CleanupHasProvenance, At

\* The failure of a run on its way through its cleanup, and what it is bound to.
LEMMA CleanupStep ==
    ASSUME TypeInv, CleanupInv, [Next]_vars
    PROVE  CleanupInv'
<1>a. /\ row \in RunRow /\ runner \in Runner /\ RowType /\ StoreType /\ PhaseInv
      /\ FailInv /\ WaitInv /\ CleanupHasProvenance
  BY DEF TypeInv, RowType, CleanupInv
<1>f. /\ row.status \in RunStatus /\ row.current \in SomeStep /\ row.fail \in FailureState
      /\ row.live \in BOOLEAN /\ row.wait \in SomeStep
      /\ runner.phase \in Phases /\ runner.step \in SomeStep /\ runner.outcome \in Outcomes
      /\ runner.result \in Completions \cup {"none", "error"}
      /\ runner.counts \in Counts /\ runner.by \in {"daemon", "cli", "operator"}
  BY <1>a, Fields
<1>b. CleanupSteps \subseteq Steps
  BY EngineAssumption
\* A step that writes no checkpoint and leaves the failure and the wait alone.
<1>k. ASSUME row'.fail = row.fail, row'.wait = row.wait, ckpt' = ckpt, order' = order,
             runner'.phase # "routed",
             row.fail.denied => row'.status = "failed" /\ runner'.phase \in {"ended", "off"},
             row'.status = "ready_to_resume" /\ row'.current \in CleanupSteps =>
                 row.fail.to = row'.current,
             runner'.result = "waiting_external" =>
                 runner.result = "waiting_external" /\ runner'.phase \in {"completing", "ended"},
             runner'.step \in CleanupSteps /\ runner'.phase \in {"ready", "executing", "executed"} =>
                 /\ row.fail.to = runner'.step
                 /\ row'.status = "ready_to_resume" \/ identity_current
      PROVE  CleanupInv'
  <2>1. identity_current' = identity_current
    BY <1>k DEF identity_current, Stored
  <2>2. FailInv'
    BY <1>a, <1>k DEF FailInv, At
  <2>3. WaitInv'
    BY <1>a, <1>k DEF WaitInv
  <2>4. CleanupHasProvenance'
    BY <1>a, <1>k, <2>1 DEF CleanupHasProvenance, FailInv
  <2>. QED  BY <2>2, <2>3, <2>4 DEF CleanupInv
<1>1. CASE persist_launch_with_capsule
  <2>1. /\ row.status = "none"
        /\ row' = [row EXCEPT !.status = "starting", !.current = StepSeq[1], !.live = TRUE]
        /\ runner'.phase = "starting" /\ runner'.result = "none"
        /\ ckpt' = ckpt /\ order' = order
    BY <1>1 DEF persist_launch_with_capsule, SetRunner, Off
  <2>2. ~row.fail.denied
    BY <1>a, <2>1 DEF FailInv
  <2>3. row'.fail = row.fail /\ row'.wait = row.wait /\ row'.status = "starting"
    BY <1>a, <2>1 DEF RunRow
  <2>. QED  BY <1>k, <2>1, <2>2, <2>3
<1>2. CASE mark_run_started
  <2>1. /\ At("starting") /\ row'.status = "running" /\ row'.fail = row.fail /\ row'.wait = row.wait
        /\ runner'.phase = "ready" /\ runner'.result = runner.result /\ runner'.step = runner.step
        /\ ckpt' = ckpt /\ order' = order
    BY <1>2, <1>a DEF mark_run_started, SetRunner, RunRow, Runner
  <2>2. runner.step \notin CleanupSteps
    BY <1>a, <2>1, FirstStep DEF PhaseInv
  <2>3. ~row.fail.denied /\ runner.result # "waiting_external"
    BY <1>a, <2>1 DEF FailInv, WaitInv, At
  <2>. QED  BY <1>k, <2>1, <2>2, <2>3
<1>3. CASE prepare_step_start
  <2>1. /\ At("ready") /\ ckpt' = ckpt /\ order' = order
        /\ ~row.fail.denied /\ runner.result # "waiting_external"
    BY <1>3, <1>a DEF prepare_step_start, FailInv, WaitInv, At
  <2>2. CASE Fail /\ UNCHANGED row
    BY <2>1, <2>2, CleanupFail DEF At
  <2>3. CASE ~(Fail /\ UNCHANGED row)
    <3>1. /\ row' = [row EXCEPT !.current = runner.step]
          /\ runner' = [runner EXCEPT !.phase = "executing"]
      BY <1>3, <2>3 DEF prepare_step_start, SetRunner
    <3>2. /\ row'.fail = row.fail /\ row'.wait = row.wait /\ row'.status = row.status
          /\ row'.current = runner.step
          /\ runner'.phase = "executing" /\ runner'.step = runner.step
          /\ runner'.result = runner.result
      BY <1>a, <3>1 DEF RunRow, Runner
    <3>3. runner.step \in CleanupSteps =>
             row.fail.to = runner.step /\ (row.status = "ready_to_resume" \/ identity_current)
      BY <1>a, <2>1 DEF CleanupHasProvenance, At
    <3>. QED  BY <1>k, <2>1, <3>2, <3>3
  <2>. QED  BY <2>2, <2>3
<1>4. CASE execute_current_step
  <2>1. /\ At("executing") /\ row' = row /\ ckpt' = ckpt /\ order' = order
        /\ ~row.fail.denied /\ runner.result # "waiting_external"
    BY <1>4, <1>a DEF execute_current_step, FailInv, WaitInv, At
  <2>2. CASE Fail
    BY <2>1, <2>2, CleanupFail DEF At
  <2>3. CASE ~Fail
    <3>1. PICK o : runner' = [runner EXCEPT !.phase = "executed", !.outcome = o]
      BY <1>4, <2>3 DEF execute_current_step, SetRunner
    <3>2. /\ runner'.phase = "executed" /\ runner'.step = runner.step
          /\ runner'.result = runner.result
      BY <1>a, <3>1 DEF Runner
    <3>3. /\ runner.step \in CleanupSteps =>
                 row.fail.to = runner.step /\ (row.status = "ready_to_resume" \/ identity_current)
          /\ row.status = "ready_to_resume" /\ row.current \in CleanupSteps =>
                 row.fail.to = row.current
      BY <1>a, <2>1 DEF CleanupHasProvenance, FailInv, At
    <3>. QED  BY <1>k, <2>1, <3>2, <3>3
  <2>. QED  BY <2>2, <2>3
<1>5. CASE persist_step_result
  <2>. DEFINE s == runner.step
              o == runner.outcome
              f == failure_states_for_step(s, o)
              b == build_failure_cleanup_state(s, o)
  <2>1. /\ s \in Steps /\ At("executed") /\ row.current = s
        /\ ~row.fail.denied /\ runner.result # "waiting_external"
    BY <1>5, <1>a DEF persist_step_result, At, PhaseInv, FailInv, WaitInv
  <2>2. s \in CleanupSteps => row.fail.to = s
    BY <1>a, <2>1 DEF CleanupHasProvenance, At
  <2>3. CASE Fail /\ UNCHANGED <<row, ckpt, order, lease>>
    BY <2>1, <2>3, CleanupFail DEF At
  <2>4. CASE ~(Fail /\ UNCHANGED <<row, ckpt, order, lease>>)
    <3>1. /\ save_checkpoint(s, "completed", runner.counts, b)
          /\ row' = [row EXCEPT
                !.fail = f,
                !.status = IF s \notin CleanupSteps THEN @
                           ELSE IF o = "success" THEN "abandoned" ELSE "failed",
                !.current = IF s \in CleanupSteps THEN row.fail.step ELSE @]
          /\ runner' = [runner EXCEPT !.phase = "routed"]
      BY <1>5, <2>4 DEF persist_step_result, SetRunner
    <3>2. /\ ckpt'[s].status = "completed" /\ ckpt'[s].bound = b /\ s \in Stored'
          /\ \A t \in Steps \ {s} : ckpt'[t].status = ckpt[t].status
          /\ b \in BOOLEAN
      <4>1. b \in BOOLEAN
        BY DEF build_failure_cleanup_state, routes_to_cleanup
      <4>2. save_checkpoint(s, "completed", runner.counts, b)
        BY <3>1
      <4>. HIDE DEF s, o, b
      <4>3. "completed" \in CheckpointStatus
        BY DEF CheckpointStatus
      <4>4. /\ Stored' = Stored \cup {s}
            /\ ckpt'[s] = [status |-> "completed", counts |-> runner.counts, bound |-> b]
            /\ \A t \in Steps \ {s} : ckpt'[t].status = ckpt[t].status
        BY <1>a, <1>f, <2>1, <4>1, <4>2, <4>3, SaveCheckpoint
      <4>. QED  BY <4>1, <4>4
    <3>3. /\ row'.fail = f /\ row'.wait = row.wait
          /\ s \notin CleanupSteps => row'.current = s
          /\ s \in CleanupSteps => row'.status \in {"abandoned", "failed"}
      BY <1>a, <2>1, <3>1 DEF RunRow
    <3>4. /\ runner'.phase = "routed" /\ runner'.step = s /\ runner'.outcome = o
          /\ runner'.result = runner.result
      BY <1>a, <3>1 DEF Runner
    <3>5. /\ f = NoFailure \/ (f.step \in Steps \ CleanupSteps /\ f.to \in CleanupSteps)
          /\ ~f.denied
          /\ routes_to_cleanup(s, o) => f.step = s /\ f.to \in resolve_next_step(s, o)
      BY <1>a, <1>f, <2>1, <2>2, RecordedFailure
    <3>6. routes_to_cleanup(s, o) => b
      BY <1>f, <2>1, RecordedTarget DEF build_failure_cleanup_state
    <3>. HIDE DEF f, b, s, o
    <3>7. FailInv'
      <4>1. routes_to_cleanup(s, o) => identity_current'
        BY <3>2, <3>3, <3>5, <3>6 DEF identity_current
      <4>2. (row'.status = "ready_to_resume" /\ row'.current \in CleanupSteps) => FALSE
        BY <3>3
      <4>3. /\ row'.fail = NoFailure \/ (row'.fail.step \in Steps \ CleanupSteps
                                          /\ row'.fail.to \in CleanupSteps)
            /\ ~row'.fail.denied
            /\ routes_to_cleanup(s, o) => row'.fail.to \in resolve_next_step(s, o)
        BY <3>3, <3>5
      <4>4. /\ routes_to_cleanup(runner'.step, runner'.outcome) = routes_to_cleanup(s, o)
            /\ resolve_next_step(runner'.step, runner'.outcome) = resolve_next_step(s, o)
        BY <3>4
      <4>. QED  BY <4>1, <4>2, <4>3, <4>4 DEF FailInv
    <3>8. WaitInv'
      BY <1>a, <1>b, <2>1, <3>2, <3>3, <3>4 DEF WaitInv
    <3>9. CleanupHasProvenance'
      BY <3>4 DEF CleanupHasProvenance
    <3>. QED  BY <3>7, <3>8, <3>9 DEF CleanupInv
  <2>. QED  BY <2>3, <2>4
<1>6. CASE persist_terminal_ownership_failure
  <2>. DEFINE s == runner.step
              n == CHOOSE m \in resolve_next_step(s, runner.outcome) : TRUE
              f == [step |-> s, done |-> FALSE, denied |-> TRUE, to |-> n]
  <2>1. s \in Steps /\ save_checkpoint(s, "completed", runner.counts, TRUE)
    BY <1>6, <1>a DEF persist_terminal_ownership_failure, At, PhaseInv
  <2>2. s \notin CleanupSteps /\ n \in CleanupSteps
    BY <1>6, <1>f, <2>1, RecordedTarget DEF persist_terminal_ownership_failure
  <2>3. /\ row' = [row EXCEPT !.status = "failed", !.current = s, !.fail = f]
        /\ runner' = [runner EXCEPT !.phase = "ended", !.result = "failure"]
    BY <1>6 DEF persist_terminal_ownership_failure, End, SetRunner
  <2>4. "completed" \in CheckpointStatus
    BY DEF CheckpointStatus
  <2>5. /\ ckpt'[s] = [status |-> "completed", counts |-> runner.counts, bound |-> TRUE]
        /\ \A t \in Steps \ {s} : ckpt'[t].status = ckpt[t].status
    BY <1>a, <1>f, <2>1, <2>4, SaveCheckpoint
  <2>6. f.step = s /\ f.to = n /\ ~f.done
    OBVIOUS
  <2>. HIDE DEF f, n
  <2>7. /\ row'.status = "failed" /\ row'.fail = f /\ row'.wait = row.wait
        /\ runner'.phase = "ended" /\ runner'.result = "failure"
    BY <1>a, <2>3 DEF RunRow, Runner
  <2>8. FailInv'
    BY <2>1, <2>2, <2>6, <2>7 DEF FailInv, At
  <2>9. WaitInv'
    BY <1>a, <1>b, <2>2, <2>5, <2>7 DEF WaitInv
  <2>10. CleanupHasProvenance'
    BY <2>7 DEF CleanupHasProvenance
  <2>. QED  BY <2>8, <2>9, <2>10 DEF CleanupInv
<1>7. CASE advance_to_next_step
  <2>. DEFINE s == runner.step
              o == runner.outcome
  <2>1. /\ s \in Steps /\ At("routed") /\ ~row.fail.denied /\ runner.result # "waiting_external"
        /\ UNCHANGED <<row, ckpt, order>>
    BY <1>7, <1>a DEF advance_to_next_step, At, PhaseInv, FailInv, WaitInv
  <2>2. PICK t \in find_transition(s, o) :
           \/ runner' = [runner EXCEPT !.phase = "completing", !.result = "abandoned"]
           \/ runner' = [runner EXCEPT !.phase = "ready", !.step = t.to,
                             !.outcome = "success", !.counts = increment_edge(s, t)]
    BY <1>7 DEF advance_to_next_step, Complete, SetRunner
  <2>3. o # "abandon"
    BY <1>7 DEF advance_to_next_step
  <2>4. t.to \in CleanupSteps => row.fail.to = t.to /\ identity_current
    <3>1. find_transition(s, o) = {t} /\ (t.to \in CleanupSteps => o # "success")
      <4>1. o \in Outcomes
        BY <1>f
      <4>. HIDE DEF s, o
      <4>. QED  BY <2>1, <4>1, Found
    <3>2. resolve_next_step(s, o) = {t.to}
      BY <2>3, <3>1 DEF resolve_next_step
    <3>3. t.to \in CleanupSteps => routes_to_cleanup(s, o)
      BY <3>1, <3>2 DEF routes_to_cleanup
    <3>. QED  BY <1>a, <2>1, <3>2, <3>3 DEF FailInv
  <2>5. row.status = "ready_to_resume" /\ row.current \in CleanupSteps => row.fail.to = row.current
    BY <1>a DEF FailInv
  <2>6. \/ runner'.phase = "completing" /\ runner'.result = "abandoned"
        \/ runner'.phase = "ready" /\ runner'.result = runner.result /\ runner'.step = t.to
    BY <1>a, <2>2 DEF Runner
  <2>7. CASE runner'.phase = "completing" /\ runner'.result = "abandoned"
    BY <1>k, <2>1, <2>5, <2>7
  <2>8. CASE runner'.phase = "ready" /\ runner'.result = runner.result /\ runner'.step = t.to
    BY <1>k, <2>1, <2>4, <2>5, <2>8
  <2>. QED  BY <2>6, <2>7, <2>8
<1>8. CASE finish_without_transition
  <2>. DEFINE s == runner.step
              o == runner.outcome
  <2>1. /\ s \in Steps /\ At("routed") /\ ~row.fail.denied /\ runner.result # "waiting_external"
        /\ row' = row
    BY <1>8, <1>a DEF finish_without_transition, At, PhaseInv, FailInv, WaitInv
  <2>2. PICK p \in {"ended", "completing"}, x \in Completions :
           /\ runner' = [runner EXCEPT !.phase = p, !.result = x]
           /\ x = "waiting_external" => o = "wait" /\ s \notin CleanupSteps /\ p = "completing"
    BY <1>8 DEF finish_without_transition, End, Complete, SetRunner, Completions
  <2>3. runner'.phase = p /\ runner'.result = x
    BY <1>a, <2>2 DEF Runner
  <2>4. row.status = "ready_to_resume" /\ row.current \in CleanupSteps => row.fail.to = row.current
    BY <1>a DEF FailInv
  <2>5. CASE o = "wait" /\ s \notin CleanupSteps
    <3>1. save_checkpoint(s, "waiting", runner.counts, FALSE)
      BY <1>8, <2>5 DEF finish_without_transition
    <3>2. "waiting" \in CheckpointStatus
      BY DEF CheckpointStatus
    <3>3. /\ order' # <<>> /\ Last(order') = s
          /\ \A t \in Steps \ {s} : ckpt'[t].status = ckpt[t].status
      BY <1>a, <1>f, <2>1, <3>1, <3>2, SaveCheckpoint
    <3>4. FailInv'
      BY <1>a, <2>1, <2>3 DEF FailInv, At
    <3>5. WaitInv'
      BY <1>a, <1>b, <2>1, <2>2, <2>3, <2>5, <3>3 DEF WaitInv
    <3>6. CleanupHasProvenance'
      BY <2>2, <2>3 DEF CleanupHasProvenance
    <3>. QED  BY <3>4, <3>5, <3>6 DEF CleanupInv
  <2>6. CASE ~(o = "wait" /\ s \notin CleanupSteps)
    <3>1. ckpt' = ckpt /\ order' = order
      BY <1>8, <2>6 DEF finish_without_transition
    <3>. QED  BY <1>k, <2>1, <2>2, <2>3, <2>4, <2>6, <3>1
  <2>. QED  BY <2>5, <2>6
<1>9. CASE record_run_completion
  <2>. DEFINE st == status_for_completion(runner.result)
  <2>1. /\ At("completing") /\ runner.result \in Completions /\ ~row.fail.denied
        /\ ckpt' = ckpt /\ order' = order
    BY <1>9, <1>a DEF record_run_completion, At, PhaseInv, FailInv
  <2>2. /\ st # "ready_to_resume"
        /\ runner.result = "waiting_external" => st # "review_ready"
    BY <2>1 DEF status_for_completion, Completions
  <2>3. /\ row' = [row EXCEPT !.status = st, !.current = runner.step]
        /\ runner' = [runner EXCEPT !.phase = IF st = "review_ready" THEN "merging" ELSE "ended"]
    BY <1>9 DEF record_run_completion, SetRunner
  <2>. HIDE DEF st
  <2>4. /\ row'.fail = row.fail /\ row'.wait = row.wait /\ row'.status = st
        /\ runner'.result = runner.result
        /\ runner'.phase = IF st = "review_ready" THEN "merging" ELSE "ended"
    BY <1>a, <2>3 DEF RunRow, Runner
  <2>. QED  BY <1>k, <2>1, <2>2, <2>4
<1>10. CASE complete_merge_required_run
  <2>1. /\ At("merging") /\ ~row.fail.denied /\ runner.result # "waiting_external"
        /\ UNCHANGED <<row, ckpt, order>>
        /\ row.status = "ready_to_resume" /\ row.current \in CleanupSteps =>
              row.fail.to = row.current
    BY <1>10, <1>a DEF complete_merge_required_run, At, FailInv, WaitInv
  <2>2. \/ runner' = [runner EXCEPT !.phase = "proved"]
        \/ \E x \in {"success", "error"} : runner' = [runner EXCEPT !.phase = "ended", !.result = x]
    BY <1>10 DEF complete_merge_required_run, End, SetRunner
  <2>3. runner'.phase \in {"proved", "ended"} /\ runner'.result # "waiting_external"
    BY <1>a, <2>1, <2>2 DEF Runner
  <2>. QED  BY <1>k, <2>1, <2>3
<1>11. CASE complete_typed_merge
  <2>1. /\ At("proved") /\ ~row.fail.denied /\ runner.result # "waiting_external"
        /\ UNCHANGED <<ckpt, order>>
        /\ row.status = "ready_to_resume" /\ row.current \in CleanupSteps =>
              row.fail.to = row.current
    BY <1>11, <1>a DEF complete_typed_merge, At, FailInv, WaitInv
  <2>2. /\ row' = row \/ row' = [row EXCEPT !.status = "merged"]
        /\ \E x \in {"success", "error"} : runner' = [runner EXCEPT !.phase = "ended", !.result = x]
    BY <1>11 DEF complete_typed_merge, End, SetRunner
  <2>3. /\ row'.fail = row.fail /\ row'.wait = row.wait /\ row'.current = row.current
        /\ row'.status \in {row.status, "merged"}
        /\ runner'.phase = "ended" /\ runner'.result # "waiting_external"
    BY <1>a, <2>2 DEF RunRow, Runner
  <2>. QED  BY <1>k, <2>1, <2>3
<1>12. CASE finalize_lease
  <2>. DEFINE w == IF runner.by = "daemon" /\ runner.result = "waiting_external"
                   THEN Last(order) ELSE row.wait
  <2>1. /\ At("ended") /\ UNCHANGED <<ckpt, order>> /\ runner' = Off
        /\ row' = [row EXCEPT !.live = @ /\ runner.by # "cli", !.wait = w]
    BY <1>12 DEF finalize_lease, SetRunner
  <2>2. w \notin CleanupSteps
    BY <1>a DEF WaitInv
  <2>. HIDE DEF w
  <2>3. /\ row'.fail = row.fail /\ row'.wait = w /\ row'.current = row.current
        /\ row'.status = row.status /\ runner'.phase = "off" /\ runner'.result = "none"
    BY <1>a, <2>1 DEF RunRow, Off
  <2>4. FailInv'
    BY <1>a, <2>1, <2>3 DEF FailInv, At
  <2>5. WaitInv' /\ CleanupHasProvenance'
    BY <1>a, <2>1, <2>2, <2>3 DEF WaitInv, CleanupHasProvenance
  <2>. QED  BY <2>4, <2>5 DEF CleanupInv
<1>13. CASE interrupt_at_step
  <2>1. /\ runner.step \in Steps /\ runner.phase \in {"ready", "executed"} /\ row' = row
        /\ runner' = [runner EXCEPT !.phase = "completing", !.result = "interrupted"]
        /\ save_checkpoint(runner.step, "interrupted", runner.counts, FALSE)
    BY <1>13, <1>a DEF interrupt_at_step, At, PhaseInv, SetRunner
  <2>2. "interrupted" \in CheckpointStatus
    BY DEF CheckpointStatus
  <2>3. /\ ckpt'[runner.step] = [status |-> "interrupted", counts |-> runner.counts, bound |-> FALSE]
        /\ \A t \in Steps \ {runner.step} : ckpt'[t].status = ckpt[t].status
    BY <1>a, <1>f, <2>1, <2>2, SaveCheckpoint
  <2>4. runner'.phase = "completing" /\ runner'.result = "interrupted"
    BY <1>a, <2>1 DEF Runner
  <2>5. FailInv'
    BY <1>a, <2>1, <2>4 DEF FailInv, At
  <2>6. WaitInv' /\ CleanupHasProvenance'
    BY <1>a, <1>b, <2>1, <2>3, <2>4 DEF WaitInv, CleanupHasProvenance
  <2>. QED  BY <2>5, <2>6 DEF CleanupInv
<1>14. ASSUME NEW kind \in {"resume", "retry", "retry_failed_step", "rewind"},
              NEW force \in BOOLEAN, recover_operator_run(kind, force)
       PROVE  CleanupInv'
  <2>1. PICK s \in PlanFor(kind, force) :
           runner' = [Off EXCEPT !.phase = "ready", !.step = s,
                          !.counts = load_checkpoint_state, !.by = "operator"]
    BY <1>14 DEF recover_operator_run, SetRunner, resume_counts
  <2>2. UNCHANGED <<row, ckpt, order>>
    BY <1>14 DEF recover_operator_run
  <2>3. s \notin CleanupSteps /\ ~row.fail.denied
    BY <1>a, PlannedStep
  <2>4. runner'.phase = "ready" /\ runner'.step = s /\ runner'.result = "none"
    BY <2>1 DEF Off
  <2>5. row.status = "ready_to_resume" /\ row.current \in CleanupSteps => row.fail.to = row.current
    BY <1>a DEF FailInv
  <2>. QED  BY <1>k, <2>2, <2>3, <2>4, <2>5
<1>15. CASE poll_ready
  <2>1. /\ At("off") /\ row.wait \in Steps \ CleanupSteps /\ row.status = "waiting_external"
        /\ row' = [row EXCEPT !.status = "ready_to_resume", !.current = row.wait, !.wait = NoStep]
        /\ set_resume_point(row.wait) /\ runner' = runner
    BY <1>15, <1>a, <1>f DEF poll_ready, SomeStep, WaitInv
  <2>2. \A t \in Steps : ckpt'[t].status \in {ckpt[t].status, "ready_to_resume"}
    BY <1>a, <2>1, SetResumePoint
  <2>3. /\ row'.fail = row.fail /\ row'.wait = NoStep /\ row'.current = row.wait
    BY <1>a, <2>1 DEF RunRow
  <2>4. ~row.fail.denied /\ runner.result # "waiting_external"
    BY <1>a, <2>1 DEF FailInv, WaitInv, At
  <2>5. FailInv'
    BY <1>a, <2>1, <2>3, <2>4 DEF FailInv, At
  <2>6. WaitInv' /\ CleanupHasProvenance'
    BY <1>a, <1>b, <2>1, <2>2, <2>3, <2>4, NoStepAssumption DEF WaitInv, CleanupHasProvenance, At
  <2>. QED  BY <2>5, <2>6 DEF CleanupInv
<1>16. CASE resume_ready
  <2>1. /\ At("off") /\ row.status = "ready_to_resume" /\ UNCHANGED <<row, ckpt, order>>
        /\ \/ runner' = runner
           \/ runner' = [Off EXCEPT !.phase = "ready", !.step = row.current,
                             !.counts = load_checkpoint_state, !.by = "daemon"]
    BY <1>16 DEF resume_ready, SetRunner, resume_counts
  <2>2. /\ ~row.fail.denied /\ runner.result # "waiting_external"
        /\ row.current \in CleanupSteps => row.fail.to = row.current
    BY <1>a, <2>1 DEF FailInv, WaitInv, At
  <2>3. \/ runner' = runner
        \/ runner'.phase = "ready" /\ runner'.step = row.current /\ runner'.result = "none"
    BY <2>1 DEF Off
  <2>4. CASE runner' = runner
    BY <1>k, <2>1, <2>2, <2>4 DEF At
  <2>5. CASE runner'.phase = "ready" /\ runner'.step = row.current /\ runner'.result = "none"
    BY <1>k, <2>1, <2>2, <2>5
  <2>. QED  BY <2>3, <2>4, <2>5
<1>17. CASE try_claim \/ lose_workspace \/ merge_pull_request \/ UNCHANGED vars
  <2>1. UNCHANGED <<row, ckpt, order, runner>>
    BY <1>17 DEF try_claim, lose_workspace, merge_pull_request, vars
  <2>2. identity_current' = identity_current
    BY <2>1 DEF identity_current, Stored
  <2>. QED
    BY <1>a, <2>1, <2>2 DEF CleanupInv, FailInv, WaitInv, CleanupHasProvenance, At
<1>18. CASE Crash \/ daemon_exits
  <2>1. /\ UNCHANGED <<ckpt, order>> /\ runner' \in {Off, runner}
        /\ runner' = runner => At("off")
        /\ \E l : row' = [row EXCEPT !.live = l]
    BY <1>18 DEF Crash, daemon_exits, SetRunner, At, Off
  <2>2. /\ row'.fail = row.fail /\ row'.wait = row.wait /\ row'.current = row.current
        /\ row'.status = row.status
    BY <1>a, <2>1 DEF RunRow
  <2>3. runner'.phase = "off" /\ runner'.result \in {"none", runner.result}
        /\ (runner'.result = "waiting_external" => FALSE)
    BY <1>a, <2>1 DEF Off, At, WaitInv
  <2>4. /\ row.fail.denied => row.status = "failed"
        /\ row.status = "ready_to_resume" /\ row.current \in CleanupSteps =>
              row.fail.to = row.current
    BY <1>a DEF FailInv
  <2>. QED  BY <1>k, <2>1, <2>2, <2>3, <2>4
<1>. QED
  BY <1>1, <1>2, <1>3, <1>4, <1>5, <1>6, <1>7, <1>8, <1>9, <1>10, <1>11, <1>12, <1>13, <1>14,
     <1>15, <1>16, <1>17, <1>18 DEF Next, RunnerStep

----------------------------------------------------------------------------
(* The loop edges' limits.                                                  *)

LEMMA LoadedCountsNext == StoreType' => load_checkpoint_state' \in Counts
<1>1. StoreType' => (load_checkpoint_state \in Counts)'
  BY LoadedCounts, PTL
<1>. QED  BY <1>1

LEMMA OneMoreBudget ==
    ASSUME NEW n \in Nat, NEW k \in Nat
    PROVE  n * k \in Nat /\ n * (k + 1) = n * k + n /\ n * (1 + k) = n * k + n
OBVIOUS

LEMMA LoadedWithin ==
    ASSUME StoreType, CountInv
    PROVE  WithinLimits(load_checkpoint_state) /\ WithinLimits(NoCounts)
<1>1. WithinLimits(NoCounts)
  BY DEF WithinLimits, NoCounts, StoreType, Counts
<1>2. CASE order = <<>>
  BY <1>1, <1>2 DEF load_checkpoint_state
<1>3. CASE order # <<>>
  <2>1. Last(order) \in Steps
    BY <1>3 DEF StoreType, Last
  <2>. QED  BY <1>1, <1>3, <2>1 DEF load_checkpoint_state, CountInv
<1>. QED  BY <1>2, <1>3

LEMMA CurrentWithin ==
    ASSUME TypeInv, CountInv
    PROVE  CurrentCounts \in Counts /\ WithinLimits(CurrentCounts)
<1>1. runner.counts \in Counts /\ load_checkpoint_state \in Counts
  BY Fields, LoadedCounts DEF TypeInv
<1>2. WithinLimits(runner.counts) /\ WithinLimits(load_checkpoint_state)
  BY LoadedWithin DEF TypeInv, CountInv
<1>. QED  BY <1>1, <1>2 DEF CurrentCounts

\* A step that takes no edge: either no count is lost, or one budget more is
\* allowed for, and that covers whatever the lost counts were.
LEMMA NoEdgeTaken ==
    ASSUME TypeInv, TypeInv', CountInv, traversed' = traversed,
           WithinLimits(runner'.counts),
           \A s \in Steps : WithinLimits(ckpt'[s].counts),
           runner'.phase \in {"routed", "completing", "merging", "proved"} =>
               runner'.counts = load_checkpoint_state',
           \/ lost' = lost /\ CurrentCounts' = CurrentCounts
           \/ lost' = lost + 1
    PROVE  CountInv'
<1>1. CurrentCounts' \in Counts
  <2>1. runner'.counts \in Counts
    BY DEF TypeInv, RowType, Runner
  <2>2. load_checkpoint_state' \in Counts
    BY LoadedCountsNext DEF TypeInv
  <2>. QED  BY <2>1, <2>2 DEF CurrentCounts
<1>2. CurrentCounts \in Counts /\ WithinLimits(CurrentCounts) /\ lost \in Nat /\ traversed \in Counts
  BY CurrentWithin DEF TypeInv, StoreType
<1>3. ASSUME NEW e \in Edges, NEW n \in Nat, UpperLimit(e, n)
      PROVE  traversed[e] <= CurrentCounts'[e] + n * lost'
  <2>1. /\ traversed[e] <= CurrentCounts[e] + n * lost /\ CurrentCounts[e] <= n
        /\ traversed[e] \in Nat /\ CurrentCounts[e] \in Nat /\ CurrentCounts'[e] \in Nat
    BY <1>1, <1>2, <1>3 DEF CountInv, WithinLimits, Counts
  <2>2. CASE lost' = lost /\ CurrentCounts' = CurrentCounts
    <3>1. n * lost' = n * lost /\ CurrentCounts'[e] = CurrentCounts[e]
      BY <2>2
    <3>. QED  BY <2>1, <3>1
  <2>3. CASE lost' = lost + 1
    <3>. DEFINE x == n * lost
    <3>1. x \in Nat /\ n * lost' = x + n
      BY <1>2, <2>3, OneMoreBudget
    <3>2. traversed[e] <= CurrentCounts[e] + x
      BY <2>1
    <3>. HIDE DEF x
    <3>. QED  BY <2>1, <3>1, <3>2
  <2>. QED  BY <2>2, <2>3
<1>4. \A c : WithinLimits(c) => \A e \in Edges :
          c[e] <= traversed'[e] /\ \A n \in Nat : UpperLimit(e, n) => c[e] <= n
  BY DEF WithinLimits
<1>. QED  BY <1>3, <1>4 DEF CountInv, WithinLimits, UpperLimit

LEMMA CountInit == Init => CountInv
<1>. SUFFICES ASSUME Init PROVE CountInv
  OBVIOUS
<1>1. /\ order = <<>> /\ lost = 0 /\ traversed = NoCounts /\ runner.counts = NoCounts
      /\ runner.phase = "off" /\ \A s \in Steps : ckpt[s].counts = NoCounts
  BY DEF Init, Off
<1>2. WithinLimits(NoCounts) /\ \A e \in Edges : NoCounts[e] = 0
  BY <1>1 DEF WithinLimits, NoCounts
<1>3. CurrentCounts = NoCounts
  BY <1>1 DEF CurrentCounts, load_checkpoint_state
<1>4. \A e \in Edges : \A n \in Nat : traversed[e] <= CurrentCounts[e] + n * lost
  BY <1>1, <1>2, <1>3
<1>. QED  BY <1>1, <1>2, <1>4 DEF CountInv

\* Taking an edge: a limited one is counted, and there is room for it.
LEMMA EdgeTaken ==
    ASSUME TypeInv, CountInv, At("routed"),
           NEW t \in find_transition(runner.step, runner.outcome),
           ~enforce_edge_limit(runner.step, t),
           runner' = [runner EXCEPT !.phase = "ready", !.step = t.to, !.outcome = "success",
                          !.counts = increment_edge(runner.step, t)],
           traversed' = [traversed EXCEPT ![<<runner.step, t.to>>] =
                             IF is_limited_transition(runner.step, t.to, t) THEN @ + 1 ELSE @],
           UNCHANGED <<ckpt, order, lost>>
    PROVE  CountInv'
<1>. DEFINE s == runner.step
            d == <<s, t.to>>
            new == increment_edge(s, t)
            limited == is_limited_transition(s, t.to, t)
<1>1. s \in Steps /\ runner.outcome \in Outcomes
  BY Fields DEF TypeInv, PhaseInv, At
<1>2. /\ d \in Edges /\ edge_limit(t) \in Nat /\ edge_limit(t) \in LimitsOf[d]
  <2>. HIDE DEF s
  <2>1. s = runner.step
    BY DEF s
  <2>. QED  BY <1>1, <2>1, Found, LimitOfEdge
<1>3. /\ runner \in Runner /\ runner.counts \in Counts /\ traversed \in Counts /\ lost \in Nat
      /\ \A x \in Steps : ckpt[x].counts \in Counts
  BY Fields DEF TypeInv, RowType, StoreType, Checkpoint
<1>4. runner'.phase = "ready" /\ runner'.counts = new
  BY <1>3 DEF Runner
<1>5. /\ \A e \in Edges : new[e] = IF e = d /\ limited THEN runner.counts[e] + 1 ELSE runner.counts[e]
      /\ \A e \in Edges : traversed'[e] = IF e = d /\ limited THEN traversed[e] + 1 ELSE traversed[e]
  BY <1>2, <1>3 DEF increment_edge, Counts
<1>6. limited => runner.counts[d] < edge_limit(t)
  BY <1>2, <1>3 DEF enforce_edge_limit, Counts
<1>. HIDE DEF s, d, new, limited
<1>7. ASSUME NEW e \in Edges
      PROVE  /\ new[e] <= traversed'[e] /\ traversed[e] <= traversed'[e]
             /\ \A n \in Nat : UpperLimit(e, n) => new[e] <= n
  <2>1. /\ runner.counts[e] \in Nat /\ traversed[e] \in Nat /\ runner.counts[e] <= traversed[e]
        /\ \A n \in Nat : UpperLimit(e, n) => runner.counts[e] <= n
    BY <1>3 DEF Counts, CountInv, WithinLimits
  <2>2. CASE e = d /\ limited
    <3>1. ASSUME NEW n \in Nat, UpperLimit(e, n) PROVE runner.counts[e] + 1 <= n
      <4>1. edge_limit(t) <= n
        BY <1>2, <2>2, <3>1 DEF UpperLimit
      <4>. QED  BY <1>2, <1>6, <2>1, <2>2, <4>1
    <3>. QED  BY <1>5, <2>1, <2>2, <3>1
  <2>3. CASE ~(e = d /\ limited)
    BY <1>5, <2>1, <2>3
  <2>. QED  BY <2>2, <2>3
<1>8. ASSUME NEW x \in Steps, NEW e \in Edges
      PROVE  /\ ckpt'[x].counts[e] <= traversed'[e]
             /\ \A n \in Nat : UpperLimit(e, n) => ckpt'[x].counts[e] <= n
  <2>1. /\ ckpt[x].counts[e] \in Nat /\ traversed[e] \in Nat /\ ckpt[x].counts[e] <= traversed[e]
        /\ \A n \in Nat : UpperLimit(e, n) => ckpt[x].counts[e] <= n
    BY <1>3 DEF Counts, CountInv, WithinLimits
  <2>2. traversed[e] <= traversed'[e] /\ traversed'[e] \in Nat
    BY <1>5, <1>7, <2>1
  <2>. QED  BY <2>1, <2>2
<1>9. ASSUME NEW e \in Edges, NEW n \in Nat, UpperLimit(e, n)
      PROVE  traversed'[e] <= new[e] + n * lost'
  <2>. DEFINE y == n * lost
  <2>1. y \in Nat /\ n * lost' = y
    BY <1>3, OneMoreBudget
  <2>2. CurrentCounts = runner.counts
    BY DEF CurrentCounts, At
  <2>3. traversed[e] <= runner.counts[e] + y
    BY <1>9, <2>2 DEF CountInv
  <2>. HIDE DEF y
  <2>4. runner.counts[e] \in Nat /\ traversed[e] \in Nat
    BY <1>3 DEF Counts
  <2>. QED  BY <1>5, <2>1, <2>3, <2>4
<1>10. CurrentCounts' = new
  BY <1>4 DEF CurrentCounts
<1>11. \A e : \A n : UpperLimit(e, n)' = UpperLimit(e, n)
  BY DEF UpperLimit
<1>. QED  BY <1>4, <1>7, <1>8, <1>9, <1>10, <1>11 DEF CountInv, WithinLimits, UpperLimit

LEMMA CountFail ==
    ASSUME TypeInv, TypeInv', CountInv, Fail, runner.phase \in {"ready", "executing", "executed"},
           UNCHANGED <<ckpt, order, traversed>>
    PROVE  CountInv'
<1>1. /\ runner' = [runner EXCEPT !.phase = "ended", !.result = "error"] /\ runner \in Runner
      /\ lost' \in {lost, lost + 1}
      /\ lost' = lost => runner.counts = load_checkpoint_state
  BY FailEnds DEF TypeInv, RowType
<1>2. runner'.phase = "ended" /\ runner'.counts = runner.counts
  BY <1>1 DEF Runner
<1>3. load_checkpoint_state' = load_checkpoint_state
  BY DEF load_checkpoint_state
<1>4. CurrentCounts' = load_checkpoint_state /\ CurrentCounts = runner.counts
  BY <1>2, <1>3 DEF CurrentCounts
<1>. QED  BY <1>1, <1>2, <1>4, NoEdgeTaken DEF CountInv

\* Writing the counts of the execution makes them the ones it is resumed with.
LEMMA CountSave ==
    ASSUME TypeInv, TypeInv', CountInv,
           NEW st \in CheckpointStatus, NEW b \in BOOLEAN,
           save_checkpoint(runner.step, st, runner.counts, b),
           runner.phase \in {"ready", "executed", "routed"},
           runner'.phase \in {"routed", "completing", "ended"},
           runner'.counts = runner.counts, UNCHANGED <<traversed, lost>>
    PROVE  CountInv'
<1>1. /\ runner.step \in Steps /\ runner.counts \in Counts /\ StoreType
  BY Fields DEF TypeInv, PhaseInv, At
<1>2. /\ ckpt'[runner.step] = [status |-> st, counts |-> runner.counts, bound |-> b]
      /\ \A t \in Steps \ {runner.step} : ckpt'[t].counts = ckpt[t].counts
      /\ load_checkpoint_state' = runner.counts
  BY <1>1, SaveCheckpoint
<1>3. \A t \in Steps : WithinLimits(ckpt'[t].counts)
  BY <1>2 DEF CountInv
<1>4. CurrentCounts' = runner.counts /\ CurrentCounts = runner.counts
  BY <1>2 DEF CurrentCounts
<1>. QED  BY <1>2, <1>3, <1>4, NoEdgeTaken DEF CountInv

LEMMA CountStep ==
    ASSUME TypeInv, TypeInv', CountInv, [Next]_vars
    PROVE  CountInv'
<1>a. /\ row \in RunRow /\ runner \in Runner /\ RowType /\ StoreType /\ PhaseInv
      /\ WithinLimits(load_checkpoint_state) /\ WithinLimits(NoCounts)
      /\ WithinLimits(runner.counts) /\ \A s \in Steps : WithinLimits(ckpt[s].counts)
  BY LoadedWithin DEF TypeInv, RowType, CountInv
<1>s. {"completed", "interrupted", "waiting"} \subseteq CheckpointStatus
  BY DEF CheckpointStatus
\* A step that writes no checkpoint, takes no edge and loses nothing.
<1>k. ASSUME UNCHANGED <<ckpt, order, traversed, lost>>,
             runner'.counts \in {runner.counts, load_checkpoint_state, NoCounts},
             CurrentCounts' = CurrentCounts,
             runner'.phase \in {"routed", "completing", "merging", "proved"} =>
                 runner'.counts = load_checkpoint_state
      PROVE  CountInv'
  <2>1. load_checkpoint_state' = load_checkpoint_state
    BY <1>k DEF load_checkpoint_state
  <2>. QED  BY <1>a, <1>k, <2>1, NoEdgeTaken
<1>l. ASSUME UNCHANGED <<ckpt, order>> PROVE load_checkpoint_state' = load_checkpoint_state
  BY <1>l DEF load_checkpoint_state
<1>1. CASE persist_launch_with_capsule
  <2>1. /\ At("off") /\ row.status = "none" /\ UNCHANGED <<ckpt, order, traversed, lost>>
        /\ runner'.phase = "starting" /\ runner'.counts = NoCounts
    BY <1>1 DEF persist_launch_with_capsule, SetRunner, Off
  <2>2. load_checkpoint_state = NoCounts
    BY <1>a, <2>1 DEF PhaseInv, load_checkpoint_state
  <2>3. CurrentCounts' = CurrentCounts
    BY <2>1, <2>2 DEF CurrentCounts, At
  <2>. QED  BY <1>k, <2>1, <2>3
<1>2. CASE mark_run_started
  <2>1. /\ At("starting") /\ UNCHANGED <<ckpt, order, traversed, lost>>
        /\ runner'.phase = "ready" /\ runner'.counts = runner.counts
    BY <1>2, <1>a DEF mark_run_started, SetRunner, Runner
  <2>2. CurrentCounts' = CurrentCounts
    BY <2>1 DEF CurrentCounts, At
  <2>. QED  BY <1>k, <2>1, <2>2
<1>3. CASE prepare_step_start \/ execute_current_step
  <2>1. /\ runner.phase \in {"ready", "executing"} /\ UNCHANGED <<ckpt, order, traversed>>
    BY <1>3 DEF prepare_step_start, execute_current_step, At
  <2>2. CASE Fail
    BY <2>1, <2>2, CountFail
  <2>3. CASE ~Fail
    <3>1. lost' = lost /\ \/ runner' = [runner EXCEPT !.phase = "executing"]
                          \/ \E o : runner' = [runner EXCEPT !.phase = "executed", !.outcome = o]
      BY <1>3, <2>3 DEF prepare_step_start, execute_current_step, SetRunner
    <3>2. runner'.phase \in {"executing", "executed"} /\ runner'.counts = runner.counts
      BY <1>a, <3>1 DEF Runner
    <3>3. CurrentCounts' = CurrentCounts
      BY <2>1, <3>2 DEF CurrentCounts
    <3>. QED  BY <1>k, <2>1, <3>1, <3>2, <3>3
  <2>. QED  BY <2>2, <2>3
<1>4. CASE persist_step_result
  <2>. DEFINE b == build_failure_cleanup_state(runner.step, runner.outcome)
  <2>1. At("executed") /\ traversed' = traversed
    BY <1>4 DEF persist_step_result
  <2>2. CASE Fail /\ UNCHANGED <<row, ckpt, order, lease>>
    BY <2>1, <2>2, CountFail DEF At
  <2>3. CASE ~(Fail /\ UNCHANGED <<row, ckpt, order, lease>>)
    <3>1. /\ save_checkpoint(runner.step, "completed", runner.counts, b)
          /\ runner' = [runner EXCEPT !.phase = "routed"] /\ lost' = lost
      BY <1>4, <2>3 DEF persist_step_result, SetRunner
    <3>2. runner'.phase = "routed" /\ runner'.counts = runner.counts
      BY <1>a, <3>1 DEF Runner
    <3>3. b \in BOOLEAN
      BY DEF build_failure_cleanup_state, routes_to_cleanup
    <3>. HIDE DEF b
    <3>. QED  BY <1>s, <2>1, <3>1, <3>2, <3>3, CountSave DEF At
  <2>. QED  BY <2>2, <2>3
<1>5. CASE persist_terminal_ownership_failure
  <2>1. /\ At("executed") /\ UNCHANGED <<traversed, lost>>
        /\ save_checkpoint(runner.step, "completed", runner.counts, TRUE)
        /\ runner' = [runner EXCEPT !.phase = "ended", !.result = "failure"]
    BY <1>5 DEF persist_terminal_ownership_failure, End, SetRunner
  <2>2. runner'.phase = "ended" /\ runner'.counts = runner.counts
    BY <1>a, <2>1 DEF Runner
  <2>. QED  BY <1>s, <2>1, <2>2, CountSave DEF At
<1>6. CASE advance_to_next_step
  <2>1. At("routed") /\ UNCHANGED <<ckpt, order, lost>>
    BY <1>6 DEF advance_to_next_step
  <2>2. PICK t \in find_transition(runner.step, runner.outcome) :
           IF enforce_edge_limit(runner.step, t)
           THEN Complete("abandoned") /\ UNCHANGED traversed
           ELSE /\ SetRunner([runner EXCEPT !.phase = "ready", !.step = t.to,
                         !.outcome = "success", !.counts = increment_edge(runner.step, t)])
                /\ traversed' = [traversed EXCEPT ![<<runner.step, t.to>>] =
                         IF is_limited_transition(runner.step, t.to, t) THEN @ + 1 ELSE @]
    BY <1>6 DEF advance_to_next_step
  <2>3. CASE enforce_edge_limit(runner.step, t)
    <3>1. /\ runner' = [runner EXCEPT !.phase = "completing", !.result = "abandoned"]
          /\ traversed' = traversed
      BY <2>2, <2>3 DEF Complete, SetRunner
    <3>2. runner'.phase = "completing" /\ runner'.counts = runner.counts
      BY <1>a, <3>1 DEF Runner
    <3>3. CurrentCounts' = CurrentCounts /\ runner.counts = load_checkpoint_state
      BY <2>1, <3>2 DEF CurrentCounts, At, CountInv
    <3>. QED  BY <1>k, <2>1, <3>1, <3>2, <3>3
  <2>4. CASE ~enforce_edge_limit(runner.step, t)
    BY <2>1, <2>2, <2>4, EdgeTaken DEF SetRunner
  <2>. QED  BY <2>3, <2>4
<1>7. CASE finish_without_transition
  <2>1. /\ At("routed") /\ UNCHANGED <<traversed, lost>>
        /\ runner.counts = load_checkpoint_state
    BY <1>7 DEF finish_without_transition, CountInv, At
  <2>2. PICK p \in {"ended", "completing"} :
           \E x : runner' = [runner EXCEPT !.phase = p, !.result = x]
    BY <1>7 DEF finish_without_transition, End, Complete, SetRunner
  <2>3. runner'.phase = p /\ runner'.counts = runner.counts
    BY <1>a, <2>2 DEF Runner
  <2>4. CASE save_checkpoint(runner.step, "waiting", runner.counts, FALSE)
    BY <1>s, <2>1, <2>2, <2>3, <2>4, CountSave DEF At
  <2>5. CASE UNCHANGED <<ckpt, order>>
    <3>1. CurrentCounts' = CurrentCounts
      BY <1>l, <2>1, <2>2, <2>3, <2>5 DEF CurrentCounts, At
    <3>. QED  BY <1>k, <2>1, <2>3, <2>5, <3>1
  <2>. QED  BY <1>7, <2>4, <2>5 DEF finish_without_transition
<1>8. CASE record_run_completion \/ complete_merge_required_run \/ complete_typed_merge
  <2>1. /\ runner.phase \in {"completing", "merging", "proved"}
        /\ UNCHANGED <<ckpt, order, traversed, lost>>
        /\ runner.counts = load_checkpoint_state
    BY <1>8 DEF record_run_completion, complete_merge_required_run, complete_typed_merge, CountInv, At
  <2>2. PICK p \in {"merging", "ended", "proved"} :
           \E x : runner' = [runner EXCEPT !.phase = p] \/ runner' = [runner EXCEPT !.phase = p, !.result = x]
    BY <1>8 DEF record_run_completion, complete_merge_required_run, complete_typed_merge, End, SetRunner
  <2>3. runner'.phase = p /\ runner'.counts = runner.counts
    BY <1>a, <2>2 DEF Runner
  <2>4. CurrentCounts' = CurrentCounts
    BY <1>l, <2>1, <2>2, <2>3 DEF CurrentCounts
  <2>. QED  BY <1>k, <2>1, <2>3, <2>4
<1>9. CASE finalize_lease
  <2>1. /\ At("ended") /\ UNCHANGED <<ckpt, order, traversed, lost>> /\ runner' = Off
    BY <1>9 DEF finalize_lease, SetRunner
  <2>2. runner'.phase = "off" /\ runner'.counts = NoCounts
    BY <2>1 DEF Off
  <2>3. CurrentCounts' = CurrentCounts
    BY <1>l, <2>1, <2>2 DEF CurrentCounts, At
  <2>. QED  BY <1>k, <2>1, <2>2, <2>3
<1>10. CASE interrupt_at_step
  <2>1. /\ runner.phase \in {"ready", "executed"} /\ UNCHANGED <<traversed, lost>>
        /\ runner' = [runner EXCEPT !.phase = "completing", !.result = "interrupted"]
        /\ save_checkpoint(runner.step, "interrupted", runner.counts, FALSE)
    BY <1>10 DEF interrupt_at_step, SetRunner
  <2>2. runner'.phase = "completing" /\ runner'.counts = runner.counts
    BY <1>a, <2>1 DEF Runner
  <2>. QED  BY <1>s, <2>1, <2>2, CountSave
<1>11. ASSUME \/ resume_ready
              \/ \E kind \in {"resume", "retry", "retry_failed_step", "rewind"},
                    force \in BOOLEAN : recover_operator_run(kind, force)
       PROVE  CountInv'
  <2>1. /\ At("off") /\ UNCHANGED <<ckpt, order, traversed, lost>>
        /\ \/ runner' = runner
           \/ \E s, by : runner' = [Off EXCEPT !.phase = "ready", !.step = s,
                                        !.counts = load_checkpoint_state, !.by = by]
    BY <1>11 DEF resume_ready, recover_operator_run, SetRunner, resume_counts
  <2>2. \/ runner' = runner
        \/ runner'.phase = "ready" /\ runner'.counts = load_checkpoint_state
    BY <2>1 DEF Off
  <2>3. CurrentCounts' = CurrentCounts
    BY <1>l, <2>1, <2>2 DEF CurrentCounts, At
  <2>. QED  BY <1>k, <2>1, <2>2, <2>3 DEF At
<1>12. CASE poll_ready
  <2>1. /\ At("off") /\ row.wait \in Steps /\ set_resume_point(row.wait)
        /\ lost' = IF ckpt[row.wait].counts = load_checkpoint_state THEN lost ELSE lost + 1
        /\ UNCHANGED <<runner, traversed>>
    BY <1>12, Fields DEF poll_ready, SomeStep, TypeInv
  <2>2. /\ \A t \in Steps : ckpt'[t].counts = ckpt[t].counts
        /\ load_checkpoint_state' = ckpt[row.wait].counts
    BY <1>a, <2>1, SetResumePoint
  <2>3. CurrentCounts' = ckpt[row.wait].counts /\ CurrentCounts = load_checkpoint_state
    BY <2>1, <2>2 DEF CurrentCounts, At
  <2>4. \/ lost' = lost /\ CurrentCounts' = CurrentCounts
        \/ lost' = lost + 1
    BY <2>1, <2>3
  <2>. QED  BY <1>a, <2>1, <2>2, <2>4, NoEdgeTaken DEF At
<1>13. CASE Crash
  <2>1. /\ ~At("off") /\ UNCHANGED <<ckpt, order, traversed>> /\ runner' = Off
        /\ lost' = IF runner.counts = load_checkpoint_state THEN lost ELSE lost + 1
    BY <1>13 DEF Crash, SetRunner, Lose
  <2>2. runner'.phase = "off" /\ runner'.counts = NoCounts
    BY <2>1 DEF Off
  <2>3. CurrentCounts' = load_checkpoint_state
    BY <1>l, <2>1, <2>2 DEF CurrentCounts
  <2>4. CurrentCounts \in {runner.counts, load_checkpoint_state}
    BY DEF CurrentCounts
  <2>5. \/ lost' = lost /\ CurrentCounts' = CurrentCounts
        \/ lost' = lost + 1
    BY <2>1, <2>3, <2>4
  <2>. QED  BY <1>a, <2>1, <2>2, <2>5, NoEdgeTaken
<1>14. CASE try_claim \/ daemon_exits \/ lose_workspace \/ merge_pull_request \/ UNCHANGED vars
  <2>1. UNCHANGED <<ckpt, order, runner, traversed, lost>>
    BY <1>14 DEF try_claim, daemon_exits, lose_workspace, merge_pull_request, vars
  <2>2. CurrentCounts' = CurrentCounts
    BY <1>l, <2>1 DEF CurrentCounts
  <2>. QED  BY <1>k, <2>1, <2>2 DEF CountInv
<1>. QED
  BY <1>1, <1>2, <1>3, <1>4, <1>5, <1>6, <1>7, <1>8, <1>9, <1>10, <1>11, <1>12, <1>13, <1>14
     DEF Next, RunnerStep

\* What the limits say of the traversals, in every phase.
LEMMA BudgetOf ==
    ASSUME TypeInv, CountInv, NEW e \in Edges, NEW n \in LimitsOf[e], UpperLimit(e, n)
    PROVE  traversed[e] <= n * (1 + lost)
<1>1. n \in Nat
  <2>1. PICK k \in DOMAIN Transitions : /\ n = edge_limit(Transitions[k])
                                        /\ e = <<Transitions[k].from, Transitions[k].to>>
    BY DEF LimitsOf
  <2>2. Transitions[k].limit \subseteq Nat
    <3>. DEFINE T == [from : Steps, to : Steps, on : Outcomes \cup {"any"}, limit : SUBSET Nat]
    <3>1. Transitions \in Seq(T)
      BY EngineAssumption
    <3>. HIDE DEF T
    <3>2. Transitions[k] \in T
      BY <2>1, <3>1
    <3>. QED  BY <3>2 DEF T
  <2>. QED  BY <2>1, <2>2, EngineAssumption DEF edge_limit
<1>2. CurrentCounts \in Counts /\ WithinLimits(CurrentCounts) /\ lost \in Nat /\ traversed \in Counts
  BY CurrentWithin DEF TypeInv, StoreType
<1>. DEFINE x == n * lost
<1>3. x \in Nat /\ n * (1 + lost) = x + n
  BY <1>1, <1>2, OneMoreBudget
<1>4. traversed[e] <= CurrentCounts[e] + x
  BY <1>1 DEF CountInv
<1>5. CurrentCounts[e] <= n /\ CurrentCounts[e] \in Nat /\ traversed[e] \in Nat
  BY <1>1, <1>2 DEF WithinLimits, Counts
<1>. HIDE DEF x
<1>. QED  BY <1>1, <1>3, <1>4, <1>5

\* A run that ends at a limit has used it up.
LimitUsedUp ==
    At("completing") /\ runner.result = "abandoned" /\ runner.outcome # "abandon" =>
        \E e \in Edges : e[1] = runner.step /\ \E n \in LimitsOf[e] : traversed[e] >= n

LEMMA LimitStep ==
    ASSUME TypeInv, CountInv, LimitUsedUp, [Next]_vars
    PROVE  LimitUsedUp'
<1>a. runner \in Runner /\ PhaseInv
  BY DEF TypeInv, RowType
<1>1. CASE advance_to_next_step
  <2>. DEFINE s == runner.step
  <2>1. /\ At("routed") /\ s \in Steps /\ runner.outcome \in Outcomes
    BY <1>1, <1>a, Fields DEF advance_to_next_step, At, PhaseInv, TypeInv
  <2>2. PICK t \in find_transition(s, runner.outcome) :
           IF enforce_edge_limit(s, t)
           THEN Complete("abandoned") /\ UNCHANGED traversed
           ELSE SetRunner([runner EXCEPT !.phase = "ready", !.step = t.to,
                               !.outcome = "success", !.counts = increment_edge(s, t)])
    BY <1>1 DEF advance_to_next_step
  <2>3. CASE enforce_edge_limit(s, t)
    <3>1. <<s, t.to>> \in Edges /\ edge_limit(t) \in LimitsOf[<<s, t.to>>] /\ edge_limit(t) \in Nat
      BY <2>1, Found, LimitOfEdge
    <3>2. runner'.step = s /\ traversed' = traversed
      BY <1>a, <2>2, <2>3 DEF Complete, SetRunner, Runner
    <3>3. /\ runner.counts[<<s, t.to>>] >= edge_limit(t)
          /\ runner.counts[<<s, t.to>>] <= traversed[<<s, t.to>>]
          /\ runner.counts[<<s, t.to>>] \in Nat /\ traversed[<<s, t.to>>] \in Nat
      BY <1>a, <2>3, <3>1 DEF enforce_edge_limit, CountInv, WithinLimits, Runner, Counts, TypeInv, StoreType
    <3>4. traversed[<<s, t.to>>] >= edge_limit(t) /\ <<s, t.to>>[1] = s
      BY <3>1, <3>3
    <3>. QED  BY <3>1, <3>2, <3>4 DEF LimitUsedUp
  <2>4. CASE ~enforce_edge_limit(s, t)
    <3>1. runner'.phase = "ready"
      BY <1>a, <2>2, <2>4 DEF SetRunner, Runner
    <3>. QED  BY <3>1 DEF LimitUsedUp, At
  <2>. QED  BY <2>3, <2>4
<1>2. CASE finish_without_transition
  <2>1. PICK p \in {"ended", "completing"}, x \in Completions :
           /\ runner' = [runner EXCEPT !.phase = p, !.result = x]
           /\ p = "completing" /\ x = "abandoned" => runner.outcome = "abandon"
    BY <1>2 DEF finish_without_transition, End, Complete, SetRunner, Completions
  <2>2. runner'.phase = p /\ runner'.result = x /\ runner'.outcome = runner.outcome
    BY <1>a, <2>1 DEF Runner
  <2>. QED  BY <2>1, <2>2 DEF LimitUsedUp, At
<1>3. CASE interrupt_at_step
  <2>1. runner'.result = "interrupted"
    BY <1>3, <1>a DEF interrupt_at_step, SetRunner, Runner
  <2>. QED  BY <2>1 DEF LimitUsedUp
<1>4. CASE ~(advance_to_next_step \/ finish_without_transition \/ interrupt_at_step)
  <2>1. traversed' = traversed /\ (runner' = runner \/ runner'.phase # "completing")
    <3>1. CASE persist_launch_with_capsule
      BY <3>1 DEF persist_launch_with_capsule, SetRunner, Off
    <3>2. CASE mark_run_started \/ prepare_step_start \/ execute_current_step
      BY <1>a, <3>2
         DEF mark_run_started, prepare_step_start, execute_current_step, Fail, End, SetRunner, Runner
    <3>3. CASE persist_step_result \/ persist_terminal_ownership_failure
      BY <1>a, <3>3
         DEF persist_step_result, persist_terminal_ownership_failure, Fail, End, SetRunner, Runner
    <3>4. CASE record_run_completion \/ complete_merge_required_run \/ complete_typed_merge
      BY <1>a, <3>4 DEF record_run_completion, complete_merge_required_run, complete_typed_merge,
                        End, SetRunner, Runner
    <3>5. CASE finalize_lease \/ Crash
      BY <3>5 DEF finalize_lease, Crash, SetRunner, Off
    <3>6. CASE resume_ready
      BY <3>6 DEF resume_ready, SetRunner, Off
    <3>7. CASE \E kind \in {"resume", "retry", "retry_failed_step", "rewind"}, force \in BOOLEAN :
                  recover_operator_run(kind, force)
      BY <3>7 DEF recover_operator_run, SetRunner, Off
    <3>8. CASE poll_ready \/ try_claim \/ daemon_exits \/ lose_workspace \/ merge_pull_request
               \/ UNCHANGED vars
      BY <3>8 DEF poll_ready, try_claim, daemon_exits, lose_workspace, merge_pull_request, vars
    <3>. QED
      BY <1>4, <3>1, <3>2, <3>3, <3>4, <3>5, <3>6, <3>7, <3>8 DEF Next, RunnerStep
  <2>. QED  BY <2>1 DEF LimitUsedUp, At
<1>. QED  BY <1>1, <1>2, <1>3, <1>4

----------------------------------------------------------------------------
(* The theorems.                                                            *)

EngineInv == TypeInv /\ CleanupInv /\ CountInv /\ LimitUsedUp /\ MergedIsProved

LEMMA EngineInit == Init => EngineInv
<1>. SUFFICES ASSUME Init PROVE EngineInv
  OBVIOUS
<1>1. CleanupInv
  BY NoStepAssumption, EngineAssumption
     DEF Init, CleanupInv, FailInv, WaitInv, CleanupHasProvenance, At, Off, NoFailure
<1>2. LimitUsedUp /\ MergedIsProved
  BY DEF Init, LimitUsedUp, MergedIsProved, At, Off
<1>. QED  BY <1>1, <1>2, TypeInit, CountInit DEF EngineInv

LEMMA EngineStep == EngineInv /\ [Next]_vars => EngineInv'
<1>. SUFFICES ASSUME EngineInv, [Next]_vars PROVE EngineInv'
  OBVIOUS
<1>1. TypeInv'
  BY TypeStep DEF EngineInv, CleanupInv
<1>2. CleanupInv'
  BY CleanupStep DEF EngineInv
<1>3. CountInv'
  BY <1>1, CountStep DEF EngineInv
<1>4. LimitUsedUp'
  BY LimitStep DEF EngineInv
<1>5. MergedIsProved'
  BY MergedStep DEF EngineInv, CleanupInv
<1>. QED  BY <1>1, <1>2, <1>3, <1>4, <1>5 DEF EngineInv

LEMMA EngineInvariant == Spec => []EngineInv
  BY EngineInit, EngineStep, PTL DEF Spec

\* A loop edge of the workflow is never taken more often than its largest limit
\* allows, one budget more for every time the counts of an execution were lost,
\* and a run abandoned at a limit has used that limit up: for every workflow,
\* through every order of deaths, resumes, retries and rewinds.
THEOREM LimitsHold == Spec => []EdgeBudget
<1>1. EngineInv => EdgeBudget
  BY BudgetOf DEF EngineInv, EdgeBudget, LimitUsedUp, UpperLimit
<1>. QED  BY <1>1, EngineInvariant, PTL

\* A cleanup step runs on behalf of the failure that was recorded with it, never
\* in a workspace whose ownership was denied.
THEOREM CleanupIsProvenanced == Spec => []CleanupHasProvenance
<1>1. EngineInv => CleanupHasProvenance
  BY DEF EngineInv, CleanupInv
<1>. QED  BY <1>1, EngineInvariant, PTL

\* A run is said to be merged exactly when its merge artifact was written, and
\* then its own head was merged.
THEOREM MergeIsProved == Spec => []MergedIsProved
<1>1. EngineInv => MergedIsProved
  BY DEF EngineInv
<1>. QED  BY <1>1, EngineInvariant, PTL

-----------------------------------------------------------------------------
(***************************************************************************)
(* The steps that run other programs: StepExecutors, for any kinds of      *)
(* step, command groups, agent parameters, paths and codes, whatever the   *)
(* processes do.                                                           *)
(***************************************************************************)
Exec == INSTANCE StepExecutors

-----------------------------------------------------------------------------
(* The step executors.                                                       *)

Names == {"main", "child", "deep", "stray"}
Process == [live : BOOLEAN, group : BOOLEAN, deaf : BOOLEAN, holds : BOOLEAN]
ProcsOK == procs \in [Names -> Process]

\* A step has its fields, whatever they hold.
StepFields == {"kind", "group", "conf", "limit", "stdin", "pc", "cmd", "tries", "code", "signal",
           "timed", "reaped", "out", "marked", "seen", "hit", "initial", "met", "all", "fatal",
           "interrupted", "outcome"}
IsStep(st) == DOMAIN st = StepFields /\ st = [f \in StepFields |-> st[f]]

Grouped == step.kind \in {"manifest", "verify"}
Holding(x) == x.live /\ x.holds
NoHolder == \A p \in Names : ~Holding(procs[p])
NoneInGroup == \A p \in Names : Holding(procs[p]) => ~procs[p].group
Unjoined == step.kind = "shell" /\ step.outcome = "error"

\* Who may still hold the output, by where the step is.  Readers that have seen
\* the end know that nobody holds it, and what is forked then holds nothing.
HoldInv ==
    /\ ProcsOK /\ IsStep(step) /\ step.kind \in {"manifest", "verify", "shell", "agent"}
    /\ read => NoHolder
    /\ step.pc \in {"entry", "skipped", "readers", "cleanup"} => Grouped
    /\ step.pc \in {"result", "spawn", "entry", "skipped", "start"} => NoneInGroup
    /\ step.pc = "cleanup" => NoneInGroup
    /\ step.pc \in {"result", "spawn", "start"} /\ ~Grouped => NoHolder
    /\ step.pc = "ended" /\ ~Unjoined => NoneInGroup /\ (~Grouped => NoHolder)

LEMMA HoldersAre ==
    ASSUME ProcsOK
    PROVE  Exec!Holders = {p \in Names : Holding(procs[p])}
BY DEF ProcsOK, Exec!Holders, Exec!Alive, Holding

\* A killed process is dead and the others are left alone.
LEMMA Killed ==
    ASSUME NEW ps \in [Names -> Process], NEW victims
    PROVE  /\ Exec!Kill(ps, victims) \in [Names -> Process]
           /\ \A p \in Names : Exec!Kill(ps, victims)[p].live = FALSE \/ Exec!Kill(ps, victims)[p] = ps[p]
           /\ \A p \in Names : p \in victims => Exec!Kill(ps, victims)[p].live = FALSE
<1>1. Exec!Dead \in Process /\ Exec!Dead.live = FALSE
  BY DEF Exec!Dead, Process
<1>2. DOMAIN ps = Names /\ \A p \in Names : ps[p] \in Process
  OBVIOUS
<1> QED
  BY <1>1, <1>2 DEF Exec!Kill

\* A signal to the process group, or to fewer of them, starts nobody, and the
\* group is gone after the first.
LEMMA GroupKilled ==
    ASSUME NEW ps \in [Names -> Process]
    PROVE  /\ Exec!terminate_child(ps) \in [Names -> Process]
           /\ \A p \in Names : Exec!terminate_child(ps)[p].live => ~Exec!terminate_child(ps)[p].group
           /\ \A p \in Names : Exec!terminate_child(ps)[p].live => Exec!terminate_child(ps)[p] = ps[p]
<1>1. PICK victims : victims = {p \in DOMAIN ps : ps[p].group} \cup {"main"}
  OBVIOUS
<1>2. PICK t : t = Exec!Kill(ps, victims)
  OBVIOUS
<1>3. Exec!terminate_child(ps) = t
  BY <1>1, <1>2 DEF Exec!terminate_child
<1>4. t \in [Names -> Process]
  BY <1>2, Killed
<1>5. ASSUME NEW p \in Names, t[p].live
      PROVE  ~t[p].group /\ t[p] = ps[p]
  <2>1. p \notin victims
    <3>1. SUFFICES ASSUME p \in victims PROVE FALSE
      OBVIOUS
    <3>2. t[p].live = FALSE
      BY <1>2, <3>1, Killed
    <3> QED
      BY <3>2, <1>5
  <2>2. t[p] = ps[p]
    BY <1>2, <2>1 DEF Exec!Kill
  <2>3. ~ps[p].group
    BY <1>1, <2>1
  <2> QED
    BY <2>2, <2>3, <1>5
<1> QED
  BY <1>3, <1>4, <1>5

LEMMA TreeKilled ==
    ASSUME NEW ps \in [Names -> Process],
           NEW t \in {Exec!terminate_process_tree(ps), Exec!terminate_child(ps), Exec!terminate_command(ps), Exec!terminate_agent_tree(ps)}
    PROVE  t \in [Names -> Process] /\ \A p \in Names : t[p].live => t[p] = ps[p]
<1>1. CASE t = Exec!terminate_process_tree(ps)
  <2>1. PICK victims : t = Exec!Kill(ps, victims)
    BY <1>1 DEF Exec!terminate_process_tree
  <2> QED
    BY <2>1, Killed
<1>2. CASE t = Exec!terminate_child(ps) \/ t = ps
  BY <1>2, GroupKilled
<1> QED
  BY <1>1, <1>2 DEF Exec!terminate_command, Exec!terminate_agent_tree

\* Steps that change neither the processes nor the place of the step.
LEMMA HoldingOn ==
    ASSUME HoldInv, IsStep(step'), procs' = procs, step'.pc = step.pc, step'.kind = step.kind,
           step'.outcome = step.outcome, read' = read
    PROVE  HoldInv'
BY DEF HoldInv, ProcsOK, NoHolder, NoneInGroup, Grouped, Unjoined

\* Processes that end, lose their group or close their output, nobody else.
LEMMA FewerHolders ==
    ASSUME HoldInv, IsStep(step'), procs' \in [Names -> Process], step'.pc = step.pc,
           step'.kind = step.kind, step'.outcome = step.outcome, read' = read,
           \A p \in Names : Holding(procs'[p]) =>
               Holding(procs[p]) /\ (procs'[p].group => procs[p].group)
    PROVE  HoldInv'
BY DEF HoldInv, ProcsOK, NoHolder, NoneInGroup, Grouped, Unjoined

\* Setting a field leaves a step with the same fields.
LEMMA Setting ==
    ASSUME NEW st, IsStep(st), NEW f \in StepFields, NEW v, NEW t, t = [st EXCEPT ![f] = v]
    PROVE  IsStep(t) /\ t[f] = v /\ \A g \in StepFields : g # f => t[g] = st[g]
BY DEF IsStep

LEMMA NextCommandIs ==
    ASSUME NEW st, IsStep(st), NEW t, t = Exec!Next_command(st)
    PROVE  IsStep(t) /\ t.kind = st.kind /\ t.pc \in {"entry", "ended"}
<1>1. CASE st.cmd < Len(st.group)
  <2>1. t = [st EXCEPT !.pc = "entry", !.cmd = @ + 1]
    BY <1>1 DEF Exec!Next_command
  <2> QED
    BY <2>1 DEF IsStep, StepFields
<1>2. CASE ~(st.cmd < Len(st.group))
  <2>1. PICK o : t = [st EXCEPT !.pc = "ended", !.outcome = o]
    BY <1>2 DEF Exec!Next_command
  <2> QED
    BY <2>1 DEF IsStep, StepFields
<1> QED
  BY <1>1, <1>2

LEMMA RecordIs ==
    ASSUME NEW st, IsStep(st), NEW passed, NEW fatal, NEW stop,
           NEW t, t = Exec!record(st, passed, fatal, stop)
    PROVE  IsStep(t) /\ t.kind = st.kind /\ t.pc \in {"entry", "ended"}
<1>1. PICK next : next = [st EXCEPT !.all = @ /\ passed, !.fatal = @ \/ (~passed /\ fatal)]
  OBVIOUS
<1>2. IsStep(next) /\ next.kind = st.kind
  BY <1>1 DEF IsStep, StepFields
<1>3. PICK on : on = Exec!Next_command(next)
  OBVIOUS
<1>4. IsStep(on) /\ on.kind = st.kind /\ on.pc \in {"entry", "ended"}
  BY <1>2, <1>3, NextCommandIs
<1>5. t = on \/ \E c, o : t = [on EXCEPT !.pc = "ended", !.cmd = c, !.outcome = o]
  BY <1>1, <1>3 DEF Exec!record
<1>6. ASSUME NEW c, NEW o, t = [on EXCEPT !.pc = "ended", !.cmd = c, !.outcome = o]
      PROVE  IsStep(t) /\ t.kind = st.kind /\ t.pc = "ended"
  BY <1>4, <1>6 DEF IsStep, StepFields
<1> QED
  BY <1>4, <1>5, <1>6

LEMMA NobodyThere == Exec!NoProcs \in [Names -> Process] /\ \A p \in Names : ~Exec!NoProcs[p].live
<1>1. Exec!Dead \in Process /\ ~Exec!Dead.live
  BY DEF Exec!Dead, Process
<1>2. Exec!NoProcs["main"] = Exec!Dead /\ Exec!NoProcs["child"] = Exec!Dead /\ Exec!NoProcs["deep"] = Exec!Dead
      /\ Exec!NoProcs["stray"] = Exec!Dead
  BY DEF Exec!NoProcs
<1>3. \A p \in Names : Exec!NoProcs[p] = Exec!Dead
  BY <1>2 DEF Names
<1>4. Exec!NoProcs = [p \in {"main", "child", "deep", "stray"} |-> Exec!NoProcs[p]]
  BY DEF Exec!NoProcs
<1>5. Exec!NoProcs = [p \in Names |-> Exec!NoProcs[p]]
  BY <1>4 DEF Names
<1> QED
  BY <1>1, <1>3, <1>5

LEMMA HoldInit == Exec!Init => HoldInv
<1> SUFFICES ASSUME Exec!Init PROVE HoldInv
  OBVIOUS
<1>1. PICK k, group, conf, limit, stdin :
          k \in Kinds /\ step = Exec!Fresh(k, group, conf, limit, stdin)
  BY DEF Exec!Init
<1>2. procs = Exec!NoProcs /\ read = FALSE
  BY DEF Exec!Init
<1>3. IsStep(step) /\ step.pc = "start" /\ step.kind = k
  BY <1>1 DEF Exec!Fresh, IsStep, StepFields
<1>4. ProcsOK /\ NoHolder
  BY <1>2, NobodyThere DEF ProcsOK, NoHolder, Holding
<1>5. step.kind \in {"manifest", "verify", "shell", "agent"}
  BY <1>1, <1>3, ExecutorAssumption
<1> QED
  BY <1>2, <1>3, <1>4, <1>5 DEF HoldInv, NoneInGroup, NoHolder

\* A step that moves on, its processes as they are.
LEMMA MovesOn ==
    ASSUME HoldInv, IsStep(step'), procs' = procs, step'.kind = step.kind, read' = read,
           step'.pc \in {"entry", "skipped", "readers"} => Grouped,
           step'.pc # "cleanup",
           step'.pc \in {"result", "spawn", "entry", "skipped", "ended", "start"} => NoneInGroup,
           step'.pc \in {"result", "spawn", "ended", "start"} /\ ~Grouped => NoHolder
    PROVE  HoldInv'
BY DEF HoldInv, ProcsOK, NoHolder, NoneInGroup, Grouped

\* The processes a step has spawned: the one, and whoever is left of before.
LEMMA SpawnedIs ==
    ASSUME NEW left \in BOOLEAN,
           NEW t, t = [Exec!NoProcs EXCEPT !.main = Exec!Spawned, !.stray.live = left]
    PROVE  t \in [Names -> Process]
<1>1. Exec!Spawned \in Process
  BY DEF Exec!Spawned, Exec!Dead, Process
<1>2. "main" \in Names /\ "stray" \in Names
  BY DEF Names
<1>3. PICK first : first = [Exec!NoProcs EXCEPT !["main"] = Exec!Spawned]
  OBVIOUS
<1>4. first \in [Names -> Process]
  BY <1>1, <1>2, <1>3, NobodyThere
<1>5. PICK stray : stray = [first["stray"] EXCEPT !.live = left]
  OBVIOUS
<1>6. stray \in Process
  BY <1>2, <1>4, <1>5 DEF Process
<1>7. t = [first EXCEPT !["stray"] = stray]
  BY <1>3, <1>5
<1> QED
  BY <1>2, <1>4, <1>6, <1>7

LEMMA HoldExecutor ==
    ASSUME HoldInv, Exec!Executor
    PROVE  HoldInv'
<1> USE DEF Exec!At, Exec!Goto, Exec!End, Exec!ground
<1>s. IsStep(step)
  BY DEF HoldInv
<1>e. ASSUME NEW pc, NEW o, step' = [step EXCEPT !.pc = pc, !.outcome = o]
      PROVE  IsStep(step') /\ step'.pc = pc /\ step'.kind = step.kind
  BY <1>s, <1>e DEF IsStep, StepFields
<1>p. ASSUME NEW pc, step' = [step EXCEPT !.pc = pc]
      PROVE  IsStep(step') /\ step'.pc = pc /\ step'.kind = step.kind
  BY <1>s, <1>p DEF IsStep, StepFields
<1>1. CASE Exec!execute_manifest_group
  <2>1. Grouped /\ step.pc = "start" /\ procs' = procs /\ read' = read
    BY <1>1 DEF Exec!execute_manifest_group, Grouped
  <2>2. IsStep(step') /\ step'.kind = step.kind /\ step'.pc \in {"entry", "ended"}
    BY <1>1, <1>e, <1>p DEF Exec!execute_manifest_group
  <2> QED
    BY <2>1, <2>2, MovesOn DEF HoldInv
<1>2. CASE Exec!resolve_shell_stdin
  <2>1. step.pc = "start" /\ procs' = procs /\ read' = read /\ step.kind = "shell"
    BY <1>2 DEF Exec!resolve_shell_stdin
  <2>2. IsStep(step') /\ step'.kind = step.kind /\ step'.pc \in {"spawn", "ended"}
    BY <1>2, <1>e, <1>p DEF Exec!resolve_shell_stdin
  <2> QED
    BY <2>1, <2>2, MovesOn DEF HoldInv, Grouped
<1>3. CASE Exec!execute_llxprt
  <2>1. step.pc = "start" /\ procs' = procs /\ read' = read /\ step.kind = "agent"
    BY <1>3 DEF Exec!execute_llxprt
  <2>n. PICK seen \in Exec!detect_changed_paths : \E ready :
            /\ ready = [step EXCEPT !.initial = Exec!detect_initial_changed_paths(step.conf, seen),
                                    !.met = ~step.conf.existing /\ Exec!success_condition_met(step.conf, step.conf.gate, {}, seen)]
            /\ \/ \E o : step' = [ready EXCEPT !.pc = "ended", !.outcome = o]
               \/ step' = [ready EXCEPT !.pc = "spawn"]
    BY <1>3 DEF Exec!execute_llxprt
  <2>2. PICK ready :
            /\ ready = [step EXCEPT !.initial = Exec!detect_initial_changed_paths(step.conf, seen),
                                    !.met = ~step.conf.existing /\ Exec!success_condition_met(step.conf, step.conf.gate, {}, seen)]
            /\ \/ \E o : step' = [ready EXCEPT !.pc = "ended", !.outcome = o]
               \/ step' = [ready EXCEPT !.pc = "spawn"]
    BY <2>n
  <2>r. IsStep(ready) /\ ready.kind = step.kind
    BY <2>2, <1>s DEF IsStep, StepFields
  <2>o. ASSUME NEW o, step' = [ready EXCEPT !.pc = "ended", !.outcome = o]
        PROVE  IsStep(step') /\ step'.kind = step.kind /\ step'.pc = "ended"
    BY <2>o, <2>r DEF IsStep, StepFields
  <2>p. ASSUME step' = [ready EXCEPT !.pc = "spawn"]
        PROVE  IsStep(step') /\ step'.kind = step.kind /\ step'.pc = "spawn"
    BY <2>p, <2>r DEF IsStep, StepFields
  <2>3. IsStep(step') /\ step'.kind = step.kind /\ step'.pc \in {"spawn", "ended"}
    BY <2>2, <2>o, <2>p
  <2> QED
    BY <2>1, <2>3, MovesOn DEF HoldInv, Grouped
<1>4. CASE Exec!run_manifest_entry
  <2>1. step.pc = "entry" /\ procs' = procs /\ read' = read
    BY <1>4 DEF Exec!run_manifest_entry
  <2>2. \/ \E o : step' = [step EXCEPT !.pc = "ended", !.outcome = o]
        \/ step' = [step EXCEPT !.pc = "skipped"]
        \/ \E r : step' = [step EXCEPT !.pc = "spawn", !.tries = r]
    BY <1>4 DEF Exec!run_manifest_entry
  <2>3. IsStep(step') /\ step'.kind = step.kind /\ step'.pc \in {"spawn", "ended", "skipped"}
    BY <2>2, <1>s DEF IsStep, StepFields
  <2> QED
    BY <2>1, <2>3, MovesOn DEF HoldInv
<1>5. CASE Exec!legacy_check
  <2>1. step.pc = "entry" /\ procs' = procs /\ read' = read
    BY <1>5 DEF Exec!legacy_check
  <2>2. IsStep(step') /\ step'.kind = step.kind /\ step'.pc \in {"spawn", "ended"}
    BY <1>5, <1>e, <1>p DEF Exec!legacy_check
  <2> QED
    BY <2>1, <2>2, MovesOn DEF HoldInv
<1>6. CASE Exec!skipped_manifest_check \/ Exec!diff_gate_result
  <2>1. step.pc \in {"skipped", "entry"} /\ procs' = procs /\ read' = read
    BY <1>6 DEF Exec!skipped_manifest_check, Exec!diff_gate_result
  <2>2. \E a, b, c : step' = Exec!record(step, a, b, c)
    BY <1>6 DEF Exec!skipped_manifest_check, Exec!diff_gate_result
  <2>3. IsStep(step') /\ step'.kind = step.kind /\ step'.pc \in {"entry", "ended"}
    BY <2>2, <1>s, RecordIs
  <2> QED
    BY <2>1, <2>3, MovesOn DEF HoldInv
<1>7. CASE Exec!manifest_process_result \/ Exec!completed_legacy_result
  <2>1. step.pc = "result" /\ procs' = procs /\ read' = read /\ Grouped
    BY <1>7 DEF Exec!manifest_process_result, Exec!completed_legacy_result, Exec!Manifest, Grouped
  <2>a. ASSUME Exec!manifest_process_result
        PROVE  (\E a, b, c : step' = Exec!record(step, a, b, c)) \/ \E r : step' = [step EXCEPT !.pc = "spawn", !.tries = r]
    <3>1. \/ step' = [step EXCEPT !.pc = "spawn", !.tries = @ - 1]
          \/ step' = Exec!record(step, ~Exec!expectation_failures(Exec!Command) /\ ~Exec!artifact_failures(Exec!Command),
                            Exec!Command.fatal, FALSE)
      BY <2>a DEF Exec!manifest_process_result
    <3> QED
      BY <3>1
  <2>b. ASSUME Exec!completed_legacy_result
        PROVE  (\E a, b, c : step' = Exec!record(step, a, b, c)) \/ \E r : step' = [step EXCEPT !.pc = "spawn", !.tries = r]
    <3>1. \/ step' = Exec!record(step, FALSE, FALSE, TRUE)
          \/ step' = Exec!record(step, ~step.signal /\ step.code = 0, Exec!is_command_not_found, FALSE)
      BY <2>b DEF Exec!completed_legacy_result
    <3> QED
      BY <3>1
  <2>2. (\E a, b, c : step' = Exec!record(step, a, b, c)) \/ \E r : step' = [step EXCEPT !.pc = "spawn", !.tries = r]
    BY <1>7, <2>a, <2>b
  <2>3. ASSUME NEW r, step' = [step EXCEPT !.pc = "spawn", !.tries = r]
        PROVE  IsStep(step') /\ step'.kind = step.kind /\ step'.pc = "spawn"
    BY <2>3, <1>s DEF IsStep, StepFields
  <2>c. ASSUME \E a, b, c : step' = Exec!record(step, a, b, c)
        PROVE  IsStep(step') /\ step'.kind = step.kind /\ step'.pc \in {"entry", "ended"}
    BY <2>c, <1>s, RecordIs
  <2>4. IsStep(step') /\ step'.kind = step.kind /\ step'.pc \in {"entry", "ended", "spawn"}
    BY <2>2, <2>3, <2>c
  <2> QED
    BY <2>1, <2>4, MovesOn DEF HoldInv
<1>8. CASE Exec!resolve_shell_outcome \/ Exec!classify_llxprt_outcome
  <2>1. step.pc = "result" /\ procs' = procs /\ read' = read /\ ~Grouped
    BY <1>8 DEF Exec!resolve_shell_outcome, Exec!classify_llxprt_outcome, Grouped
  <2>2. \E o : step' = [step EXCEPT !.pc = "ended", !.outcome = o]
    BY <1>8 DEF Exec!resolve_shell_outcome, Exec!classify_llxprt_outcome
  <2>3. IsStep(step') /\ step'.kind = step.kind /\ step'.pc = "ended"
    BY <2>2, <1>e
  <2> QED
    BY <2>1, <2>3, MovesOn DEF HoldInv
<1>9. CASE Exec!spawn_manifest_child
  <2>1. step.pc = "spawn"
    BY <1>9 DEF Exec!spawn_manifest_child
  <2>2. CASE step' = [step EXCEPT !.pc = "wait", !.timed = FALSE, !.reaped = FALSE, !.out = "blank"]
             /\ procs' = [Exec!NoProcs EXCEPT !.main = Exec!Spawned, !.stray.live = Exec!Alive # {}]
             /\ read' = FALSE
    <3>1. IsStep(step') /\ step'.kind = step.kind /\ step'.pc = "wait"
      BY <2>2, <1>s DEF IsStep, StepFields
    <3>2. ProcsOK'
      BY <2>2, SpawnedIs DEF ProcsOK
    <3> QED
      BY <2>2, <3>1, <3>2 DEF HoldInv
  <2>3. CASE step' = Exec!manifest_spawn_error /\ procs' = procs /\ read' = read
    <3>1. (Grouped /\ \E a, b, c : step' = Exec!record(step, a, b, c))
          \/ (~Grouped /\ \E o : step' = [step EXCEPT !.pc = "ended", !.outcome = o])
      BY <2>3 DEF Exec!manifest_spawn_error, Grouped
    <3>2. IsStep(step') /\ step'.kind = step.kind /\ step'.pc \in {"entry", "ended"}
          /\ (~Grouped => step'.pc = "ended")
      <4>1. CASE Grouped /\ \E a, b, c : step' = Exec!record(step, a, b, c)
        BY <4>1, <1>s, RecordIs
      <4>2. CASE ~Grouped /\ \E o : step' = [step EXCEPT !.pc = "ended", !.outcome = o]
        BY <4>2, <1>e
      <4> QED
        BY <3>1, <4>1, <4>2
    <3> QED
      BY <2>1, <2>3, <3>2, MovesOn DEF HoldInv
  <2> QED
    BY <1>9, <2>2, <2>3 DEF Exec!spawn_manifest_child
<1>10. CASE Exec!wait_for_manifest_child
  <2>1. step.pc = "wait" /\ read' = read /\ (Exec!AfterWait = "readers" => Grouped) /\ Exec!AfterWait \in {"readers", "join"}
    BY <1>10 DEF Exec!wait_for_manifest_child, Exec!AfterWait, Exec!Manifest, Grouped, HoldInv
  <2>2. (step' = [step EXCEPT !.pc = Exec!AfterWait, !.reaped = TRUE] /\ procs' = procs)
        \/ (step' = [step EXCEPT !.pc = Exec!AfterWait, !.timed = TRUE, !.signal = TRUE] /\ procs' = Exec!Terminate(procs))
    BY <1>10 DEF Exec!wait_for_manifest_child
  <2>3. IsStep(step') /\ step'.kind = step.kind /\ step'.pc = Exec!AfterWait
    BY <2>2, <1>s DEF IsStep, StepFields
  <2>4. procs' = procs \/ procs' = Exec!terminate_process_tree(procs) \/ procs' = Exec!terminate_child(procs)
        \/ procs' = Exec!terminate_command(procs)
    BY <2>2 DEF Exec!Terminate
  <2>5. procs' \in [Names -> Process] /\ \A p \in Names : procs'[p].live => procs'[p] = procs[p]
    BY <2>4, TreeKilled DEF HoldInv, ProcsOK
  <2> QED
    BY <2>1, <2>3, <2>5 DEF HoldInv, ProcsOK, NoHolder, Holding, Grouped
<1>11. CASE Exec!wait_for_reader_after_process_exit
  <2>1. step.pc = "readers" /\ read' = read /\ Grouped
    BY <1>11 DEF Exec!wait_for_reader_after_process_exit, HoldInv
  <2>2. CASE read /\ step' = [step EXCEPT !.pc = "result"] /\ procs' = procs
    <3>1. NoHolder
      BY <2>2 DEF HoldInv
    <3> QED
      BY <2>1, <2>2, <3>1, <1>p, MovesOn DEF NoHolder, NoneInGroup
  <2>3. CASE ~read /\ step' = [step EXCEPT !.pc = "cleanup"] /\ procs' = Exec!terminate_child(procs)
    <3>1. procs' \in [Names -> Process] /\ \A p \in Names : procs'[p].live => ~procs'[p].group
      BY <2>3, GroupKilled DEF HoldInv, ProcsOK
    <3> QED
      BY <2>1, <2>3, <3>1, <1>p DEF HoldInv, ProcsOK, NoneInGroup, Holding, Grouped
  <2> QED
    BY <1>11, <2>2, <2>3 DEF Exec!wait_for_reader_after_process_exit
<1>12. CASE Exec!wait_for_reader_after_cleanup
  <2>1. step.pc = "cleanup" /\ read' = read /\ procs' = procs /\ Grouped /\ NoneInGroup
    BY <1>12 DEF Exec!wait_for_reader_after_cleanup, HoldInv
  <2>2. IsStep(step') /\ step'.kind = step.kind /\ step'.pc = "result"
    BY <1>12, <1>p DEF Exec!wait_for_reader_after_cleanup
  <2> QED
    BY <2>1, <2>2, MovesOn
<1>13. CASE Exec!join_pipe_reader
  <2>1. read' = read /\ procs' = procs /\ NoHolder
    BY <1>13 DEF Exec!join_pipe_reader, HoldInv
  <2>2. IsStep(step') /\ step'.kind = step.kind /\ step'.pc = "result"
    BY <1>13, <1>p DEF Exec!join_pipe_reader
  <2> QED
    BY <2>1, <2>2, MovesOn DEF NoHolder, NoneInGroup
<1>14. CASE Exec!poll_agent
  <2>1. step.pc = "wait" /\ read' = read /\ procs' = procs
    BY <1>14 DEF Exec!poll_agent
  <2>2. \E seen, v : \/ step' = [step EXCEPT !.pc = "terminate", !.seen = seen]
                    \/ step' = [[step EXCEPT !.pc = "terminate", !.seen = seen] EXCEPT !.hit = v]
                    \/ step' = [[step EXCEPT !.pc = "terminate", !.seen = seen] EXCEPT !.reaped = v]
    BY <1>14 DEF Exec!poll_agent
  <2>3. IsStep(step') /\ step'.kind = step.kind /\ step'.pc = "terminate"
    BY <2>2, <1>s DEF IsStep, StepFields
  <2> QED
    BY <2>1, <2>3, MovesOn
<1>15. CASE Exec!poll_resets_idle \/ Exec!log_progress
  BY <1>15, HoldingOn, <1>s DEF Exec!poll_resets_idle, Exec!log_progress
<1>16. CASE Exec!terminate_agent
  <2>1. step.pc = "terminate" /\ read' = read /\ (procs' = procs \/ procs' = Exec!terminate_agent_tree(procs))
    BY <1>16 DEF Exec!terminate_agent
  <2>2. \E g : step' = [step EXCEPT !.pc = "join", !.signal = g]
    BY <1>16 DEF Exec!terminate_agent
  <2>3. IsStep(step') /\ step'.kind = step.kind /\ step'.pc = "join"
    BY <2>2, <1>s DEF IsStep, StepFields
  <2>4. procs' \in [Names -> Process] /\ \A p \in Names : procs'[p].live => procs'[p] = procs[p]
    BY <2>1, TreeKilled DEF HoldInv, ProcsOK
  <2> QED
    BY <2>1, <2>3, <2>4 DEF HoldInv, ProcsOK, NoHolder, Holding, Grouped
<1>17. CASE Exec!join_stdin_writer
  <2>1. read' = read /\ procs' = procs /\ step' = [step EXCEPT !.pc = "ended", !.outcome = "error"]
        /\ step.kind = "shell"
    BY <1>17 DEF Exec!join_stdin_writer
  <2>2. IsStep(step') /\ step'.kind = "shell" /\ step'.pc = "ended" /\ step'.outcome = "error"
    BY <2>1, <1>s DEF IsStep, StepFields
  <2> QED
    BY <2>1, <2>2 DEF HoldInv, ProcsOK, NoHolder, Unjoined
<1> QED
  BY <1>1, <1>2, <1>3, <1>4, <1>5, <1>6, <1>7, <1>8, <1>9, <1>10, <1>11, <1>12, <1>13, <1>14,
     <1>15, <1>16, <1>17 DEF Exec!Executor

\* What the processes, the readers and the clocks do.
LEMMA HoldEnvironment ==
    ASSUME HoldInv, Exec!spawn_reader \/ Exec!deadline_passes \/ Exec!Environment
    PROVE  HoldInv'
<1> USE DEF Exec!ground
<1>s. IsStep(step) /\ ProcsOK /\ procs \in [Names -> Process]
  BY DEF HoldInv, ProcsOK
<1>1. CASE Exec!spawn_reader
  <2>1. NoHolder /\ step' = step /\ procs' = procs
    BY <1>1, <1>s, HoldersAre DEF Exec!spawn_reader, NoHolder
  <2> QED
    BY <2>1 DEF HoldInv, ProcsOK, NoHolder, NoneInGroup, Grouped, Unjoined
<1>2. CASE Exec!deadline_passes \/ Exec!time_passes \/ Exec!edits_workspace
  BY <1>2, <1>s, HoldingOn DEF Exec!deadline_passes, Exec!time_passes, Exec!edits_workspace
<1>3. CASE Exec!interrupt
  <2>1. IsStep(step') /\ step'.pc = step.pc /\ step'.kind = step.kind
        /\ step'.outcome = step.outcome
    BY <1>3, <1>s DEF Exec!interrupt, IsStep, StepFields
  <2> QED
    BY <1>3, <2>1, HoldingOn DEF Exec!interrupt
<1>4. CASE Exec!prints
  <2>1. PICK out, marked : step' = [step EXCEPT !.out = out, !.marked = marked]
    BY <1>4 DEF Exec!prints
  <2>2. IsStep(step') /\ step'.pc = step.pc /\ step'.kind = step.kind
        /\ step'.outcome = step.outcome
    BY <2>1, <1>s DEF IsStep, StepFields
  <2> QED
    BY <1>4, <2>2, HoldingOn DEF Exec!prints
<1>k. ASSUME NEW victims, procs' = Exec!Kill(procs, victims)
      PROVE  /\ procs' \in [Names -> Process]
             /\ \A p \in Names : Holding(procs'[p]) =>
                    Holding(procs[p]) /\ (procs'[p].group => procs[p].group)
  <2>1. procs' \in [Names -> Process]
    BY <1>k, <1>s, Killed
  <2>2. ASSUME NEW p \in Names, Holding(procs'[p])
        PROVE  Holding(procs[p]) /\ (procs'[p].group => procs[p].group)
    <3>1. procs'[p].live = FALSE \/ procs'[p] = procs[p]
      BY <1>k, <1>s, Killed
    <3> QED
      BY <3>1, <2>2 DEF Holding
  <2> QED
    BY <2>1, <2>2
<1>5. CASE Exec!main_exits
  <2>1. PICK code, signal : step' = [step EXCEPT !.code = code, !.signal = signal]
    BY <1>5 DEF Exec!main_exits
  <2>2. IsStep(step') /\ step'.pc = step.pc /\ step'.kind = step.kind
        /\ step'.outcome = step.outcome
    BY <2>1, <1>s DEF IsStep, StepFields
  <2> QED
    BY <1>5, <1>k, <2>2, FewerHolders DEF Exec!main_exits
<1>6. ASSUME NEW p, Exec!descendant_exits(p)
      PROVE  HoldInv'
  BY <1>6, <1>s, <1>k, FewerHolders DEF Exec!descendant_exits
<1>7. ASSUME NEW p \in Exec!Descendants, Exec!forks(p)
      PROVE  HoldInv'
  <2>p. PICK parent : parent = procs[Exec!ParentOf(p)]
    OBVIOUS
  <2>1. PICK deaf \in BOOLEAN, holds \in {FALSE, parent.holds} :
            procs' = [procs EXCEPT ![p] = [live |-> TRUE, group |-> parent.group,
                                           deaf |-> deaf, holds |-> holds]]
    BY <1>7, <2>p DEF Exec!forks
  <2>2. p \in Names /\ Exec!ParentOf(p) \in Names /\ parent.live
    BY <1>7, <2>p DEF Exec!forks, Exec!Descendants, Exec!ParentOf, Names
  <2>3. parent \in Process
    BY <2>2, <2>p, <1>s
  <2>4. PICK new : new = [live |-> TRUE, group |-> parent.group, deaf |-> deaf, holds |-> holds]
    OBVIOUS
  <2>5. new \in Process /\ new.group = parent.group /\ new.holds = holds
    BY <2>3, <2>4 DEF Process
  <2>6. procs' = [procs EXCEPT ![p] = new]
    BY <2>1, <2>4
  <2>7. procs' \in [Names -> Process]
    BY <2>2, <2>5, <2>6, <1>s
  <2>8. step' = step /\ read' = read /\ Exec!Running
    BY <1>7 DEF Exec!forks
  <2>h. Holding(new) => Holding(parent) /\ new.group = parent.group
    BY <2>1, <2>2, <2>5 DEF Holding
  <2>n. /\ \A q \in Names : q # p => procs'[q] = procs[q]
        /\ procs'[p] = new
    BY <2>2, <2>6, <1>s
  <2>9. NoneInGroup => NoneInGroup'
    <3>1. SUFFICES ASSUME NoneInGroup, NEW q \in Names, Holding(procs'[q]) PROVE ~procs'[q].group
      BY DEF NoneInGroup
    <3>2. CASE q = p
      BY <3>1, <3>2, <2>2, <2>h, <2>n, <2>p DEF NoneInGroup
    <3>3. CASE q # p
      BY <3>1, <3>3, <2>n DEF NoneInGroup
    <3> QED
      BY <3>2, <3>3
  <2>10. NoHolder => NoHolder'
    <3>1. SUFFICES ASSUME NoHolder, NEW q \in Names PROVE ~Holding(procs'[q])
      BY DEF NoHolder
    <3>2. CASE q = p
      BY <3>1, <3>2, <2>2, <2>h, <2>n, <2>p DEF NoHolder
    <3>3. CASE q # p
      BY <3>1, <3>3, <2>n DEF NoHolder
    <3> QED
      BY <3>2, <3>3
  <2>11. step.pc \in {"wait", "terminate", "readers", "cleanup", "join"}
    BY <2>8 DEF Exec!Running
  <2> QED
    BY <2>7, <2>8, <2>9, <2>10, <2>11 DEF HoldInv, ProcsOK, Grouped
<1>c. ASSUME NEW p \in Names, NEW new \in Process, procs' = [procs EXCEPT ![p] = new],
             Holding(new) => Holding(procs[p]) /\ (new.group => procs[p].group)
      PROVE  /\ procs' \in [Names -> Process]
             /\ \A q \in Names : Holding(procs'[q]) =>
                    Holding(procs[q]) /\ (procs'[q].group => procs[q].group)
  <2>1. procs' \in [Names -> Process]
    BY <1>c, <1>s
  <2>2. ASSUME NEW q \in Names, Holding(procs'[q])
        PROVE  Holding(procs[q]) /\ (procs'[q].group => procs[q].group)
    <3>1. CASE q = p
      BY <1>c, <1>s, <2>2, <3>1
    <3>2. CASE q # p
      BY <1>c, <1>s, <2>2, <3>2
    <3> QED
      BY <3>1, <3>2
  <2> QED
    BY <2>1, <2>2
<1>8. ASSUME NEW p \in Names, Exec!leaves_group(p)
      PROVE  HoldInv'
  <2>1. PICK new : new = [procs[p] EXCEPT !.group = FALSE]
    OBVIOUS
  <2>2. procs[p] \in Process
    BY <1>s
  <2>3. /\ new \in Process /\ new.live = procs[p].live /\ new.holds = procs[p].holds
        /\ new.group = FALSE
    BY <2>1, <2>2 DEF Process
  <2>4. procs' = [procs EXCEPT ![p] = new]
    BY <1>8, <2>1 DEF Exec!leaves_group
  <2>5. Holding(new) => Holding(procs[p]) /\ (new.group => procs[p].group)
    BY <2>3 DEF Holding
  <2> QED
    BY <1>8, <1>s, <1>c, <2>3, <2>4, <2>5, FewerHolders DEF Exec!leaves_group
<1>9. ASSUME NEW p \in Names, Exec!closes_output(p)
      PROVE  HoldInv'
  <2>1. PICK new : new = [procs[p] EXCEPT !.holds = FALSE]
    OBVIOUS
  <2>2. procs[p] \in Process
    BY <1>s
  <2>3. new \in Process /\ new.holds = FALSE
    BY <2>1, <2>2 DEF Process
  <2>4. procs' = [procs EXCEPT ![p] = new]
    BY <1>9, <2>1 DEF Exec!closes_output
  <2>5. ~Holding(new)
    BY <2>3 DEF Holding
  <2> QED
    BY <1>9, <1>s, <1>c, <2>3, <2>4, <2>5, FewerHolders DEF Exec!closes_output
<1>10. "main" \in Names /\ Exec!Descendants \subseteq Names
  BY DEF Names, Exec!Descendants
<1> QED
  BY <1>1, <1>2, <1>3, <1>4, <1>5, <1>6, <1>7, <1>8, <1>9, <1>10 DEF Exec!Environment

LEMMA HoldInductive == Exec!Spec => []HoldInv
<1>1. HoldInv /\ [Exec!Next]_(Exec!vars) => HoldInv'
  <2>1. CASE Exec!Next
    BY <2>1, HoldExecutor, HoldEnvironment DEF Exec!Next
  <2>2. CASE UNCHANGED Exec!vars
    BY <2>2 DEF Exec!vars, HoldInv, ProcsOK, NoHolder, NoneInGroup, Grouped, Unjoined
  <2> QED
    BY <2>1, <2>2
<1> QED
  BY <1>1, HoldInit, PTL DEF Exec!Spec

\* Nobody in its group still holds the output of a command when its result is
\* used, and nobody at all that of a shell command or an agent, unless the shell
\* command is left because its stdin could not be written (command_manifest.rs:
\* wait_for_manifest_child; shell.rs and llxprt.rs join their readers).
THEOREM NobodyHoldsOutput == Exec!Spec => []NothingHoldsOutput
<1>1. HoldInv => NothingHoldsOutput
  BY HoldersAre DEF HoldInv, NothingHoldsOutput, Holders, Alive, Exec!Holders, Exec!Alive,
     NoneInGroup, NoHolder, Grouped, Unjoined
<1> QED
  BY <1>1, HoldInductive, PTL
-----------------------------------------------------------------------------
(* Gated agent steps.                                                        *)

GatedAgent ==
    step.kind = "agent" /\ Exec!gates_on_diff(step.conf) /\ ~step.conf.existing

\* Until something new appears, what is there was found by the step: changed
\* paths among the initial ones, and the file only with the condition met.
NothingNew ==
    /\ tree \subseteq step.initial
    /\ step.conf.file /\ file = "present" => step.met

GateInv ==
    GatedAgent =>
        /\ step.pc = "start" => ~step.hit /\ step.outcome = "none"
        /\ step.pc # "start" /\ ~gained => NothingNew
        /\ step.hit => gained
        /\ step.outcome = "Success" /\ ~step.conf.cont => gained

\* Without anything new no condition that was not met before is met.
LEMMA OnlyNewWorkMeets ==
    ASSUME NEW d, NothingNew, ~step.met, Exec!success_condition_met(step.conf, d, step.initial, tree)
    PROVE  FALSE
<1>1. ~(step.conf.file /\ file = "present")
  BY DEF NothingNew
<1>2. Exec!new_changed_paths(tree, step.initial) = {}
  BY DEF NothingNew, Exec!new_changed_paths
<1>3. ~Exec!diff_requirements_met(Exec!new_changed_paths(tree, step.initial), step.conf.required)
  BY <1>2 DEF Exec!diff_requirements_met
<1> QED
  BY <1>1, <1>3 DEF Exec!success_condition_met

\* Steps of the processes, the readers and the clocks, and of the executor
\* where neither the outcome nor an early stop is decided.
LEMMA GateKept ==
    ASSUME GateInv, step'.kind = step.kind, step'.conf = step.conf, step'.hit = step.hit,
           step'.outcome = step.outcome \/ step'.outcome # "Success",
           step'.initial = step.initial, step'.met = step.met, step.pc # "start", step'.pc # "start",
           tree' = tree, file' = file, gained' = gained
    PROVE  GateInv'
<1>1. GatedAgent' => GatedAgent
  BY DEF GatedAgent, Exec!gates_on_diff
<1>2. NothingNew => NothingNew'
  BY DEF NothingNew
<1> QED
  BY <1>1, <1>2 DEF GateInv

TreeInv == tree \subseteq Paths

LEMMA TreeInductive == Exec!Spec => []TreeInv
<1>1. Exec!Init => TreeInv
  BY DEF Exec!Init, TreeInv
<1>2. TreeInv /\ [Exec!Next]_(Exec!vars) => TreeInv'
  <2>1. SUFFICES ASSUME TreeInv, [Exec!Next]_(Exec!vars), tree' # tree PROVE TreeInv'
    BY DEF TreeInv
  <2>2. Exec!edits_workspace
    BY <2>1 DEF Exec!vars, Exec!ground, Exec!Next, Exec!Executor, Exec!Environment,
       Exec!execute_manifest_group,
       Exec!resolve_shell_stdin, Exec!execute_llxprt, Exec!run_manifest_entry, Exec!legacy_check,
       Exec!skipped_manifest_check, Exec!diff_gate_result, Exec!manifest_process_result,
       Exec!completed_legacy_result, Exec!resolve_shell_outcome, Exec!spawn_manifest_child,
       Exec!wait_for_manifest_child, Exec!wait_for_reader_after_process_exit,
       Exec!wait_for_reader_after_cleanup, Exec!join_stdin_writer, Exec!join_pipe_reader,
       Exec!poll_agent, Exec!poll_resets_idle,
       Exec!log_progress, Exec!terminate_agent, Exec!classify_llxprt_outcome, Exec!spawn_reader,
       Exec!deadline_passes,
       Exec!time_passes, Exec!interrupt, Exec!main_exits, Exec!descendant_exits, Exec!forks,
       Exec!leaves_group, Exec!closes_output, Exec!prints
  <2> QED
    BY <2>1, <2>2 DEF Exec!edits_workspace, TreeInv
<1> QED
  BY <1>1, <1>2, PTL DEF Exec!Spec

LEMMA GateInit == Exec!Init => GateInv
<1> SUFFICES ASSUME Exec!Init PROVE GateInv
  OBVIOUS
<1>1. PICK k, group, conf, limit, stdin : step = Exec!Fresh(k, group, conf, limit, stdin)
  BY DEF Exec!Init
<1>2. step.pc = "start" /\ step.hit = FALSE /\ step.outcome = "none"
  BY <1>1 DEF Exec!Fresh
<1> QED
  BY <1>2 DEF GateInv

\* Every git status answers, and names no path "failed".
Detects == ~DetectionFails /\ "failed" \notin Paths
NoSuccessMapped == \A c \in DOMAIN CodeMap : CodeMap[c] # "Success"

LEMMA SeenIsTree ==
    ASSUME Detects, TreeInv, NEW seen \in Exec!detect_changed_paths
    PROVE  seen = tree /\ seen # Exec!Failed
<1>1. seen = tree
  BY DEF Detects, Exec!detect_changed_paths
<1>2. "failed" \notin tree
  BY DEF Detects, TreeInv
<1> QED
  BY <1>1, <1>2 DEF Exec!Failed

\* The agent step begins, or ends with a configured text.
LEMMA GateBegins ==
    ASSUME Detects, TreeInv, HoldInv, GateInv, Exec!execute_llxprt
    PROVE  GateInv'
<1>s. IsStep(step) /\ step.pc = "start" /\ step.kind = "agent"
  BY DEF HoldInv, Exec!execute_llxprt, Exec!At
<1>a. PICK seen \in Exec!detect_changed_paths :
          LET conf == step.conf
              initial == Exec!detect_initial_changed_paths(conf, seen)
              ready == [step EXCEPT !.initial = initial,
                            !.met = ~conf.existing /\ Exec!success_condition_met(conf, conf.gate, {}, seen)]
          IN  CASE conf.static = "content" ->
                     /\ file' = "present" /\ gained' = TRUE
                     /\ step' = [ready EXCEPT !.pc = "ended",
                                              !.outcome = IF conf.file THEN "Success" ELSE "error"]
                [] conf.static = "stdout" ->
                     /\ step' = [ready EXCEPT !.pc = "ended", !.outcome = Exec!gated(ready, "Success", seen)]
                     /\ UNCHANGED <<file, gained>>
                [] OTHER -> /\ step' = [ready EXCEPT !.pc = "spawn"]
                            /\ UNCHANGED <<file, gained>>
  BY DEF Exec!execute_llxprt
<1>b. PICK ready :
          ready = [step EXCEPT !.initial = Exec!detect_initial_changed_paths(step.conf, seen),
                               !.met = ~step.conf.existing /\ Exec!success_condition_met(step.conf, step.conf.gate, {}, seen)]
  OBVIOUS
<1>1. /\ ready = [step EXCEPT !.initial = Exec!detect_initial_changed_paths(step.conf, seen),
                              !.met = ~step.conf.existing /\ Exec!success_condition_met(step.conf, step.conf.gate, {}, seen)]
      /\ \/ /\ step.conf.static = "content" /\ gained' = TRUE
            /\ \E o : step' = [ready EXCEPT !.pc = "ended", !.outcome = o]
         \/ /\ step.conf.static = "stdout" /\ gained' = gained /\ file' = file
            /\ step' = [ready EXCEPT !.pc = "ended", !.outcome = Exec!gated(ready, "Success", seen)]
         \/ /\ gained' = gained /\ file' = file
            /\ step' = [ready EXCEPT !.pc = "spawn"]
  <2>1. CASE step.conf.static = "content"
    BY <1>a, <1>b, <2>1
  <2>2. CASE step.conf.static = "stdout"
    BY <1>a, <1>b, <2>2
  <2>3. CASE step.conf.static # "content" /\ step.conf.static # "stdout"
    BY <1>a, <1>b, <2>3
  <2> QED
    BY <2>1, <2>2, <2>3
<1>t. tree' = tree
  BY DEF Exec!execute_llxprt
<1>2. seen = tree /\ seen # Exec!Failed
  BY SeenIsTree
<1>3. /\ IsStep(ready) /\ ready.kind = step.kind /\ ready.conf = step.conf
      /\ ready.initial = Exec!detect_initial_changed_paths(step.conf, seen)
      /\ ready.met = (~step.conf.existing /\ Exec!success_condition_met(step.conf, step.conf.gate, {}, seen))
      /\ ready.hit = step.hit /\ ready.outcome = step.outcome
  BY <1>1, <1>s DEF IsStep, StepFields
<1>4. SUFFICES ASSUME GatedAgent'
      PROVE  /\ step'.pc = "start" => ~step'.hit /\ step'.outcome = "none"
             /\ step'.pc # "start" /\ ~gained' => NothingNew'
             /\ step'.hit => gained'
             /\ step'.outcome = "Success" /\ ~step'.conf.cont => gained'
  BY DEF GateInv
<1>k. ASSUME NEW o, step' = [ready EXCEPT !.pc = "ended", !.outcome = o]
      PROVE  /\ step'.pc = "ended" /\ step'.outcome = o /\ step'.conf = ready.conf /\ step'.hit = ready.hit
             /\ step'.initial = ready.initial /\ step'.met = ready.met /\ step'.kind = ready.kind
  BY <1>k, <1>3 DEF IsStep, StepFields
<1>l. ASSUME step' = [ready EXCEPT !.pc = "spawn"]
      PROVE  /\ step'.pc = "spawn" /\ step'.outcome = ready.outcome /\ step'.conf = ready.conf
             /\ step'.hit = ready.hit
             /\ step'.initial = ready.initial /\ step'.met = ready.met /\ step'.kind = ready.kind
  BY <1>l, <1>3 DEF IsStep, StepFields
<1>5. step'.conf = step.conf /\ step'.kind = step.kind /\ step'.initial = ready.initial
      /\ step'.met = ready.met /\ step'.hit = step.hit
  BY <1>1, <1>3, <1>k, <1>l
<1>6. GatedAgent /\ ~step.conf.existing /\ Exec!gates_on_diff(step.conf)
  BY <1>4, <1>5, <1>s DEF GatedAgent, Exec!gates_on_diff
<1>7. ~step.hit /\ step.outcome = "none"
  BY <1>6, <1>s DEF GateInv
<1>8. step'.initial = tree
  BY <1>2, <1>3, <1>5, <1>6 DEF Exec!detect_initial_changed_paths
<1>9. step.conf.file /\ file = "present" => ready.met
  BY <1>3, <1>6 DEF Exec!success_condition_met
<1>10. CASE gained' = TRUE /\ \E o : step' = [ready EXCEPT !.pc = "ended", !.outcome = o]
  BY <1>10, <1>5, <1>7, <1>k
<1>11. CASE gained' = gained /\ file' = file
            /\ step' = [ready EXCEPT !.pc = "ended", !.outcome = Exec!gated(ready, "Success", seen)]
  <2>1. NothingNew'
    BY <1>11, <1>t, <1>5, <1>8, <1>9 DEF NothingNew
  <2>2. ready.met \/ ~Exec!success_condition_met(ready.conf, ready.conf.gate, ready.initial, seen)
    <3>1. SUFFICES ASSUME ~ready.met PROVE ~Exec!success_condition_met(ready.conf, ready.conf.gate, ready.initial, seen)
      OBVIOUS
    <3>2. ready.initial = tree /\ Exec!new_changed_paths(tree, tree) = {}
      BY <1>8, <1>5 DEF Exec!new_changed_paths
    <3>3. ~Exec!diff_requirements_met(Exec!new_changed_paths(seen, ready.initial), ready.conf.required)
      BY <3>2, <1>2 DEF Exec!diff_requirements_met
    <3> QED
      BY <3>1, <3>3, <1>9, <1>3 DEF Exec!success_condition_met
  <2>3. Exec!gated(ready, "Success", seen) = "Fixable"
    BY <2>2, <1>6, <1>3 DEF Exec!gated, Exec!diff_gate_fixable
  <2>4. step'.pc = "ended" /\ step'.outcome = "Fixable"
    BY <2>3, <1>11, <1>k
  <2> QED
    BY <2>1, <2>4, <1>5, <1>7
<1>12. CASE gained' = gained /\ file' = file /\ step' = [ready EXCEPT !.pc = "spawn"]
  <2>1. NothingNew'
    BY <1>12, <1>t, <1>5, <1>8, <1>9 DEF NothingNew
  <2> QED
    BY <2>1, <1>12, <1>l, <1>3, <1>5, <1>7
<1> QED
  BY <1>1, <1>10, <1>11, <1>12

\* One poll, which may end the wait because the condition holds.
LEMMA GatePolls ==
    ASSUME Detects, TreeInv, HoldInv, GateInv, Exec!poll_agent
    PROVE  GateInv'
<1>s. IsStep(step) /\ step.pc = "wait" /\ step.kind = "agent"
  BY DEF HoldInv, Exec!poll_agent, Exec!At
<1>n. PICK seen \in Exec!detect_changed_paths :
          LET left == [step EXCEPT !.pc = "terminate", !.seen = step.marked]
          IN  \/ step' = left \/ step' = [left EXCEPT !.reaped = TRUE]
              \/ Exec!check_success_condition(step, seen) /\ step' = [left EXCEPT !.hit = TRUE]
  BY DEF Exec!poll_agent
<1>1. PICK left :
          /\ left = [step EXCEPT !.pc = "terminate", !.seen = step.marked]
          /\ \/ step' = left \/ step' = [left EXCEPT !.reaped = TRUE]
             \/ Exec!check_success_condition(step, seen) /\ step' = [left EXCEPT !.hit = TRUE]
  BY <1>n
<1>2. tree' = tree /\ file' = file /\ gained' = gained
  BY DEF Exec!poll_agent, Exec!ground
<1>3. IsStep(left) /\ left.pc = "terminate" /\ left.kind = step.kind /\ left.conf = step.conf
      /\ left.hit = step.hit /\ left.outcome = step.outcome /\ left.initial = step.initial
      /\ left.met = step.met
  BY <1>1, <1>s DEF IsStep, StepFields
<1>4. CASE step' = left \/ step' = [left EXCEPT !.reaped = TRUE]
  <2>1. step'.pc = "terminate" /\ step'.kind = step.kind /\ step'.conf = step.conf
        /\ step'.hit = step.hit /\ step'.outcome = step.outcome
        /\ step'.initial = step.initial /\ step'.met = step.met
    BY <1>3, <1>4 DEF IsStep, StepFields
  <2> QED
    BY <1>2, <2>1, <1>s, GateKept
<1>5. CASE Exec!check_success_condition(step, seen) /\ step' = [left EXCEPT !.hit = TRUE]
  <2>1. step'.pc = "terminate" /\ step'.kind = step.kind /\ step'.conf = step.conf
        /\ step'.outcome = step.outcome /\ step'.initial = step.initial /\ step'.met = step.met
    BY <1>3, <1>5 DEF IsStep, StepFields
  <2>2. seen = tree
    BY SeenIsTree
  <2>3. ~step.met /\ Exec!success_condition_met(step.conf, step.conf.early, step.initial, tree)
    BY <1>5, <2>2 DEF Exec!check_success_condition
  <2>4. GatedAgent' => GatedAgent
    BY <2>1 DEF GatedAgent, Exec!gates_on_diff
  <2>5. GatedAgent => gained
    BY <2>3, <1>s, OnlyNewWorkMeets DEF GateInv
  <2> QED
    BY <2>1, <2>4, <2>5, <1>2 DEF GateInv
<1> QED
  BY <1>1, <1>4, <1>5

\* The outcome of an agent step.
LEMMA GateClassifies ==
    ASSUME Detects, NoSuccessMapped, TreeInv, HoldInv, GateInv, Exec!classify_llxprt_outcome
    PROVE  GateInv'
<1>s. IsStep(step) /\ step.pc = "result" /\ step.kind = "agent"
  BY DEF HoldInv, Exec!classify_llxprt_outcome, Exec!At
<1>n. PICK seen \in Exec!detect_changed_paths :
          LET st == [step EXCEPT !.seen = @ \/ step.marked] IN
          step' = [step EXCEPT !.pc = "ended",
                               !.outcome = CASE st.seen -> Exec!gated(st, st.conf.marker, seen)
                                           [] st.hit -> "Success"
                                           [] Exec!timed_out(st) \/ Exec!idle_timed_out(st) -> Exec!recover_partial_timeout(st, seen)
                                           [] st.signal \/ st.code # 0 -> Exec!mapped_nonzero_outcome("Fatal")
                                           [] ~st.met /\ Exec!success_condition_met(st.conf, st.conf.gate, st.initial, seen) -> "Success"
                                           [] Exec!gates_on_diff(st.conf) -> Exec!resolve_no_diff_outcome(st)
                                           [] OTHER -> "Success"]
  BY DEF Exec!classify_llxprt_outcome, Exec!End
<1>t. PICK st : st = [step EXCEPT !.seen = @ \/ step.marked]
  OBVIOUS
<1>o. PICK o :
          o = CASE st.seen -> Exec!gated(st, st.conf.marker, seen)
                 [] st.hit -> "Success"
                 [] Exec!timed_out(st) \/ Exec!idle_timed_out(st) -> Exec!recover_partial_timeout(st, seen)
                 [] st.signal \/ st.code # 0 -> Exec!mapped_nonzero_outcome("Fatal")
                 [] ~st.met /\ Exec!success_condition_met(st.conf, st.conf.gate, st.initial, seen) -> "Success"
                 [] Exec!gates_on_diff(st.conf) -> Exec!resolve_no_diff_outcome(st)
                 [] OTHER -> "Success"
  OBVIOUS
<1>1. step' = [step EXCEPT !.pc = "ended", !.outcome = o]
  BY <1>n, <1>t, <1>o
<1>2. tree' = tree /\ file' = file /\ gained' = gained
  BY DEF Exec!classify_llxprt_outcome, Exec!ground
<1>3. seen = tree
  BY SeenIsTree
<1>4. st.conf = step.conf /\ st.hit = step.hit /\ st.initial = step.initial /\ st.met = step.met
  BY <1>t, <1>s DEF IsStep, StepFields
<1>5. step'.pc = "ended" /\ step'.kind = step.kind /\ step'.conf = step.conf /\ step'.outcome = o
      /\ step'.hit = step.hit /\ step'.initial = step.initial /\ step'.met = step.met
  BY <1>1, <1>s DEF IsStep, StepFields
<1>6. SUFFICES ASSUME GatedAgent', o = "Success", ~step.conf.cont, ~gained PROVE FALSE
  <2>1. CASE o # "Success"
    BY <2>1, <1>s, <1>2, <1>5, GateKept
  <2>2. CASE o = "Success"
    <3>1. GatedAgent' => GatedAgent
      BY <1>5 DEF GatedAgent, Exec!gates_on_diff
    <3>2. NothingNew => NothingNew'
      BY <1>2, <1>5 DEF NothingNew
    <3>3. GatedAgent' /\ ~step.conf.cont => gained
      BY <2>2
    <3> QED
      BY <3>1, <3>2, <3>3, <1>s, <1>2, <1>5 DEF GateInv
  <2> QED
    BY <2>1, <2>2
<1>7. GatedAgent /\ Exec!gates_on_diff(st.conf)
  BY <1>4, <1>5, <1>6 DEF GatedAgent, Exec!gates_on_diff
<1>8. NothingNew /\ ~step.hit
  BY <1>7, <1>6, <1>s DEF GateInv
<1>9. st.met \/ ~Exec!success_condition_met(st.conf, st.conf.gate, st.initial, seen)
  BY <1>3, <1>4, <1>8, OnlyNewWorkMeets
<1>10. Exec!gated(st, st.conf.marker, seen) # "Success"
  <2>1. Exec!diff_gate_fixable(st, seen)
    BY <1>9 DEF Exec!diff_gate_fixable
  <2> QED
    BY <2>1, <1>7 DEF Exec!gated
<1>11. Exec!recover_partial_timeout(st, seen) # "Success"
  BY DEF Exec!recover_partial_timeout
<1>12. Exec!mapped_nonzero_outcome("Fatal") # "Success"
  BY DEF Exec!mapped_nonzero_outcome, NoSuccessMapped
<1>13. Exec!resolve_no_diff_outcome(st) # "Success"
  BY <1>4, <1>6 DEF Exec!resolve_no_diff_outcome
<1> QED
  BY <1>o, <1>4, <1>6, <1>7, <1>8, <1>9, <1>10, <1>11, <1>12, <1>13

LEMMA GateExecutor ==
    ASSUME Detects, NoSuccessMapped, TreeInv, HoldInv, GateInv, Exec!Executor
    PROVE  GateInv'
<1>s. IsStep(step)
  BY DEF HoldInv
<1>g. (step'.kind = step.kind /\ step.kind # "agent") => GateInv'
  BY DEF GateInv, GatedAgent
<1>1. CASE \/ Exec!execute_manifest_group \/ Exec!resolve_shell_stdin
           \/ Exec!resolve_shell_outcome \/ Exec!join_stdin_writer
  <2>1. step.kind # "agent"
    BY <1>1 DEF Exec!execute_manifest_group, Exec!resolve_shell_stdin, Exec!resolve_shell_outcome,
       Exec!join_stdin_writer
  <2>2. (\E o : step' = [step EXCEPT !.pc = "ended", !.outcome = o])
        \/ (\E p : step' = [step EXCEPT !.pc = p])
    BY <1>1 DEF Exec!execute_manifest_group, Exec!resolve_shell_stdin, Exec!resolve_shell_outcome,
       Exec!join_stdin_writer, Exec!End, Exec!Goto
  <2>3. step'.kind = step.kind
    BY <2>2, <1>s DEF IsStep, StepFields
  <2> QED
    BY <2>1, <2>3, <1>g
<1>2. CASE Exec!run_manifest_entry \/ Exec!legacy_check
  <2>1. step.kind # "agent"
    BY <1>2 DEF Exec!run_manifest_entry, Exec!legacy_check, Exec!At, HoldInv, Grouped
  <2>2. \/ \E o : step' = [step EXCEPT !.pc = "ended", !.outcome = o]
        \/ \E p : step' = [step EXCEPT !.pc = p]
        \/ \E r : step' = [step EXCEPT !.pc = "spawn", !.tries = r]
    BY <1>2 DEF Exec!run_manifest_entry, Exec!legacy_check, Exec!End, Exec!Goto
  <2>3. step'.kind = step.kind
    BY <2>2, <1>s DEF IsStep, StepFields
  <2> QED
    BY <2>1, <2>3, <1>g
<1>3. CASE Exec!skipped_manifest_check \/ Exec!diff_gate_result
  <2>1. step.kind # "agent"
    BY <1>3 DEF Exec!skipped_manifest_check, Exec!diff_gate_result, Exec!At, HoldInv, Grouped
  <2>2. \E a, b, c : step' = Exec!record(step, a, b, c)
    BY <1>3 DEF Exec!skipped_manifest_check, Exec!diff_gate_result
  <2>3. step'.kind = step.kind
    BY <2>2, <1>s, RecordIs
  <2> QED
    BY <2>1, <2>3, <1>g
<1>4. CASE Exec!manifest_process_result \/ Exec!completed_legacy_result
  <2>1. step.kind # "agent"
    BY <1>4 DEF Exec!manifest_process_result, Exec!completed_legacy_result, Exec!Manifest
  <2>2. ASSUME Exec!manifest_process_result
        PROVE  \/ \E a, b, c : step' = Exec!record(step, a, b, c)
               \/ \E r : step' = [step EXCEPT !.pc = "spawn", !.tries = r]
    <3>1. \/ step' = [step EXCEPT !.pc = "spawn", !.tries = @ - 1]
          \/ step' = Exec!record(step, ~Exec!expectation_failures(Exec!Command) /\ ~Exec!artifact_failures(Exec!Command),
                            Exec!Command.fatal, FALSE)
      BY <2>2 DEF Exec!manifest_process_result
    <3> QED
      BY <3>1
  <2>3. ASSUME Exec!completed_legacy_result
        PROVE  \E a, b, c : step' = Exec!record(step, a, b, c)
    <3>1. \/ step' = Exec!record(step, FALSE, FALSE, TRUE)
          \/ step' = Exec!record(step, ~step.signal /\ step.code = 0, Exec!is_command_not_found, FALSE)
      BY <2>3 DEF Exec!completed_legacy_result
    <3> QED
      BY <3>1
  <2>4. ASSUME \E a, b, c : step' = Exec!record(step, a, b, c) PROVE step'.kind = step.kind
    BY <2>4, <1>s, RecordIs
  <2>5. ASSUME \E r : step' = [step EXCEPT !.pc = "spawn", !.tries = r] PROVE step'.kind = step.kind
    BY <2>5, <1>s DEF IsStep, StepFields
  <2> QED
    BY <2>1, <2>2, <2>3, <2>4, <2>5, <1>4, <1>g
<1>5. CASE Exec!spawn_manifest_child
  <2>1. step.pc = "spawn" /\ tree' = tree /\ file' = file /\ gained' = gained
    BY <1>5 DEF Exec!spawn_manifest_child, Exec!At, Exec!ground
  <2>2. CASE step' = [step EXCEPT !.pc = "wait", !.timed = FALSE, !.reaped = FALSE, !.out = "blank"]
    <3>1. step'.pc = "wait" /\ step'.kind = step.kind /\ step'.conf = step.conf
          /\ step'.hit = step.hit /\ step'.outcome = step.outcome
          /\ step'.initial = step.initial /\ step'.met = step.met
      BY <2>2, <1>s DEF IsStep, StepFields
    <3> QED
      BY <2>1, <3>1, GateKept
  <2>3. CASE step' = Exec!manifest_spawn_error
    <3>1. CASE step.kind \in {"manifest", "verify"}
      <4>1. \E a, b, c : step' = Exec!record(step, a, b, c)
        BY <2>3, <3>1 DEF Exec!manifest_spawn_error
      <4>3. step'.kind = step.kind
        BY <4>1, <1>s, RecordIs
      <4> QED
        BY <3>1, <4>3, <1>g
    <3>2. CASE step.kind \notin {"manifest", "verify"}
      <4>1. step' = [step EXCEPT !.pc = "ended", !.outcome = "error"]
        BY <2>3, <3>2 DEF Exec!manifest_spawn_error
      <4>2. step'.pc = "ended" /\ step'.kind = step.kind /\ step'.conf = step.conf
            /\ step'.hit = step.hit /\ step'.outcome = "error"
            /\ step'.initial = step.initial /\ step'.met = step.met
        BY <4>1, <1>s DEF IsStep, StepFields
      <4> QED
        BY <2>1, <4>2, GateKept
    <3> QED
      BY <3>1, <3>2
  <2> QED
    BY <1>5, <2>2, <2>3 DEF Exec!spawn_manifest_child
<1>6. CASE Exec!wait_for_manifest_child \/ Exec!wait_for_reader_after_process_exit \/ Exec!wait_for_reader_after_cleanup
  <2>1. step.kind # "agent"
    BY <1>6 DEF Exec!wait_for_manifest_child, Exec!wait_for_reader_after_process_exit,
       Exec!wait_for_reader_after_cleanup, Exec!At, HoldInv, Grouped
  <2>2. (\E p : step' = [step EXCEPT !.pc = p])
        \/ (\E p : step' = [step EXCEPT !.pc = p, !.reaped = TRUE])
        \/ \E p : step' = [step EXCEPT !.pc = p, !.timed = TRUE, !.signal = TRUE]
    BY <1>6 DEF Exec!wait_for_manifest_child, Exec!wait_for_reader_after_process_exit,
       Exec!wait_for_reader_after_cleanup, Exec!Goto
  <2>3. step'.kind = step.kind
    BY <2>2, <1>s DEF IsStep, StepFields
  <2> QED
    BY <2>1, <2>3, <1>g
<1>7. CASE Exec!join_pipe_reader
  <2>1. step' = [step EXCEPT !.pc = "result"] /\ step.pc = "join"
    BY <1>7 DEF Exec!join_pipe_reader, Exec!Goto, Exec!At
  <2>2. step'.pc = "result" /\ step'.kind = step.kind /\ step'.conf = step.conf
        /\ step'.hit = step.hit /\ step'.outcome = step.outcome
        /\ step'.initial = step.initial /\ step'.met = step.met
    BY <2>1, <1>s DEF IsStep, StepFields
  <2> QED
    BY <2>1, <2>2, <1>7, GateKept DEF Exec!join_pipe_reader, Exec!ground
<1>8. CASE Exec!poll_resets_idle \/ Exec!log_progress
  BY <1>8, GateKept DEF Exec!poll_resets_idle, Exec!log_progress, Exec!At, Exec!ground
<1>9. CASE Exec!terminate_agent
  <2>1. PICK g : step' = [step EXCEPT !.pc = "join", !.signal = g]
    BY <1>9 DEF Exec!terminate_agent
  <2>2. step'.pc = "join" /\ step'.kind = step.kind /\ step'.conf = step.conf
        /\ step'.hit = step.hit /\ step'.outcome = step.outcome
        /\ step'.initial = step.initial /\ step'.met = step.met
    BY <2>1, <1>s DEF IsStep, StepFields
  <2> QED
    BY <2>2, <1>9, GateKept DEF Exec!terminate_agent, Exec!At, Exec!ground
<1> QED
  BY <1>1, <1>2, <1>3, <1>4, <1>5, <1>6, <1>7, <1>8, <1>9, GateBegins, GatePolls,
     GateClassifies DEF Exec!Executor

LEMMA GateEnvironment ==
    ASSUME HoldInv, GateInv, Exec!spawn_reader \/ Exec!deadline_passes \/ Exec!Environment
    PROVE  GateInv'
<1>s. IsStep(step)
  BY DEF HoldInv
<1>k. ASSUME step'.pc = step.pc, step'.kind = step.kind, step'.conf = step.conf, step'.hit = step.hit,
             step'.outcome = step.outcome, step'.initial = step.initial, step'.met = step.met,
             tree' = tree, file' = file, gained' = gained
      PROVE  GateInv'
  BY <1>k DEF GateInv, GatedAgent, Exec!gates_on_diff, NothingNew
<1>1. CASE Exec!spawn_reader \/ Exec!deadline_passes \/ Exec!time_passes
  BY <1>1, <1>k DEF Exec!spawn_reader, Exec!deadline_passes, Exec!time_passes, Exec!ground
<1>2. CASE Exec!interrupt
  <2>1. step' = [step EXCEPT !.interrupted = TRUE]
    BY <1>2 DEF Exec!interrupt
  <2>2. step'.pc = step.pc /\ step'.kind = step.kind /\ step'.conf = step.conf
        /\ step'.hit = step.hit /\ step'.outcome = step.outcome
        /\ step'.initial = step.initial /\ step'.met = step.met
    BY <2>1, <1>s DEF IsStep, StepFields
  <2> QED
    BY <2>2, <1>2, <1>k DEF Exec!interrupt, Exec!ground
<1>3. CASE Exec!main_exits
  <2>1. PICK code, signal : step' = [step EXCEPT !.code = code, !.signal = signal]
    BY <1>3 DEF Exec!main_exits
  <2>2. step'.pc = step.pc /\ step'.kind = step.kind /\ step'.conf = step.conf
        /\ step'.hit = step.hit /\ step'.outcome = step.outcome
        /\ step'.initial = step.initial /\ step'.met = step.met
    BY <2>1, <1>s DEF IsStep, StepFields
  <2> QED
    BY <2>2, <1>3, <1>k DEF Exec!main_exits, Exec!ground
<1>4. CASE Exec!prints
  <2>1. PICK out, marked : step' = [step EXCEPT !.out = out, !.marked = marked]
    BY <1>4 DEF Exec!prints
  <2>2. step'.pc = step.pc /\ step'.kind = step.kind /\ step'.conf = step.conf
        /\ step'.hit = step.hit /\ step'.outcome = step.outcome
        /\ step'.initial = step.initial /\ step'.met = step.met
    BY <2>1, <1>s DEF IsStep, StepFields
  <2> QED
    BY <2>2, <1>4, <1>k DEF Exec!prints, Exec!ground
<1>5. CASE \E p : \/ Exec!descendant_exits(p) \/ Exec!forks(p) \/ Exec!leaves_group(p)
                  \/ Exec!closes_output(p)
  BY <1>5, <1>k DEF Exec!descendant_exits, Exec!forks, Exec!leaves_group, Exec!closes_output,
     Exec!ground
<1>6. CASE Exec!edits_workspace
  <2>a. step' = step
    BY <1>6 DEF Exec!edits_workspace
  <2>b. (\E q : gained' = (gained \/ q \notin tree)) \/ gained' = TRUE \/ gained' = gained
    BY <1>6 DEF Exec!edits_workspace
  <2>c. gained => gained'
    BY <2>b, Zenon
  <2>1. step' = step /\ (gained => gained')
    BY <2>a, <2>c
  <2>2. gained' \/ (tree' \subseteq tree /\ (file' = "present" => file = "present"))
    BY <1>6 DEF Exec!edits_workspace
  <2>3. ~gained' /\ NothingNew => NothingNew'
    BY <2>1, <2>2 DEF NothingNew
  <2> QED
    BY <2>1, <2>3 DEF GateInv, GatedAgent, Exec!gates_on_diff
<1> QED
  BY <1>1, <1>2, <1>3, <1>4, <1>5, <1>6 DEF Exec!Environment

\* An agent step that is gated on a change succeeds only on one made while it
\* ran (llxprt.rs: initial_changed_paths, diff_gate_fixable), for any parameter
\* sets, paths and codes: git status answers, and no exit code is mapped to
\* success.
THEOREM SuccessIsGained ==
    ASSUME Detects, NoSuccessMapped
    PROVE  Exec!Spec => []GatedSuccess
<1>1. TreeInv /\ HoldInv /\ GateInv /\ [Exec!Next]_(Exec!vars) => GateInv'
  <2>1. CASE Exec!Next
    BY <2>1, GateExecutor, GateEnvironment DEF Exec!Next
  <2>2. CASE UNCHANGED Exec!vars
    BY <2>2 DEF Exec!vars, GateInv, GatedAgent, Exec!gates_on_diff, NothingNew
  <2> QED
    BY <2>1, <2>2
<1>2. GateInv => GatedSuccess
  BY DEF GateInv, GatedSuccess, gates_on_diff, Exec!gates_on_diff, GatedAgent
<1> QED
  BY <1>1, <1>2, GateInit, HoldInductive, TreeInductive, PTL DEF Exec!Spec
=============================================================================
