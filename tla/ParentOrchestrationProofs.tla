---------------------- MODULE ParentOrchestrationProofs ----------------------
(***************************************************************************)
(* Safety of parent orchestration, for every set of children, every number *)
(* of runs and every number of faults.                                     *)
(***************************************************************************)
EXTENDS ParentOrchestration, FiniteSetTheorems, WellFoundedInduction, TLAPS

Steps == {"load_parent_issue", "discover_subissues", "refresh_parent_and_children",
          "classify_subissues", "determine_subissue_order", "select_next_child",
          "launch_or_resume_child_workflow", "wait_for_child_merge",
          "evaluate_parent_completion", "close_or_report_parent"}
Launching == {"label", "recover", "child", "finish"}
Phases == Launching \cup {"enter", "claim", "relaunch", "start", "resume"}
Modes == {"running", "waiting", "failed", "done"}
Statuses == {"none", "unborn", "running", "completed", "waiting_external", "failed", "abandoned",
             "review_ready", "merged", "ready_to_resume"}
ChildStates == {"Merged", "MergedIssueOpen", "ActiveRun", "Closed", "Open", "FailedRun", "StaleRun",
                "Blocked"}
Outcomes == {"none", "observing_existing_child_pr", "child_workflow_completed_waiting_for_pr_merge",
             "active_child_lease", "cleanup_abandoned_requires_continuation",
             "non_actionable_child_lease", "child_lease_claim_contended",
             "child_lease_relaunch_contended", "completed_success", "failed_child_run",
             "waiting_external", "merged", "ready_for_human_merge", "child_workflow_in_progress",
             "missing_child_pr"}

Target == [child : Nat, run : Nat]
RunState == [status : Statuses, by : {"none", "parent", "daemon"}]
ParentRun ==
    [mode : Modes, step : Steps, phase : Phases, held : IssueLease, rid : Nat, ctx : Nat,
     pr : Nat, target : Target]
Snapshots == UNION {[S -> ChildStates] : S \in SUBSET Children}
Artifacts ==
    [children : SUBSET Children, snap : Snapshots, order : SUBSET Children,
     sel : Children \cup {NoChild}, rollup : [Children -> Outcomes],
     cwait : Target, mwait : Nat, complete : BOOLEAN, blocked : BOOLEAN]

\* Every child has a row for each of its runs.
IsRuns(r) == r = [c \in Children |-> r[c]] /\ \A c \in Children : r[c] \in [Runs(c) -> RunState]

TypeInv ==
    /\ issue \in [Children -> {"open", "closed"}]
    /\ pr \in [Children -> {"none", "open", "merged", "closed"}]
    /\ subs \in SUBSET Children /\ pissue \in {"open", "closed"}
    /\ lease \in [Children -> IssueLease] /\ IsRuns(run)
    /\ exec \in SUBSET [child : Children, run : Nat, who : {"parent", "daemon"}]
    /\ \A e \in exec : e.run \in Runs(e.child)
    /\ par \in ParentRun /\ art \in Artifacts

\* A lease that is held for a run, or kept for one, names it.
NamedInv ==
    \A c \in Children :
        /\ lease[c].run_id \in {NoRun} \cup Runs(c)
        /\ lease[c].status \in {"running", "waiting_external", "ready_to_resume"} =>
              lease[c].run_id # NoRun

FromClaim == par.held.status = "claimed" /\ par.held.run_id = NoRun
FromReady == par.held.status = "ready_to_resume" /\ par.held.run_id = par.rid

\* What each phase of a launch rests on.
PhaseInv ==
    /\ par.phase # "enter" =>
          /\ par.mode = "running" /\ par.step = "launch_or_resume_child_workflow"
          /\ art.sel \in Children
    /\ par.phase = "relaunch" => par.held.status \in {"failed", "abandoned", "stale"}
    /\ par.phase = "start" => FromClaim
    /\ par.phase = "resume" => par.held.status = "ready_to_resume"
    /\ par.phase \in Launching => par.rid \in Runs(art.sel) /\ (FromClaim \/ FromReady)
    /\ par.phase = "label" => FromClaim
    /\ par.phase = "recover" => FromReady

\* The lease a launch has taken stays in the table.
TakenInv == par.phase \in Launching => lease[art.sel].status # "absent"

BaseInv == TypeInv /\ NamedInv /\ PhaseInv /\ TakenInv

-----------------------------------------------------------------------------
(* The rows of the tables                                                    *)

LEMMA Numbers ==
    /\ Children \subseteq Nat /\ NoChild \notin Children /\ NoChild \in Nat
    /\ \A c \in Children : Runs(c) \subseteq Nat /\ NoRun \notin Runs(c)
    /\ NoRun \in Nat
<1>1. \A c \in Children : MaxRuns[c] \in Nat
  BY ParentAssumption
<1>2. \A c \in Children : Runs(c) \subseteq Nat /\ NoRun \notin Runs(c)
  BY <1>1 DEF Runs, NoRun
<1> QED
  BY <1>2, ParentAssumption DEF NoChild, NoRun

\* One row of issue_leases is replaced.
LEMMA SetLease ==
    ASSUME NEW l \in [Children -> IssueLease], NEW c \in Children, NEW row \in IssueLease,
           NEW m, m = [l EXCEPT ![c] = row]
    PROVE  /\ m \in [Children -> IssueLease] /\ m[c] = row
           /\ \A d \in Children : d # c => m[d] = l[d]
OBVIOUS

\* The rows of one child's runs are replaced.
LEMMA SetRows ==
    ASSUME NEW r, IsRuns(r), NEW c \in Children, NEW t \in [Runs(c) -> RunState]
    PROVE  IsRuns([r EXCEPT ![c] = t])
<1> DEFINE s == [r EXCEPT ![c] = t]
<1>1. s = [d \in Children |-> IF d = c THEN t ELSE r[d]]
  BY DEF IsRuns
<1> HIDE DEF s
<1>2. s[c] = t /\ \A d \in Children : d # c => s[d] = r[d]
  BY <1>1
<1>3. s = [d \in Children |-> s[d]]
  BY <1>1, <1>2
<1> QED
  BY <1>2, <1>3 DEF IsRuns, s

\* One row of runs is replaced.
WithRow(r, c, n, v) == [r EXCEPT ![c][n] = v]
WithStatus(r, c, n, v) == [r EXCEPT ![c][n].status = v]

LEMMA SetRun ==
    ASSUME NEW r, IsRuns(r), NEW c \in Children, NEW n \in Runs(c), NEW v \in RunState,
           NEW s, s = WithRow(r, c, n, v)
    PROVE  /\ IsRuns(s) /\ s[c][n] = v
           /\ \A m \in Runs(c) : m # n => s[c][m] = r[c][m]
           /\ \A d \in Children : d # c => s[d] = r[d]
<1> DEFINE t == [r[c] EXCEPT ![n] = v]
<1>1. r[c] \in [Runs(c) -> RunState]
  BY DEF IsRuns
<1>2. t \in [Runs(c) -> RunState] /\ t[n] = v /\ \A m \in Runs(c) : m # n => t[m] = r[c][m]
  BY <1>1
<1>3. s = [r EXCEPT ![c] = t]
  BY DEF WithRow
<1> HIDE DEF t
<1>4. IsRuns([r EXCEPT ![c] = t])
  BY <1>2, SetRows, Zenon
<1>4a. IsRuns(s)
  BY <1>3, <1>4, Zenon
<1>5. s[c] = t /\ \A d \in Children : d # c => s[d] = r[d]
  BY <1>3 DEF IsRuns
<1> QED
  BY <1>2, <1>4a, <1>5

LEMMA SetStatus ==
    ASSUME NEW r, IsRuns(r), NEW c \in Children, NEW n \in Runs(c), NEW v \in Statuses,
           NEW s, s = WithStatus(r, c, n, v)
    PROVE  /\ IsRuns(s) /\ s[c][n].status = v /\ s[c][n].by = r[c][n].by
           /\ \A m \in Runs(c) : m # n => s[c][m] = r[c][m]
           /\ \A d \in Children : d # c => s[d] = r[d]
<1> DEFINE w == [r[c][n] EXCEPT !.status = v]  t == [r[c] EXCEPT ![n] = w]
<1>1. r[c] \in [Runs(c) -> RunState]
  BY DEF IsRuns
<1>2. w \in RunState /\ w.status = v /\ w.by = r[c][n].by
  BY <1>1 DEF RunState
<1>3. s = [r EXCEPT ![c] = t]
  BY DEF WithStatus
<1> HIDE DEF w
<1>4. t \in [Runs(c) -> RunState] /\ t[n] = w /\ \A m \in Runs(c) : m # n => t[m] = r[c][m]
  BY <1>1, <1>2
<1> HIDE DEF t
<1>5. IsRuns([r EXCEPT ![c] = t])
  BY <1>4, SetRows, Zenon
<1>5a. IsRuns(s)
  BY <1>3, <1>5, Zenon
<1>6. s[c] = t /\ \A d \in Children : d # c => s[d] = r[d]
  BY <1>3 DEF IsRuns
<1> QED
  BY <1>2, <1>4, <1>5a, <1>6

\* try_claim of a row that may be claimed.
LEMMA ClaimedRow ==
    ASSUME NEW row \in IssueLease, claim_wins(row)
    PROVE  /\ try_claim(row) \in IssueLease
           /\ try_claim(row).lease_id = row.lease_id + 1 /\ try_claim(row).status = "claimed"
           /\ try_claim(row).run_id = NoRun /\ ~try_claim(row).overdue
BY DEF try_claim, IssueLease, LeaseStatus, NoRun

LEMMA RunningRow ==
    ASSUME NEW row \in IssueLease, NEW n \in Nat
    PROVE  /\ ToRunning(row, n) \in IssueLease
           /\ ToRunning(row, n).lease_id = row.lease_id /\ ToRunning(row, n).status = "running"
           /\ ToRunning(row, n).run_id = n /\ ~ToRunning(row, n).overdue
BY DEF ToRunning, IssueLease, LeaseStatus

LEMMA RelaunchedRow ==
    ASSUME NEW row \in IssueLease
    PROVE  /\ clear_child_lease_for_relaunch(row) \in IssueLease
           /\ clear_child_lease_for_relaunch(row).lease_id = row.lease_id
           /\ clear_child_lease_for_relaunch(row).status = "claimed"
           /\ clear_child_lease_for_relaunch(row).run_id = NoRun
BY DEF clear_child_lease_for_relaunch, IssueLease, LeaseStatus, NoRun

\* A conditional update that applies, and one that does not.
LEMMA UpdatedRow ==
    ASSUME NEW row \in IssueLease, NEW id, NEW status \in LeaseStatus, NEW expected,
           NEW new_run \in Nat, NEW owners, NEW upd,
           upd = update_lease_status_conditional(row, id, status, expected, new_run, owners)
    PROVE  /\ upd \in IssueLease /\ upd.lease_id = row.lease_id
           /\ ~cas_applies(row, id, expected, owners) => upd = row
           /\ cas_applies(row, id, expected, owners) =>
                 /\ row.lease_id = id /\ row.status \in expected /\ row.run_id \in owners
                 /\ upd.status = status /\ ~upd.overdue
                 /\ upd.run_id = IF new_run = NoRun THEN row.run_id ELSE new_run
BY DEF update_lease_status_conditional, cas_applies, IssueLease

LEMMA StaleRow ==
    ASSUME NEW row \in IssueLease
    PROVE  /\ recover_stale(row) \in IssueLease /\ recover_stale(row).lease_id = row.lease_id
           /\ recover_stale(row).run_id = row.run_id
           /\ \/ recover_stale(row) = row
              \/ recover_stale(row).status = "stale" /\ row.overdue
                 /\ row.status \in {"claimed", "running", "ready_to_resume"}
BY DEF recover_stale, IssueLease, LeaseStatus, is_active

\* One field of the parent run is replaced.
LEMMA SetField ==
    ASSUME NEW p \in ParentRun
    PROVE  /\ \A v \in Modes : [p EXCEPT !.mode = v] \in ParentRun
           /\ \A v \in Steps : [p EXCEPT !.step = v] \in ParentRun
           /\ \A v \in Phases : [p EXCEPT !.phase = v] \in ParentRun
           /\ \A v \in IssueLease : [p EXCEPT !.held = v] \in ParentRun
           /\ \A v \in Nat : [p EXCEPT !.rid = v] \in ParentRun
           /\ \A v \in Nat : [p EXCEPT !.ctx = v] \in ParentRun
           /\ \A v \in Nat : [p EXCEPT !.pr = v] \in ParentRun
           /\ \A v \in Target : [p EXCEPT !.target = v] \in ParentRun
BY DEF ParentRun

LEMMA LeftFields ==
    ASSUME NEW p \in ParentRun
    PROVE  /\ Left(p) \in ParentRun /\ Left(p).phase = "enter"
           /\ Left(p).mode = p.mode /\ Left(p).step = p.step /\ Left(p).ctx = p.ctx
<1> DEFINE x == [p EXCEPT !.phase = "enter"]
           y == [x EXCEPT !.held = AbsentRow]
           z == [y EXCEPT !.rid = NoRun]
<1>1. AbsentRow \in IssueLease /\ NoRun \in Nat
  BY DEF AbsentRow, IssueLease, NoLease, NoRun
<1>0. "enter" \in Phases
  BY DEF Phases
<1>2. x \in ParentRun
  BY <1>0, SetField
<1>3. y \in ParentRun
  BY <1>1, <1>2, SetField
<1>4. z \in ParentRun
  BY <1>1, <1>3, SetField
<1>5. z.phase = "enter" /\ z.mode = p.mode /\ z.step = p.step /\ z.ctx = p.ctx
  BY DEF ParentRun
<1>6. Left(p) = z
  BY Zenon DEF Left
<1> QED
  BY <1>4, <1>5, <1>6

LEMMA ToFields ==
    ASSUME NEW p \in ParentRun, NEW step \in Steps
    PROVE  /\ To(p, step) \in ParentRun /\ To(p, step).phase = "enter"
           /\ To(p, step).mode = p.mode /\ To(p, step).step = step
<1> DEFINE q == Left(p)
<1>1. q \in ParentRun /\ q.phase = "enter" /\ q.mode = p.mode
  BY LeftFields
<1> HIDE DEF q
<1> DEFINE t == [q EXCEPT !.step = step]
<1>2. t \in ParentRun
  BY <1>1, SetField
<1>3. t.phase = "enter" /\ t.mode = p.mode /\ t.step = step
  BY <1>1 DEF ParentRun
<1>4. To(p, step) = t
  BY DEF To, q
<1> QED
  BY <1>2, <1>3, <1>4

\* The run parks, or fails where the wait has no identity.
LEMMA WaitFields ==
    ASSUME NEW p \in ParentRun, NEW a \in Artifacts, NEW q, q = persist_external_wait_state(p, a)
    PROVE  /\ q \in ParentRun /\ q.phase = "enter" /\ q.step = p.step
           /\ q.mode \in {"waiting", "failed"}
<1> DEFINE target == fill_parent_dependency_wait_identity(p, a)  l == Left(p)
           x == [l EXCEPT !.mode = "waiting"]
           y == [x EXCEPT !.target = target]
           number == IF target.run = NoRun THEN target.child ELSE y.pr
           z == [y EXCEPT !.pr = number]
           f == [l EXCEPT !.mode = "failed"]
<1>1. target \in Target
  BY Numbers DEF fill_parent_dependency_wait_identity, Artifacts, ParentRun, Target
<1>2. l \in ParentRun /\ l.phase = "enter" /\ l.step = p.step
  BY LeftFields
<1>3. q = z \/ q = f
  BY DEF persist_external_wait_state
<1>4. "waiting" \in Modes /\ "failed" \in Modes
  BY DEF Modes
<1> HIDE DEF target, l
<1>5. x \in ParentRun /\ f \in ParentRun
  BY <1>2, <1>4, SetField
<1>6. y \in ParentRun
  BY <1>1, <1>5, SetField
<1>7. number \in Nat
  BY <1>1, <1>6 DEF Target, ParentRun
<1>8. z \in ParentRun
  BY <1>6, <1>7, SetField
<1>9. z.phase = "enter" /\ z.step = p.step /\ z.mode = "waiting"
  BY <1>2 DEF ParentRun
<1>10. f.phase = "enter" /\ f.step = p.step /\ f.mode = "failed"
  BY <1>2 DEF ParentRun
<1> HIDE DEF z, f
<1> QED
  BY <1>3, <1>5, <1>8, <1>9, <1>10

\* One artifact is replaced.
LEMMA SetArtifact ==
    ASSUME NEW a \in Artifacts
    PROVE  /\ \A v \in SUBSET Children : [a EXCEPT !.children = v] \in Artifacts
           /\ \A v \in Snapshots : [a EXCEPT !.snap = v] \in Artifacts
           /\ \A v \in SUBSET Children : [a EXCEPT !.order = v] \in Artifacts
           /\ \A v \in Children \cup {NoChild} : [a EXCEPT !.sel = v] \in Artifacts
           /\ \A v \in [Children -> Outcomes] : [a EXCEPT !.rollup = v] \in Artifacts
           /\ \A v \in Target : [a EXCEPT !.cwait = v] \in Artifacts
           /\ \A v \in Nat : [a EXCEPT !.mwait = v] \in Artifacts
           /\ \A v \in BOOLEAN : [a EXCEPT !.complete = v] \in Artifacts
           /\ \A v \in BOOLEAN : [a EXCEPT !.blocked = v] \in Artifacts
BY DEF Artifacts

\* Everything but the rollup and the waits.
SameFindings(a, b) ==
    /\ b.children = a.children /\ b.snap = a.snap /\ b.order = a.order /\ b.sel = a.sel
    /\ b.complete = a.complete /\ b.blocked = a.blocked

LEMMA RollupFields ==
    ASSUME NEW a \in Artifacts, NEW c \in Children, NEW o \in Outcomes, NEW b,
           b = update_rollup(a, c, o)
    PROVE  /\ b \in Artifacts /\ SameFindings(a, b)
           /\ b.rollup[c] = o /\ \A d \in Children : d # c => b.rollup[d] = a.rollup[d]
<1> DEFINE r == [a.rollup EXCEPT ![c] = o]  x == [a EXCEPT !.rollup = r]
<1>1. a.rollup \in [Children -> Outcomes]
  BY DEF Artifacts
<1>2. r \in [Children -> Outcomes] /\ r[c] = o /\ \A d \in Children : d # c => r[d] = a.rollup[d]
  BY <1>1
<1>3. b = x
  BY DEF update_rollup
<1> HIDE DEF r
<1>4. x \in Artifacts
  BY <1>2, SetArtifact
<1>5. SameFindings(a, x) /\ x.rollup = r
  BY DEF SameFindings, Artifacts
<1> HIDE DEF x
<1> QED
  BY <1>2, <1>3, <1>4, <1>5

LEMMA CwaitFields ==
    ASSUME NEW a \in Artifacts, NEW t \in Target, NEW b, b = [a EXCEPT !.cwait = t]
    PROVE  b \in Artifacts /\ SameFindings(a, b) /\ b.rollup = a.rollup
BY SetArtifact DEF SameFindings, Artifacts

LEMMA MwaitFields ==
    ASSUME NEW a \in Artifacts, NEW t \in Nat, NEW b, b = [a EXCEPT !.mwait = t]
    PROVE  b \in Artifacts /\ SameFindings(a, b) /\ b.rollup = a.rollup
BY SetArtifact DEF SameFindings, Artifacts

LEMMA SameFindingsTrans ==
    ASSUME NEW a, NEW b, NEW c, SameFindings(a, b), SameFindings(b, c)
    PROVE  SameFindings(a, c)
BY DEF SameFindings

-----------------------------------------------------------------------------
(* Types and phases                                                          *)

LEMMA FirstTypes == FreshParent \in ParentRun /\ NoArtifacts \in Artifacts
<1>1. AbsentRow \in IssueLease /\ NoTarget \in Target
  BY DEF AbsentRow, IssueLease, NoLease, NoRun, NoTarget, NoChild, Target
<1>2. FreshParent \in ParentRun
  BY <1>1, Numbers DEF FreshParent, ParentRun, Modes, Steps, Phases
<1>3. [c \in Children |-> AbsentStatus] \in [Children -> Outcomes]
  BY DEF AbsentStatus, Outcomes
<1>4. << >> \in [{} -> ChildStates]
  OBVIOUS
<1>5. << >> \in Snapshots
  BY <1>4 DEF Snapshots
<1>6. NoArtifacts \in Artifacts
  BY <1>1, <1>3, <1>5, Numbers DEF NoArtifacts, Artifacts
<1> QED
  BY <1>2, <1>6

LEMMA InitBase == Init => BaseInv
<1> SUFFICES ASSUME Init PROVE BaseInv
  OBVIOUS
<1>1. par \in ParentRun /\ art \in Artifacts
  BY FirstTypes DEF Init
<1>2. AbsentRow \in IssueLease /\ AbsentRow.run_id = NoRun /\ AbsentRow.status = "absent"
  BY DEF AbsentRow, IssueLease, NoLease, NoRun
<1>3. lease \in [Children -> IssueLease]
  BY <1>2 DEF Init
<1>4. NoState \in RunState
  BY DEF NoState, RunState, Statuses
<1>5. IsRuns(run)
  BY <1>4 DEF Init, IsRuns
<1>6. TypeInv
  BY <1>1, <1>3, <1>5, ParentAssumption DEF TypeInv, Init
<1>7. NamedInv
  BY <1>2 DEF NamedInv, Init
<1>8. PhaseInv /\ TakenInv
  BY DEF PhaseInv, TakenInv, Init, FreshParent, Launching
<1> QED
  BY <1>6, <1>7, <1>8 DEF BaseInv

\* A step that leaves the launch.
LEMMA EnteredPhase == par'.phase = "enter" => PhaseInv' /\ TakenInv'
BY DEF PhaseInv, TakenInv, Launching

\* Outside a launch there is no phase.
LEMMA NoPhase ==
    ASSUME PhaseInv, par.mode # "running" \/ par.step # "launch_or_resume_child_workflow"
    PROVE  par.phase = "enter"
BY DEF PhaseInv

LEMMA GraphTypes ==
    ASSUME BaseInv, UNCHANGED <<github, lease, run, exec>>, par' \in ParentRun, par'.phase = "enter",
           art' \in Artifacts
    PROVE  BaseInv'
BY EnteredPhase DEF BaseInv, TypeInv, NamedInv, github

\* The same, where only the labels or the parent issue change beside.
LEMMA LabelTypes ==
    ASSUME BaseInv, UNCHANGED <<issue, pr, subs, lease, run, exec>>, pissue' \in {"open", "closed"},
           par' \in ParentRun, par'.phase = "enter", art' \in Artifacts
    PROVE  BaseInv'
BY EnteredPhase DEF BaseInv, TypeInv, NamedInv

LEMMA Base_load == ASSUME BaseInv, load_parent_issue PROVE BaseInv'
<1>1. par' = To(par, "discover_subissues") /\ "discover_subissues" \in Steps
  BY DEF load_parent_issue, Steps
<1>2. par' \in ParentRun /\ par'.phase = "enter"
  BY <1>1, ToFields DEF BaseInv, TypeInv
<1> QED
  BY <1>2, LabelTypes DEF load_parent_issue, BaseInv, TypeInv

LEMMA SubIssues == ASSUME TypeInv, NEW native PROVE list_sub_issues(native) \in SUBSET Children
BY ParentAssumption DEF list_sub_issues, TypeInv

LEMMA Base_discover == ASSUME BaseInv, discover_subissues PROVE BaseInv'
<1>1. par' = To(par, "classify_subissues") /\ "classify_subissues" \in Steps
  BY DEF discover_subissues, Steps
<1>2. par' \in ParentRun /\ par'.phase = "enter"
  BY <1>1, ToFields DEF BaseInv, TypeInv
<1>3. PICK native \in BOOLEAN :
        \/ art' = [art EXCEPT !.children = list_sub_issues(native)]
        \/ art' = [art EXCEPT !.children = list_sub_issues(native), !.sel = NoChild]
  BY DEF discover_subissues
<1> DEFINE found_ == list_sub_issues(native)  x == [art EXCEPT !.children = found_]
           y == [x EXCEPT !.sel = NoChild]
<1>4. x \in Artifacts
  BY SubIssues, SetArtifact DEF BaseInv, TypeInv
<1>5. y \in Artifacts
  BY <1>4, SetArtifact
<1>6. art' = x \/ art' = y
  BY <1>3
<1> QED
  BY <1>2, <1>4, <1>5, <1>6, GraphTypes DEF discover_subissues

LEMMA Classified ==
    ASSUME TypeInv, NEW c \in Children
    PROVE  classify_child_with_run_state(c) \in ChildStates
<1>1. issue[c] \in {"open", "closed"} /\ pr_state_for_issue(c) \in {"none", "open", "merged"}
  BY DEF TypeInv, pr_state_for_issue, pr_reference_usable, pr_relevance_key
<1>2. classify_child(issue[c], pr_state_for_issue(c)) \in ChildStates
  BY <1>1 DEF classify_child, ChildStates
<1>3. \A s \in ChildStates : apply_child_run_state(c, s) \in ChildStates
  BY DEF apply_child_run_state, ChildStates
<1> QED
  BY <1>2, <1>3 DEF classify_child_with_run_state, apply_child_rollup_state, ChildStates

LEMMA Base_classify == ASSUME BaseInv, classify_subissues PROVE BaseInv'
<1>1. par' = To(par, "determine_subissue_order") /\ "determine_subissue_order" \in Steps
  BY DEF classify_subissues, Steps
<1>2. par' \in ParentRun /\ par'.phase = "enter"
  BY <1>1, ToFields DEF BaseInv, TypeInv
<1> DEFINE s == [c \in art.children |-> classify_child_with_run_state(c)]
<1>3. art.children \in SUBSET Children
  BY DEF BaseInv, TypeInv, Artifacts
<1>4. s \in [art.children -> ChildStates]
  BY <1>3, Classified DEF BaseInv
<1>5. s \in Snapshots
  BY <1>3, <1>4 DEF Snapshots
<1>6. art' = [art EXCEPT !.snap = s]
  BY DEF classify_subissues
<1> HIDE DEF s
<1>7. art' \in Artifacts
  BY <1>5, <1>6, SetArtifact DEF BaseInv, TypeInv
<1> QED
  BY <1>2, <1>7, GraphTypes DEF classify_subissues

LEMMA Base_order == ASSUME BaseInv, determine_subissue_order PROVE BaseInv'
<1>1. par' = To(par, "select_next_child") /\ "select_next_child" \in Steps
  BY DEF determine_subissue_order, Steps
<1>2. par' \in ParentRun /\ par'.phase = "enter"
  BY <1>1, ToFields DEF BaseInv, TypeInv
<1>3. art.children \in SUBSET Children
  BY DEF BaseInv, TypeInv, Artifacts
<1>4. art' \in Artifacts
  BY <1>3, SetArtifact DEF BaseInv, TypeInv, determine_subissue_order, order_subissues
<1> QED
  BY <1>2, <1>4, GraphTypes DEF determine_subissue_order

\* The smallest of some children.
LEMMA FirstChild ==
    ASSUME NEW S \in SUBSET Children, S # {}
    PROVE  Min(S) \in S
<1>1. S \subseteq Nat
  BY Numbers
<1>2. IsWellFoundedOn(OpToRel(<, Nat), Nat)
  BY NatLessThanWellFounded
<1>3. PICK k \in S : \A j \in S : ~(<<j, k>> \in OpToRel(<, Nat))
  BY <1>1, <1>2, WFMin
<1>4. \A j \in S : ~(j < k)
  BY <1>1, <1>3 DEF OpToRel
<1>5. \A j \in S : k =< j
  BY <1>1, <1>4
<1> QED
  BY <1>5 DEF Min

LEMMA Actionable ==
    ASSUME NEW a \in Artifacts
    PROVE  /\ next_actionable_child(a) \in Children \cup {NoChild}
           /\ next_actionable_child(a) # NoChild =>
                 /\ next_actionable_child(a) \in a.order
                 /\ ~child_state_blocks_selection(a.snap[next_actionable_child(a)])
<1> DEFINE free == {c \in a.order : ~child_state_blocks_selection(a.snap[c])}
<1>1. free \in SUBSET Children
  BY DEF Artifacts
<1>2. CASE free = {}
  BY <1>2 DEF next_actionable_child
<1>3. CASE free # {}
  <2>1. next_actionable_child(a) = Min(free)
    BY <1>3 DEF next_actionable_child
  <2>2. Min(free) \in free
    BY <1>1, <1>3, FirstChild
  <2> QED
    BY <2>1, <2>2, <1>1
<1> QED
  BY <1>2, <1>3

LEMMA Base_select == ASSUME BaseInv, select_next_child PROVE BaseInv'
<1> DEFINE next == IF missing_ordered_child_states(art) # {} THEN NoChild
                   ELSE next_actionable_child(art)
<1>1. /\ par' = To(par, IF next = NoChild THEN "evaluate_parent_completion"
                        ELSE "launch_or_resume_child_workflow")
      /\ art' = [art EXCEPT !.sel = next]
      /\ UNCHANGED <<github, lease, run, exec>>
  BY DEF select_next_child
<1>2. {"evaluate_parent_completion", "launch_or_resume_child_workflow"} \subseteq Steps
  BY DEF Steps
<1>3. next \in Children \cup {NoChild}
  BY Actionable DEF BaseInv, TypeInv
<1> HIDE DEF next
<1>4. par' \in ParentRun /\ par'.phase = "enter"
  BY <1>1, <1>2, ToFields DEF BaseInv, TypeInv
<1>5. art' \in Artifacts
  BY <1>1, <1>3, SetArtifact DEF BaseInv, TypeInv
<1> QED
  BY <1>1, <1>4, <1>5, GraphTypes

\* Waiting for a child that runs elsewhere.
WaitReasons == {"child_workflow_completed_waiting_for_pr_merge", "active_child_lease",
                "cleanup_abandoned_requires_continuation", "non_actionable_child_lease",
                "child_lease_claim_contended", "child_lease_relaunch_contended"}

LEMMA ElsewhereTypes ==
    ASSUME BaseInv, NEW c \in Children, NEW row \in IssueLease, NEW reason \in WaitReasons,
           wait_for_existing_child(c, row, reason)
    PROVE  /\ par' \in ParentRun /\ par'.phase = "enter"
           /\ par'.step \in {par.step, "wait_for_child_merge"}
           /\ art' \in Artifacts /\ SameFindings(art, art')
           /\ \A d \in Children : d # c => art'.rollup[d] = art.rollup[d]
<1> DEFINE a == update_rollup(art, c, reason)
           merge == "child_workflow_completed_waiting_for_pr_merge"
           t == [child |-> c, run |-> row.run_id]
           w == [a EXCEPT !.cwait = t]
<1>1. art \in Artifacts /\ par \in ParentRun /\ reason \in Outcomes /\ merge \in Outcomes
  BY DEF BaseInv, TypeInv, WaitReasons, Outcomes
<1>2. t \in Target
  BY Numbers DEF Target, IssueLease
<1>3. /\ a \in Artifacts /\ SameFindings(art, a)
      /\ \A d \in Children : d # c => a.rollup[d] = art.rollup[d]
  BY <1>1, RollupFields
<1> HIDE DEF a, t
<1>4. w \in Artifacts /\ SameFindings(a, w) /\ w.rollup = a.rollup
  BY <1>2, <1>3, CwaitFields
<1> HIDE DEF w
<1>5. \/ art' = update_rollup(art, c, merge) /\ par' = To(par, "wait_for_child_merge")
      \/ art' = w /\ par' = persist_external_wait_state(par, w)
  BY DEF wait_for_existing_child, w, a, t
<1>6. CASE art' = update_rollup(art, c, merge) /\ par' = To(par, "wait_for_child_merge")
  <2>1. "wait_for_child_merge" \in Steps
    BY DEF Steps
  <2>2. par' \in ParentRun /\ par'.phase = "enter" /\ par'.step = "wait_for_child_merge"
    BY <1>1, <1>6, <2>1, ToFields
  <2> QED
    BY <1>1, <1>6, <2>2, RollupFields
<1>7. CASE art' = w /\ par' = persist_external_wait_state(par, w)
  <2>1. par' \in ParentRun /\ par'.phase = "enter" /\ par'.step = par.step
    BY <1>1, <1>4, <1>7, WaitFields
  <2>2. SameFindings(art, w)
    BY <1>3, <1>4, SameFindingsTrans
  <2> QED
    BY <1>3, <1>4, <1>7, <2>1, <2>2
<1> QED
  BY <1>5, <1>6, <1>7

\* The forms in which the steps change the parent run.
Holding(p, ph, row) == [p EXCEPT !.phase = ph, !.held = row]
Naming(p, ph, n) == [p EXCEPT !.phase = ph, !.rid = n]
Moving(p, ph) == [p EXCEPT !.phase = ph]
Ending(p, m) == [p EXCEPT !.mode = m]
Waking(p, m, t) == [p EXCEPT !.mode = m, !.target = t]

LEMMA MovingFields ==
    ASSUME NEW p \in ParentRun, NEW ph \in Phases
    PROVE  /\ Moving(p, ph) \in ParentRun /\ Moving(p, ph).phase = ph
           /\ Moving(p, ph).rid = p.rid /\ Moving(p, ph).held = p.held
           /\ Moving(p, ph).mode = p.mode /\ Moving(p, ph).step = p.step
<1>1. Moving(p, ph) \in ParentRun
  BY SetField DEF Moving
<1> QED
  BY <1>1 DEF Moving, ParentRun

LEMMA HoldingFields ==
    ASSUME NEW p \in ParentRun, NEW ph \in Phases, NEW row \in IssueLease
    PROVE  /\ Holding(p, ph, row) \in ParentRun /\ Holding(p, ph, row).phase = ph
           /\ Holding(p, ph, row).held = row
           /\ Holding(p, ph, row).mode = p.mode /\ Holding(p, ph, row).step = p.step
<1> DEFINE x == Moving(p, ph)
           y == [x EXCEPT !.held = row]
<1>1. Holding(p, ph, row) = y
  BY Zenon DEF Holding, Moving
<1>2. x \in ParentRun /\ x.phase = ph /\ x.mode = p.mode /\ x.step = p.step
  BY MovingFields
<1> HIDE DEF x
<1>3. y \in ParentRun
  BY <1>2, SetField
<1>4. y.phase = ph /\ y.held = row /\ y.mode = p.mode /\ y.step = p.step
  BY <1>2 DEF ParentRun
<1> QED
  BY <1>1, <1>3, <1>4

LEMMA NamingFields ==
    ASSUME NEW p \in ParentRun, NEW ph \in Phases, NEW n \in Nat
    PROVE  /\ Naming(p, ph, n) \in ParentRun /\ Naming(p, ph, n).phase = ph
           /\ Naming(p, ph, n).rid = n /\ Naming(p, ph, n).held = p.held
           /\ Naming(p, ph, n).mode = p.mode /\ Naming(p, ph, n).step = p.step
<1> DEFINE x == Moving(p, ph)
           y == [x EXCEPT !.rid = n]
<1>1. Naming(p, ph, n) = y
  BY Zenon DEF Naming, Moving
<1>2. x \in ParentRun /\ x.phase = ph /\ x.held = p.held /\ x.mode = p.mode /\ x.step = p.step
  BY MovingFields
<1> HIDE DEF x
<1>3. y \in ParentRun
  BY <1>2, SetField
<1>4. y.phase = ph /\ y.rid = n /\ y.held = p.held /\ y.mode = p.mode /\ y.step = p.step
  BY <1>2 DEF ParentRun
<1> QED
  BY <1>1, <1>3, <1>4

LEMMA EndingFields ==
    ASSUME NEW p \in ParentRun, NEW m \in Modes
    PROVE  /\ Ending(p, m) \in ParentRun /\ Ending(p, m).mode = m
           /\ Ending(p, m).phase = p.phase /\ Ending(p, m).step = p.step
           /\ Ending(p, m).held = p.held /\ Ending(p, m).rid = p.rid
<1>1. Ending(p, m) \in ParentRun
  BY SetField DEF Ending
<1> QED
  BY <1>1 DEF Ending, ParentRun

LEMMA WakingFields ==
    ASSUME NEW p \in ParentRun, NEW m \in Modes, NEW t \in Target
    PROVE  /\ Waking(p, m, t) \in ParentRun /\ Waking(p, m, t).mode = m
           /\ Waking(p, m, t).phase = p.phase /\ Waking(p, m, t).step = p.step
<1> DEFINE x == Ending(p, m)
           y == [x EXCEPT !.target = t]
<1>1. Waking(p, m, t) = y
  BY Zenon DEF Waking, Ending
<1>2. x \in ParentRun /\ x.phase = p.phase /\ x.mode = m /\ x.step = p.step
  BY EndingFields
<1> HIDE DEF x
<1>3. y \in ParentRun
  BY <1>2, SetField
<1>4. y.phase = p.phase /\ y.mode = m /\ y.step = p.step
  BY <1>2 DEF ParentRun
<1> QED
  BY <1>1, <1>3, <1>4

\* What a launch has to show of each place it goes to.
LEMMA PhaseGoal ==
    ASSUME par'.mode = "running", par'.step = "launch_or_resume_child_workflow",
           art'.sel \in Children,
           par'.phase = "relaunch" => par'.held.status \in {"failed", "abandoned", "stale"},
           par'.phase \in Launching => par'.rid \in Runs(art'.sel) /\ (FromClaim \/ FromReady)',
           par'.phase \in {"start", "label"} => FromClaim',
           par'.phase = "resume" => par'.held.status = "ready_to_resume",
           par'.phase = "recover" => FromReady'
    PROVE  PhaseInv'
BY DEF PhaseInv

Launch == "launch_or_resume_child_workflow"

LEMMA Base_launch == ASSUME BaseInv, launch_child_workflow PROVE BaseInv'
<1> DEFINE c == art.sel
           row == lease[c]
<1>1. /\ par \in ParentRun /\ art \in Artifacts /\ c \in Children /\ row \in IssueLease
      /\ par.mode = "running" /\ par.step = Launch
  BY DEF launch_child_workflow, InLaunch, At, BaseInv, TypeInv, Artifacts, Launch
<1>2. UNCHANGED <<issue, pr, subs, pissue, lease, run, exec>> /\ pissue' \in {"open", "closed"}
  BY DEF launch_child_workflow, BaseInv, TypeInv
<1>3. CASE observe_existing_child_pr(c)
  <2>1. "wait_for_child_merge" \in Steps /\ "observing_existing_child_pr" \in Outcomes
    BY DEF Steps, Outcomes
  <2>2. art' \in Artifacts
    BY <1>1, <1>3, <2>1, RollupFields DEF observe_existing_child_pr
  <2>3. par' \in ParentRun /\ par'.phase = "enter"
    BY <1>1, <1>3, <2>1, ToFields DEF observe_existing_child_pr
  <2> QED
    BY <1>2, <2>2, <2>3, LabelTypes
<1>4. CASE prepare_child_lease_with_conn(c, row)
  <2>1. CASE \E ph \in {"claim", "resume", "relaunch"} :
               /\ par' = [par EXCEPT !.phase = ph, !.held = row] /\ art' = art
               /\ ph = "relaunch" => row.status \in {"failed", "abandoned", "stale"}
               /\ ph = "resume" => row.status = "ready_to_resume"
    <3>1. PICK ph \in {"claim", "resume", "relaunch"} :
               /\ par' = [par EXCEPT !.phase = ph, !.held = row] /\ art' = art
               /\ ph = "relaunch" => row.status \in {"failed", "abandoned", "stale"}
               /\ ph = "resume" => row.status = "ready_to_resume"
      BY <2>1
    <3>2. ph \in Phases
      BY DEF Phases
    <3>2a. par' = Holding(par, ph, row)
      BY <3>1 DEF Holding
    <3>3. /\ par' \in ParentRun /\ par'.phase = ph /\ par'.held = row
          /\ par'.mode = par.mode /\ par'.step = par.step
      BY <1>1, <3>2, <3>2a, HoldingFields
    <3>4. PhaseInv'
      BY <1>1, <3>1, <3>3, PhaseGoal DEF Launch, Launching
    <3> QED
      BY <1>1, <1>2, <3>1, <3>3, <3>4 DEF BaseInv, TypeInv, NamedInv, TakenInv, Launching
  <2>2. CASE \E reason \in WaitReasons : wait_for_existing_child(c, row, reason)
    BY <1>1, <1>2, <2>2, ElsewhereTypes, LabelTypes
  <2>3. {"child_workflow_completed_waiting_for_pr_merge", "active_child_lease",
         "cleanup_abandoned_requires_continuation", "non_actionable_child_lease"} \subseteq WaitReasons
    BY DEF WaitReasons
  <2> QED
    BY <1>4, <2>1, <2>2, <2>3 DEF prepare_child_lease_with_conn
<1> QED
  BY <1>3, <1>4 DEF launch_child_workflow

\* A step that changes one lease, and the runs and executions of its child.
LEMMA LeaseTypes ==
    ASSUME BaseInv, NEW c \in Children, NEW row \in IssueLease,
           UNCHANGED <<issue, pr, subs, pissue>>, lease' = [lease EXCEPT ![c] = row],
           row.run_id \in {NoRun} \cup Runs(c),
           row.status \in {"running", "waiting_external", "ready_to_resume"} => row.run_id # NoRun,
           IsRuns(run'), exec' \in SUBSET [child : Children, run : Nat, who : {"parent", "daemon"}],
           \A e \in exec' : e.run \in Runs(e.child),
           par' \in ParentRun, art' \in Artifacts, PhaseInv',
           par'.phase \in Launching =>
              /\ art'.sel \in Children
              /\ art'.sel = c => row.status # "absent"
              /\ art'.sel # c => par.phase \in Launching /\ art'.sel = art.sel
    PROVE  BaseInv'
<1>1. /\ lease' \in [Children -> IssueLease] /\ lease'[c] = row
      /\ \A d \in Children : d # c => lease'[d] = lease[d]
  BY SetLease DEF BaseInv, TypeInv
<1>2. NamedInv'
  BY <1>1 DEF NamedInv, BaseInv
<1>3. TypeInv'
  BY <1>1 DEF TypeInv, BaseInv
<1>4. TakenInv'
  BY <1>1 DEF TakenInv, BaseInv
<1> QED
  BY <1>2, <1>3, <1>4 DEF BaseInv

\* A phase of a launch knows its child.
LEMMA InPhase ==
    ASSUME BaseInv, NEW ph \in Phases, ph # "enter", InLaunch(ph)
    PROVE  /\ par.phase = ph /\ par.mode = "running" /\ par.step = Launch
           /\ art.sel \in Children /\ lease[art.sel] \in IssueLease
           /\ par \in ParentRun /\ art \in Artifacts /\ par.held \in IssueLease
           /\ lease[art.sel].run_id \in {NoRun} \cup Runs(art.sel)
BY DEF InLaunch, At, BaseInv, PhaseInv, TypeInv, NamedInv, Launch, ParentRun

LEMMA Base_claim == ASSUME BaseInv, claim_child_lease PROVE BaseInv'
<1> DEFINE c == art.sel
           row == try_claim(lease[c])
<1>1a. "start" \in Phases
  BY DEF Phases
<1>1. "claim" \in Phases /\ "child_lease_claim_contended" \in WaitReasons
      /\ AbsentRow \in IssueLease
  BY DEF Phases, WaitReasons, AbsentRow, IssueLease, NoLease, NoRun
<1>2. InLaunch("claim") /\ UNCHANGED <<github, run, exec>>
  BY DEF claim_child_lease
<1>3. /\ par.mode = "running" /\ par.step = Launch
      /\ c \in Children /\ lease[c] \in IssueLease /\ par \in ParentRun /\ art \in Artifacts
  BY <1>1, <1>2, InPhase
<1>3a. par \in ParentRun
  BY <1>3
<1>4. CASE /\ claim_wins(lease[c]) /\ lease' = [lease EXCEPT ![c] = row] /\ art' = art
           /\ par' = [par EXCEPT !.phase = "start", !.held = row]
  <2>1. row \in IssueLease /\ row.status = "claimed" /\ row.run_id = NoRun
    BY <1>3, <1>4, ClaimedRow
  <2> HIDE DEF row
  <2>1a. par' = Holding(par, "start", row)
    BY <1>4 DEF Holding
  <2>2. /\ par' \in ParentRun /\ par'.phase = "start" /\ par'.held = row
        /\ par'.mode = par.mode /\ par'.step = par.step
    BY <1>1a, <1>3a, <2>1, <2>1a, HoldingFields
  <2>3. PhaseInv'
    BY <1>3, <1>4, <2>1, <2>2, PhaseGoal DEF Launch, Launching, FromClaim
  <2> QED
    BY <1>2, <1>3, <1>4, <2>1, <2>2, <2>3, LeaseTypes DEF github, BaseInv, TypeInv, Launching
<1>5. CASE contended(c, "child_lease_claim_contended") /\ lease' = lease
  <2>1. par' \in ParentRun /\ par'.phase = "enter" /\ art' \in Artifacts
    BY <1>1, <1>3, <1>5, ElsewhereTypes DEF contended
  <2> QED
    BY <1>2, <1>5, <2>1, GraphTypes DEF github
<1> QED
  BY <1>4, <1>5 DEF claim_child_lease

LEMMA Base_relaunch == ASSUME BaseInv, prepare_relaunchable_child PROVE BaseInv'
<1> DEFINE c == art.sel
           row == clear_child_lease_for_relaunch(lease[c])
<1>1a. "start" \in Phases
  BY DEF Phases
<1>1. "relaunch" \in Phases /\ "child_lease_relaunch_contended" \in WaitReasons
      /\ AbsentRow \in IssueLease
  BY DEF Phases, WaitReasons, AbsentRow, IssueLease, NoLease, NoRun
<1>2. InLaunch("relaunch") /\ UNCHANGED <<github, run, exec>>
  BY DEF prepare_relaunchable_child
<1>3. /\ par.mode = "running" /\ par.step = Launch
      /\ c \in Children /\ lease[c] \in IssueLease /\ par \in ParentRun /\ art \in Artifacts
  BY <1>1, <1>2, InPhase
<1>3a. par \in ParentRun
  BY <1>3
<1>4. CASE /\ lease' = [lease EXCEPT ![c] = row] /\ art' = art
           /\ par' = [par EXCEPT !.phase = "start", !.held = row]
  <2>1. row \in IssueLease /\ row.status = "claimed" /\ row.run_id = NoRun
    BY <1>3, RelaunchedRow
  <2> HIDE DEF row
  <2>1a. par' = Holding(par, "start", row)
    BY <1>4 DEF Holding
  <2>2. /\ par' \in ParentRun /\ par'.phase = "start" /\ par'.held = row
        /\ par'.mode = par.mode /\ par'.step = par.step
    BY <1>1a, <1>3a, <2>1, <2>1a, HoldingFields
  <2>3. PhaseInv'
    BY <1>3, <1>4, <2>1, <2>2, PhaseGoal DEF Launch, Launching, FromClaim
  <2> QED
    BY <1>2, <1>3, <1>4, <2>1, <2>2, <2>3, LeaseTypes DEF github, BaseInv, TypeInv, Launching
<1>5. CASE contended(c, "child_lease_relaunch_contended") /\ lease' = lease
  <2>1. par' \in ParentRun /\ par'.phase = "enter" /\ art' \in Artifacts
    BY <1>1, <1>3, <1>5, ElsewhereTypes DEF contended
  <2> QED
    BY <1>2, <1>5, <2>1, GraphTypes DEF github
<1> QED
  BY <1>4, <1>5 DEF prepare_relaunchable_child

\* A step that keeps the executions and leaves the launch parked.
LEMMA ParkedTypes ==
    ASSUME BaseInv, UNCHANGED <<github, lease, run, exec>>, art' = art,
           par' = persist_external_wait_state(par, art)
    PROVE  BaseInv'
<1>1. par \in ParentRun /\ art \in Artifacts
  BY DEF BaseInv, TypeInv
<1>2. par' \in ParentRun /\ par'.phase = "enter"
  BY <1>1, WaitFields
<1> QED
  BY <1>1, <1>2, GraphTypes

\* A launch or a resumption takes the lease for run n.
LEMMA TakenTypes ==
    ASSUME BaseInv, NEW from \in {"start", "resume"}, NEW ph \in {"label", "recover"},
           InLaunch(from), NEW n \in Runs(art.sel),
           UNCHANGED <<github, exec>>, art' = art, IsRuns(run'),
           lease' = [lease EXCEPT ![art.sel] = ToRunning(@, n)],
           par' = Naming(par, ph, n),
           ph = "label" => FromClaim,
           ph = "recover" => par.held.status = "ready_to_resume" /\ par.held.run_id = n
    PROVE  BaseInv'
<1> DEFINE c == art.sel
           row == ToRunning(lease[c], n)
<1>1. from \in Phases /\ from # "enter"
  BY DEF Phases
<1>2. /\ par.mode = "running" /\ par.step = Launch /\ c \in Children /\ lease[c] \in IssueLease
      /\ par \in ParentRun /\ art \in Artifacts
  BY <1>1, InPhase
<1>3. n \in Nat /\ n # NoRun
  BY <1>2, Numbers
<1>4. row \in IssueLease /\ row.run_id = n /\ row.status # "absent"
  BY <1>2, <1>3, RunningRow
<1>5. ph \in Phases
  BY DEF Phases, Launching
<1>5a. par \in ParentRun
  BY <1>2
<1>5b. n \in Nat
  BY <1>3
<1>6. /\ par' \in ParentRun /\ par'.phase = ph /\ par'.rid = n /\ par'.held = par.held
      /\ par'.mode = par.mode /\ par'.step = par.step
  BY <1>5, <1>5a, <1>5b, NamingFields
<1>7. PhaseInv'
  BY <1>2, <1>6, PhaseGoal DEF Launch, FromClaim, FromReady
<1>8. lease' = [lease EXCEPT ![c] = row]
  OBVIOUS
<1> HIDE DEF row
<1> QED
  BY <1>2, <1>3, <1>4, <1>6, <1>7, <1>8, LeaseTypes DEF github, BaseInv, TypeInv

LEMMA Base_start == ASSUME BaseInv, start_child_workflow PROVE BaseInv'
<1> DEFINE c == art.sel
           n == Cardinality(Minted(c)) + 1
           v == [status |-> "unborn", by |-> "parent"]
<1>1. InLaunch("start") /\ n \in Runs(c) /\ UNCHANGED <<github, exec>> /\ art' = art
  BY DEF start_child_workflow
<1>2. CASE /\ lease' = [lease EXCEPT ![c] = ToRunning(@, n)]
           /\ run' = [run EXCEPT ![c][n] = v]
           /\ par' = [par EXCEPT !.phase = "label", !.rid = n]
  <2>1. v \in RunState
    BY DEF RunState, Statuses
  <2>2. par.phase = "start" /\ c \in Children
    BY <1>1, InPhase DEF Phases
  <2>3. IsRuns(run) /\ FromClaim
    BY <2>2 DEF BaseInv, TypeInv, PhaseInv
  <2>3a. run' = WithRow(run, c, n, v)
    BY <1>2 DEF WithRow
  <2> HIDE DEF v, n
  <2>4. IsRuns(run')
    BY <1>1, <2>1, <2>2, <2>3, <2>3a, SetRun
  <2>5. par' = Naming(par, "label", n)
    BY <1>2 DEF Naming
  <2> QED
    BY <1>1, <1>2, <2>3, <2>4, <2>5, TakenTypes
<1>3. CASE par' = persist_external_wait_state(par, art) /\ UNCHANGED <<lease, run>>
  BY <1>1, <1>3, ParkedTypes
<1> QED
  BY <1>2, <1>3 DEF start_child_workflow

LEMMA Base_resume == ASSUME BaseInv, resume_child_workflow PROVE BaseInv'
<1> DEFINE c == art.sel
           n == par.held.run_id
<1>1. InLaunch("resume") /\ UNCHANGED <<github, run, exec>> /\ art' = art
  BY DEF resume_child_workflow
<1>2. CASE /\ claim_running_lease_cas(lease[c], par.held, "ready_to_resume")
           /\ lease' = [lease EXCEPT ![c] = ToRunning(@, n)]
           /\ par' = [par EXCEPT !.phase = "recover", !.rid = n]
  <2>1. c \in Children
    BY <1>1, InPhase DEF Phases
  <2>2. lease[c].status = "ready_to_resume" /\ lease[c].run_id = n
    BY <1>2 DEF claim_running_lease_cas, cas_applies
  <2>3. n \in Runs(c)
    BY <2>1, <2>2 DEF BaseInv, NamedInv
  <2>4. IsRuns(run')
    BY <1>1 DEF BaseInv, TypeInv
  <2>5. par' = Naming(par, "recover", n)
    BY <1>2 DEF Naming
  <2>6. par.held.status = "ready_to_resume"
    BY <1>1 DEF BaseInv, PhaseInv, InLaunch
  <2> HIDE DEF n
  <2> QED
    BY <1>1, <1>2, <2>3, <2>4, <2>5, <2>6, TakenTypes DEF n
<1>3. CASE par' = persist_external_wait_state(par, art) /\ UNCHANGED lease
  BY <1>1, <1>3, ParkedTypes
<1> QED
  BY <1>2, <1>3 DEF resume_child_workflow

ExecSpace == [child : Children, run : Nat, who : {"parent", "daemon"}]

LEMMA OneExecution ==
    ASSUME NEW c \in Children, NEW n \in Runs(c), NEW who \in {"parent", "daemon"}
    PROVE  /\ Execution(c, n, who) \in ExecSpace
           /\ Execution(c, n, who).child = c /\ Execution(c, n, who).run = n
           /\ Execution(c, n, who).who = who
<1>1. n \in Nat
  BY Numbers
<1> QED
  BY <1>1 DEF Execution, ExecSpace

LEMMA Base_runner ==
    ASSUME BaseInv, runner_starts
    PROVE  BaseInv'
<1> DEFINE c == art.sel
           n == par.rid
<1>1. PICK ph \in {"label", "recover"} : InLaunch(ph)
  BY DEF runner_starts
<1>2. /\ run' = [run EXCEPT ![c][n].status = "running"]
      /\ exec' = exec \cup {Execution(c, n, "parent")}
      /\ par' = Moving(par, "child")
      /\ UNCHANGED <<issue, pr, subs, pissue, lease, art>>
  BY DEF runner_starts, Moving
<1>3. ph \in Phases /\ ph # "enter" /\ ph \in Launching
  BY DEF Phases, Launching
<1>4. /\ par.phase = ph /\ par.mode = "running" /\ par.step = Launch /\ c \in Children
  BY <1>1, <1>3, InPhase
<1>5. n \in Runs(c) /\ (FromClaim \/ FromReady)
  BY <1>3, <1>4 DEF BaseInv, PhaseInv
<1>6. Execution(c, n, "parent") \in ExecSpace /\ Execution(c, n, "parent").child = c
      /\ Execution(c, n, "parent").run = n
  BY <1>4, <1>5, OneExecution
<1>7. exec' \in SUBSET ExecSpace /\ \A e \in exec' : e.run \in Runs(e.child)
  BY <1>2, <1>5, <1>6 DEF BaseInv, TypeInv, ExecSpace
<1>8. "running" \in Statuses
  BY DEF Statuses
<1>8a. IsRuns(run)
  BY DEF BaseInv, TypeInv
<1>8b. run' = WithStatus(run, c, n, "running")
  BY <1>2 DEF WithStatus
<1> HIDE DEF c, n
<1>9. IsRuns(run')
  BY <1>4, <1>5, <1>8, <1>8a, <1>8b, SetStatus
<1>10. "child" \in Phases
  BY DEF Phases, Launching
<1>11. par \in ParentRun
  BY DEF BaseInv, TypeInv
<1>11a. par' = Moving(par, "child")
  BY <1>2
<1>12. /\ par' \in ParentRun /\ par'.phase = "child" /\ par'.rid = par.rid /\ par'.held = par.held
       /\ par'.mode = par.mode /\ par'.step = par.step
  BY <1>10, <1>11, <1>11a, MovingFields
<1>13. PhaseInv'
  BY <1>2, <1>4, <1>5, <1>12, PhaseGoal DEF Launch, FromClaim, FromReady, c, n
<1> QED
  BY <1>2, <1>3, <1>4, <1>7, <1>9, <1>12, <1>13 DEF BaseInv, TypeInv, NamedInv, TakenInv, ExecSpace

\* The error puts back what the launch had found.
LEMMA RestoredRow ==
    ASSUME NEW c \in Children, NEW row \in IssueLease, NEW held \in IssueLease, NEW n \in Runs(c),
           row.run_id \in {NoRun} \cup Runs(c),
           \/ held.status = "claimed" /\ held.run_id = NoRun
           \/ held.status = "ready_to_resume" /\ held.run_id = n,
           NEW back, back = restore_child_lease_after_runner_error(row, held, n)
    PROVE  /\ back \in IssueLease /\ back.run_id = row.run_id /\ back.lease_id = row.lease_id
           /\ \/ back = row
              \/ /\ row.status = "running" /\ row.run_id = n
                 /\ back.status = held.status /\ ~back.overdue
<1>1. held.status \in LeaseStatus /\ held.run_id \in Nat /\ n # NoRun
  BY Numbers DEF IssueLease, LeaseStatus
<1>2. back = update_lease_status_conditional(row, held.lease_id, held.status, {"running"},
                                             held.run_id, {n})
  BY DEF restore_child_lease_after_runner_error
<1>3. /\ back \in IssueLease /\ back.lease_id = row.lease_id
      /\ ~cas_applies(row, held.lease_id, {"running"}, {n}) => back = row
      /\ cas_applies(row, held.lease_id, {"running"}, {n}) =>
            /\ row.status \in {"running"} /\ row.run_id \in {n}
            /\ back.status = held.status /\ ~back.overdue
            /\ back.run_id = IF held.run_id = NoRun THEN row.run_id ELSE held.run_id
  BY <1>1, <1>2, UpdatedRow
<1> QED
  BY <1>1, <1>3

LEMMA Base_compensate == ASSUME BaseInv, compensate_error PROVE BaseInv'
<1> DEFINE c == art.sel
           n == par.rid
           row == restore_child_lease_after_runner_error(lease[c], par.held, n)
<1>1. PICK ph \in {"label", "recover", "finish"} : InLaunch(ph)
  BY DEF compensate_error
<1>2. /\ lease' = [lease EXCEPT ![c] = row] /\ UNCHANGED <<github, run, exec, art>>
      /\ par' = [Left(par) EXCEPT !.mode = "failed"]
  BY DEF compensate_error
<1>3. ph \in Phases /\ ph # "enter" /\ ph \in Launching
  BY DEF Phases, Launching
<1>4. /\ par.phase = ph /\ c \in Children /\ par \in ParentRun /\ par.held \in IssueLease
      /\ lease[c] \in IssueLease /\ lease[c].run_id \in {NoRun} \cup Runs(c)
  BY <1>1, <1>3, InPhase
<1>5. n \in Runs(c) /\ (FromClaim \/ FromReady)
  BY <1>3, <1>4 DEF BaseInv, PhaseInv
<1>6. /\ row \in IssueLease /\ row.run_id = lease[c].run_id
      /\ row = lease[c] \/ (lease[c].run_id = n /\ lease[c].status = "running")
  BY <1>4, <1>5, RestoredRow DEF FromClaim, FromReady
<1> HIDE DEF row
<1>7. lease[c].status \in {"running", "waiting_external", "ready_to_resume"} => lease[c].run_id # NoRun
  BY <1>4 DEF BaseInv, NamedInv
<1>8. Left(par) \in ParentRun /\ Left(par).phase = "enter"
  BY <1>4, LeftFields
<1>9. "failed" \in Modes
  BY DEF Modes
<1>9a. Left(par) \in ParentRun
  BY <1>8
<1>9b. par' = Ending(Left(par), "failed")
  BY <1>2 DEF Ending
<1>10. par' \in ParentRun /\ par'.phase = "enter"
  BY <1>8, <1>9, <1>9a, <1>9b, EndingFields
<1>11. PhaseInv'
  BY <1>10, EnteredPhase
<1>12. /\ row.run_id \in {NoRun} \cup Runs(c)
       /\ row.status \in {"running", "waiting_external", "ready_to_resume"} => row.run_id # NoRun
  BY <1>4, <1>6, <1>7
<1> QED
  BY <1>2, <1>4, <1>6, <1>10, <1>11, <1>12, LeaseTypes DEF github, BaseInv, TypeInv, Launching

\* A run ends; an abandoned one leaves its lease to nobody.
LEMMA EndedRow ==
    ASSUME NEW c \in Children, NEW row \in IssueLease, NEW n \in Runs(c), NEW back,
           back = update_lease_status_conditional(row, row.lease_id, "cleanup_abandoned",
                                                  {"running"}, NoRun, {n})
    PROVE  /\ back \in IssueLease /\ back.run_id = row.run_id /\ back.lease_id = row.lease_id
           /\ back = row \/ (row.status = "running" /\ row.run_id = n
                             /\ back.status = "cleanup_abandoned")
<1>1. "cleanup_abandoned" \in LeaseStatus /\ NoRun \in Nat
  BY Numbers DEF LeaseStatus
<1> QED
  BY <1>1, UpdatedRow

LEMMA EndingStatuses == \A c : Endings(c) \subseteq Statuses
BY DEF Endings, Statuses

LEMMA Base_result == ASSUME BaseInv, child_result_from_run_outcome PROVE BaseInv'
<1> DEFINE c == art.sel
           n == par.rid
           abandoned == update_lease_status_conditional(lease[c], lease[c].lease_id,
                            "cleanup_abandoned", {"running"}, NoRun, {n})
<1>1. /\ InLaunch("child") /\ exec' = exec \ {Execution(c, n, "parent")}
      /\ par' = Moving(par, "finish") /\ UNCHANGED <<github, art>>
  BY DEF child_result_from_run_outcome, Moving
<1>2. PICK s \in Endings(c) : child_ends(c, n, s)
  BY DEF child_result_from_run_outcome
<1>3. "child" \in Phases /\ "child" # "enter" /\ "child" \in Launching /\ "finish" \in Phases
  BY DEF Phases, Launching
<1>3a. "child" \in Launching
  BY <1>3
<1>4. /\ par.phase = "child" /\ par.mode = "running" /\ par.step = Launch /\ c \in Children
      /\ par \in ParentRun
      /\ lease[c] \in IssueLease /\ lease[c].run_id \in {NoRun} \cup Runs(c)
  BY <1>1, <1>3, InPhase
<1>5. n \in Runs(c) /\ (FromClaim \/ FromReady)
  BY <1>3, <1>4 DEF BaseInv, PhaseInv
<1>6. s \in Statuses /\ IsRuns(run) /\ run' = WithStatus(run, c, n, s)
  BY <1>2, EndingStatuses DEF child_ends, WithStatus, BaseInv, TypeInv
<1>7. PICK row \in {lease[c], abandoned} : lease' = [lease EXCEPT ![c] = row]
  <2>1. CASE lease' = lease
    <3>1. lease' = [lease EXCEPT ![c] = lease[c]]
      BY <1>4, <2>1 DEF BaseInv, TypeInv
    <3> QED
      BY <3>1
  <2>2. CASE lease' = [lease EXCEPT ![c] = abandoned]
    BY <2>2
  <2> QED
    BY <1>2, <2>1, <2>2 DEF child_ends
<1>8. /\ row \in IssueLease /\ row.run_id = lease[c].run_id
      /\ row = lease[c] \/ row.status = "cleanup_abandoned"
  BY <1>4, <1>5, EndedRow
<1>9. lease[c].status \in {"running", "waiting_external", "ready_to_resume"} => lease[c].run_id # NoRun
  BY <1>4 DEF BaseInv, NamedInv
<1>10. /\ row.run_id \in {NoRun} \cup Runs(c)
       /\ row.status \in {"running", "waiting_external", "ready_to_resume"} => row.run_id # NoRun
  BY <1>4, <1>8, <1>9
<1> HIDE DEF abandoned, c, n
<1>11. IsRuns(run')
  BY <1>4, <1>5, <1>6, SetStatus
<1>12. par \in ParentRun /\ par' = Moving(par, "finish")
  BY <1>1, <1>4
<1>12a. "finish" \in Phases
  BY <1>3
<1>13. /\ par' \in ParentRun /\ par'.phase = "finish" /\ par'.rid = par.rid /\ par'.held = par.held
       /\ par'.mode = par.mode /\ par'.step = par.step
  BY <1>12, <1>12a, MovingFields
<1>14. PhaseInv'
  BY <1>1, <1>4, <1>5, <1>13, PhaseGoal DEF Launch, FromClaim, FromReady, c, n
<1>15. exec' \in SUBSET ExecSpace /\ \A e \in exec' : e.run \in Runs(e.child)
  BY <1>1 DEF BaseInv, TypeInv, ExecSpace
<1>16. UNCHANGED <<issue, pr, subs, pissue>> /\ art' \in Artifacts /\ art'.sel = c
  BY <1>1 DEF github, BaseInv, TypeInv, c
<1>17. row.status # "absent"
  BY <1>3a, <1>4, <1>8 DEF BaseInv, TakenInv, c
<1> QED
  BY <1>3a, <1>4, <1>7, <1>8, <1>10, <1>11, <1>13, <1>14, <1>15, <1>16, <1>17, LeaseTypes
     DEF ExecSpace

\* Where a launch goes when it is over.
LEMMA AfterLaunchFields ==
    ASSUME NEW p \in ParentRun, NEW a \in Artifacts, NEW o \in {"Success", "Fixable", "Wait"},
           NEW q, q = AfterLaunch(p, a, o)
    PROVE  /\ q \in ParentRun /\ q.phase = "enter"
           /\ q.step \in {p.step, "wait_for_child_merge", "evaluate_parent_completion"}
<1>1. "wait_for_child_merge" \in Steps
  BY DEF Steps
<1>2. "evaluate_parent_completion" \in Steps
  BY DEF Steps
<1>3. CASE o = "Success"
  BY <1>1, <1>3, ToFields DEF AfterLaunch
<1>4. CASE o = "Fixable"
  BY <1>2, <1>4, ToFields DEF AfterLaunch
<1>5. CASE o = "Wait"
  BY <1>5, WaitFields DEF AfterLaunch
<1> QED
  BY <1>3, <1>4, <1>5

Results == {"CompletedSuccess", "CompletedFailure", "WaitingExternal"}

\* What the finish of a launch leaves in the artifacts.
Recorded(c, n, result) ==
    LET a == update_rollup(art, c, rollup_outcome(result))
    IN  IF result = "WaitingExternal" THEN [a EXCEPT !.cwait = [child |-> c, run |-> n]] ELSE a

LEMMA RecordedFields ==
    ASSUME TypeInv, NEW c \in Children, NEW n \in Runs(c), NEW result \in Results
    PROVE  /\ Recorded(c, n, result) \in Artifacts /\ SameFindings(art, Recorded(c, n, result))
           /\ Recorded(c, n, result).rollup[c] \in
                 {"completed_success", "failed_child_run", "waiting_external"}
           /\ \A d \in Children : d # c => Recorded(c, n, result).rollup[d] = art.rollup[d]
<1> DEFINE a == update_rollup(art, c, rollup_outcome(result))
           t == [child |-> c, run |-> n]
           b == [a EXCEPT !.cwait = t]
<1>1. /\ rollup_outcome(result) \in {"completed_success", "failed_child_run", "waiting_external"}
      /\ rollup_outcome(result) \in Outcomes
  BY DEF rollup_outcome, Results, Outcomes
<1>2. art \in Artifacts
  BY DEF TypeInv
<1>3. /\ a \in Artifacts /\ SameFindings(art, a)
      /\ a.rollup[c] = rollup_outcome(result) /\ \A d \in Children : d # c => a.rollup[d] = art.rollup[d]
  BY <1>1, <1>2, RollupFields
<1>4. t \in Target
  BY Numbers DEF Target
<1> HIDE DEF a, t
<1>5. b \in Artifacts /\ SameFindings(a, b) /\ b.rollup = a.rollup
  BY <1>3, <1>4, CwaitFields
<1>6. SameFindings(art, b)
  BY <1>3, <1>5, SameFindingsTrans
<1> HIDE DEF b
<1>7. Recorded(c, n, result) = IF result = "WaitingExternal" THEN b ELSE a
  BY DEF Recorded, a, b, t
<1> QED
  BY <1>1, <1>3, <1>5, <1>6, <1>7

\* The row a finish leaves.
LEMMA FinishedRow ==
    ASSUME NEW c \in Children, NEW row \in IssueLease, NEW held \in IssueLease, NEW n \in Runs(c),
           NEW result \in Results
    PROVE  LET back == advance_child_lease_for_result(row, held, n, result) IN
           /\ back \in IssueLease /\ back.run_id = row.run_id /\ back.lease_id = row.lease_id
           /\ \/ back = row
              \/ /\ row.lease_id = held.lease_id /\ row.run_id = n
                 /\ row.status \in {"running", "failed", "waiting_external"}
                 /\ back.status = ResultStatus(result)
<1> DEFINE back == advance_child_lease_for_result(row, held, n, result)
<1>1. ResultStatus(result) \in LeaseStatus /\ NoRun \in Nat
  BY Numbers DEF ResultStatus, LeaseStatus, Results
<1>2. advance_expected(result) \subseteq {"running", "failed", "waiting_external"}
  BY DEF advance_expected
<1>3. back = update_lease_status_conditional(row, held.lease_id, ResultStatus(result),
                                             advance_expected(result), NoRun, {n})
  BY DEF advance_child_lease_for_result
<1>4. /\ back \in IssueLease /\ back.lease_id = row.lease_id
      /\ ~cas_applies(row, held.lease_id, advance_expected(result), {n}) => back = row
      /\ cas_applies(row, held.lease_id, advance_expected(result), {n}) =>
            /\ row.lease_id = held.lease_id
            /\ row.status \in advance_expected(result) /\ row.run_id \in {n}
            /\ back.status = ResultStatus(result) /\ ~back.overdue
            /\ back.run_id = IF NoRun = NoRun THEN row.run_id ELSE NoRun
  BY <1>1, <1>3, UpdatedRow
<1> QED
  BY <1>2, <1>4

\* What finish_child_launch does, with its abbreviations expanded.
LEMMA Finishes ==
    ASSUME BaseInv, finish_child_launch
    PROVE  LET c == art.sel
               n == par.rid
               result == classify_child_run_result(run[c][n].status)
           IN  /\ par.phase = "finish" /\ par.step = Launch /\ par.mode = "running"
               /\ c \in Children /\ n \in Runs(c) /\ lease[c] \in IssueLease
               /\ lease[c].run_id \in {NoRun} \cup Runs(c)
               /\ result \in Results
               /\ lease' = [lease EXCEPT ![c] =
                               advance_child_lease_for_result(lease[c], par.held, n, result)]
               /\ UNCHANGED <<issue, pr, subs, pissue, run, exec>>
               /\ par' \in ParentRun /\ par'.phase = "enter"
               /\ par'.step \in {Launch, "wait_for_child_merge", "evaluate_parent_completion"}
               /\ art' \in {art, Recorded(c, n, result)}
<1> DEFINE c == art.sel
           n == par.rid
           result == classify_child_run_result(run[c][n].status)
           row == lease[c]
           q == [par EXCEPT !.ctx = n]
<1>1. InLaunch("finish") /\ UNCHANGED <<issue, pr, subs, pissue, run, exec>>
  BY DEF finish_child_launch
<1>2. "finish" \in Phases /\ "finish" # "enter" /\ "finish" \in Launching
  BY DEF Phases, Launching
<1>3. /\ par.phase = "finish" /\ par.step = Launch /\ par.mode = "running"
      /\ c \in Children /\ lease[c] \in IssueLease /\ par \in ParentRun /\ art \in Artifacts
      /\ row.run_id \in {NoRun} \cup Runs(c)
  BY <1>1, <1>2, InPhase
<1>4. n \in Runs(c)
  BY <1>2, <1>3 DEF BaseInv, PhaseInv
<1>5. n \in Nat /\ n # NoRun
  BY <1>3, <1>4, Numbers
<1>6. RunStatus(c, n) = run[c][n].status
  BY <1>5 DEF RunStatus
<1>7. result \in Results
  BY DEF classify_child_run_result, Results
<1>8. q \in ParentRun /\ q.step = par.step
  <2>1. q \in ParentRun
    BY <1>3, <1>5, SetField
  <2> QED
    BY <1>3, <2>1 DEF ParentRun
<1>9. step_outcome_for_child_result(result) \in {"Success", "Fixable", "Wait"}
  BY <1>7 DEF step_outcome_for_child_result, Results
<1>10. step_outcome_from_durable_lease(row) \in {"Success", "Fixable", "Wait"}
  <2>1. row.status \in LeaseStatus \cup {"absent"}
    BY <1>3 DEF IssueLease
  <2>2. row.status # "absent"
    BY <1>2, <1>3 DEF BaseInv, TakenInv
  <2> QED
    BY <2>1, <2>2 DEF step_outcome_from_durable_lease, LeaseStatus
<1>11. lease' = [lease EXCEPT ![c] = advance_child_lease_for_result(row, par.held, n, result)]
  BY <1>6 DEF finish_child_launch
<1>12. \/ /\ art' = Recorded(c, n, result)
          /\ par' = AfterLaunch(q, Recorded(c, n, result), step_outcome_for_child_result(result))
       \/ /\ art' = art
          /\ par' = AfterLaunch(par, art, step_outcome_from_durable_lease(row))
  BY <1>6 DEF finish_child_launch, Recorded
<1>13. Recorded(c, n, result) \in Artifacts
  BY <1>3, <1>4, <1>7, RecordedFields DEF BaseInv
<1> HIDE DEF result, q, row, n, c
<1>14. /\ par' \in ParentRun /\ par'.phase = "enter"
       /\ par'.step \in {par.step, "wait_for_child_merge", "evaluate_parent_completion"}
  <2>1. par \in ParentRun /\ art \in Artifacts
    BY <1>3
  <2>2. q \in ParentRun /\ q.step = par.step
    BY <1>8
  <2>3. CASE par' = AfterLaunch(q, Recorded(c, n, result), step_outcome_for_child_result(result))
    BY <1>9, <1>13, <2>2, <2>3, AfterLaunchFields
  <2>4. CASE par' = AfterLaunch(par, art, step_outcome_from_durable_lease(row))
    BY <1>10, <2>1, <2>4, AfterLaunchFields
  <2> QED
    BY <1>12, <2>3, <2>4
<1> QED
  BY <1>1, <1>3, <1>4, <1>7, <1>11, <1>12, <1>14 DEF result, q, row, n, c

LEMMA Base_finish == ASSUME BaseInv, finish_child_launch PROVE BaseInv'
<1> DEFINE c == art.sel
           n == par.rid
           result == classify_child_run_result(run[c][n].status)
           row == advance_child_lease_for_result(lease[c], par.held, n, result)
<1>1. /\ c \in Children /\ n \in Runs(c) /\ lease[c] \in IssueLease
      /\ lease[c].run_id \in {NoRun} \cup Runs(c)
      /\ result \in Results /\ lease' = [lease EXCEPT ![c] = row]
      /\ UNCHANGED <<issue, pr, subs, pissue, run, exec>>
      /\ par' \in ParentRun /\ par'.phase = "enter" /\ art' \in {art, Recorded(c, n, result)}
  BY Finishes
<1>2. /\ row \in IssueLease /\ row.run_id = lease[c].run_id
      /\ row = lease[c] \/ lease[c].run_id = n
  <2>1. c \in Children
    BY <1>1
  <2>2. lease[c] \in IssueLease
    BY <1>1
  <2>3. n \in Runs(c)
    BY <1>1
  <2>4. result \in Results
    BY <1>1
  <2>5. par.held \in IssueLease
    BY DEF BaseInv, TypeInv, ParentRun
  <2> HIDE DEF c, n, result
  <2> QED
    BY <2>1, <2>2, <2>3, <2>4, <2>5, FinishedRow
<1>3. n # NoRun
  BY <1>1, Numbers
<1>4. lease[c].status \in {"running", "waiting_external", "ready_to_resume"} => lease[c].run_id # NoRun
  BY <1>1 DEF BaseInv, NamedInv
<1>5. art' \in Artifacts
  BY <1>1, RecordedFields DEF BaseInv, TypeInv
<1>6. PhaseInv'
  BY <1>1, EnteredPhase
<1> HIDE DEF row
<1>7. /\ row.run_id \in {NoRun} \cup Runs(c)
      /\ row.status \in {"running", "waiting_external", "ready_to_resume"} => row.run_id # NoRun
  BY <1>1, <1>2, <1>3, <1>4
<1>8. par'.phase \notin Launching
  BY <1>1 DEF Launching
<1> QED
  BY <1>1, <1>2, <1>5, <1>6, <1>7, <1>8, LeaseTypes DEF BaseInv, TypeInv

\* The lease of a merged child.
LEMMA CompletedRow ==
    ASSUME NEW c \in Children, NEW row \in IssueLease, NEW n
    PROVE  LET back == mark_child_lease_completed(row, n) IN
           n \in Nat =>
              /\ back \in IssueLease /\ back.lease_id = row.lease_id
              /\ \/ back = row
                 \/ /\ row.status \in {"completed", "failed", "ready_to_resume"} /\ row.run_id = n
                    /\ back.status = "completed" /\ back.run_id = n
<1> SUFFICES ASSUME n \in Nat
    PROVE  LET back == mark_child_lease_completed(row, n) IN
              /\ back \in IssueLease /\ back.lease_id = row.lease_id
              /\ \/ back = row
                 \/ /\ row.status \in {"completed", "failed", "ready_to_resume"} /\ row.run_id = n
                    /\ back.status = "completed" /\ back.run_id = n
  OBVIOUS
<1> DEFINE back == mark_child_lease_completed(row, n)
           owned == cas_applies(row, row.lease_id, {"completed", "failed", "ready_to_resume"}, {n})
<1>1. "completed" \in LeaseStatus
  BY DEF LeaseStatus
<1>2. back = update_lease_status_conditional(row, row.lease_id, "completed",
                 {"completed", "failed", "ready_to_resume"}, n, {n})
  BY DEF mark_child_lease_completed
<1>3. /\ back \in IssueLease /\ back.lease_id = row.lease_id
      /\ ~owned => back = row
      /\ owned => /\ row.status \in {"completed", "failed", "ready_to_resume"} /\ row.run_id \in {n}
                  /\ back.status = "completed"
                  /\ back.run_id = IF n = NoRun THEN row.run_id ELSE n
  BY <1>1, <1>2, UpdatedRow
<1> QED
  BY <1>3

\* What waiting for a merge does: one of three things.
LEMMA Waits ==
    ASSUME BaseInv, wait_for_child_merge
    PROVE  LET c == art.sel IN
           /\ c \in Children /\ par.step = "wait_for_child_merge" /\ par.mode = "running"
           /\ par.phase = "enter" /\ par' \in ParentRun /\ par'.phase = "enter"
           /\ art' \in Artifacts /\ SameFindings(art, art')
           /\ \A d \in Children : d # c => art'.rollup[d] = art.rollup[d]
           /\ UNCHANGED <<issue, pr, subs, pissue, run, exec>>
           /\ \/ lease' = lease
              \/ \E n \in Nat : lease' = [lease EXCEPT ![c] = mark_child_lease_completed(@, n)]
           /\ art'.rollup[c] # "non_actionable_child_lease"
           /\ par'.step \in {"wait_for_child_merge", "refresh_parent_and_children",
                             "evaluate_parent_completion"}
<1> DEFINE c == art.sel
<1>1. /\ At("wait_for_child_merge") /\ c # NoChild
      /\ UNCHANGED <<issue, pr, subs, pissue, run, exec>>
      /\ finish_merged_child(c) \/ wait_for_open_pr(c) \/ record_blocked_child(c)
  BY DEF wait_for_child_merge
<1>2. /\ art \in Artifacts /\ par \in ParentRun /\ c \in Children
      /\ par.step = "wait_for_child_merge" /\ par.mode = "running" /\ par.phase = "enter"
  BY <1>1, NoPhase DEF At, BaseInv, TypeInv, Artifacts
<1>2a. par \in ParentRun
  BY <1>2
<1>2b. art \in Artifacts
  BY <1>2
<1>2c. c \in Children
  BY <1>2
<1>3. CASE finish_merged_child(c)
  <2>1. "refresh_parent_and_children" \in Steps
    BY DEF Steps
  <2>2. "merged" \in Outcomes
    BY DEF Outcomes
  <2>3. par' = To(par, "refresh_parent_and_children") /\ art' = update_rollup(art, c, "merged")
    BY <1>3 DEF finish_merged_child
  <2>4. /\ par' \in ParentRun /\ par'.phase = "enter" /\ par'.step = "refresh_parent_and_children"
    BY <1>2a, <2>1, <2>3, ToFields
  <2>5. /\ art' \in Artifacts /\ SameFindings(art, art') /\ art'.rollup[c] = "merged"
        /\ \A d \in Children : d # c => art'.rollup[d] = art.rollup[d]
    BY <1>2b, <1>2c, <2>2, <2>3, RollupFields
  <2>6. persisted_child_run_id(c) \in Nat
    BY <1>2 DEF persisted_child_run_id, ParentRun, BaseInv, TypeInv, IssueLease
  <2> QED
    BY <1>1, <1>2, <1>3, <2>4, <2>5, <2>6 DEF finish_merged_child
<1>4. CASE wait_for_open_pr(c)
  <2> DEFINE o == open_pr_outcome(c)
             a == update_rollup(art, c, o)
             b == [a EXCEPT !.mwait = c]
  <2>1. o \in Outcomes
    BY DEF open_pr_outcome, Outcomes
  <2>1a. o # "non_actionable_child_lease"
    BY DEF open_pr_outcome
  <2> HIDE DEF o
  <2>2. /\ a \in Artifacts /\ SameFindings(art, a) /\ a.rollup[c] = o
        /\ \A d \in Children : d # c => a.rollup[d] = art.rollup[d]
    BY <1>2b, <1>2c, <2>1, RollupFields
  <2>3. c \in Nat
    BY <1>2c, Numbers
  <2> HIDE DEF a
  <2>4. b \in Artifacts /\ SameFindings(a, b) /\ b.rollup = a.rollup
    BY <2>2, <2>3, MwaitFields
  <2>5. /\ art' = b /\ lease' = lease
        /\ par' \in {To(par, "refresh_parent_and_children"), persist_external_wait_state(par, b)}
    BY <1>4 DEF wait_for_open_pr, a, o
  <2> HIDE DEF b
  <2>6. b \in Artifacts
    BY <2>4
  <2>7. /\ par' \in ParentRun /\ par'.phase = "enter"
        /\ par'.step \in {par.step, "refresh_parent_and_children"}
    <3>1. CASE par' = persist_external_wait_state(par, b)
      BY <1>2a, <2>6, <3>1, WaitFields
    <3>2. CASE par' = To(par, "refresh_parent_and_children")
      <4>1. "refresh_parent_and_children" \in Steps
        BY DEF Steps
      <4> QED
        BY <1>2a, <3>2, <4>1, ToFields
    <3> QED
      BY <2>5, <3>1, <3>2
  <2>8. SameFindings(art, b)
    BY <2>2, <2>4, SameFindingsTrans
  <2> QED
    BY <1>1, <1>2, <2>1a, <2>2, <2>4, <2>5, <2>7, <2>8
<1>5. CASE record_blocked_child(c)
  <2>1. "evaluate_parent_completion" \in Steps
    BY DEF Steps
  <2>2. "missing_child_pr" \in Outcomes
    BY DEF Outcomes
  <2>3. par' = To(par, "evaluate_parent_completion") /\ art' = update_rollup(art, c, "missing_child_pr")
        /\ lease' = lease
    BY <1>5 DEF record_blocked_child
  <2>4. /\ par' \in ParentRun /\ par'.phase = "enter" /\ par'.step = "evaluate_parent_completion"
    BY <1>2a, <2>1, <2>3, ToFields
  <2>5. /\ art' \in Artifacts /\ SameFindings(art, art') /\ art'.rollup[c] = "missing_child_pr"
        /\ \A d \in Children : d # c => art'.rollup[d] = art.rollup[d]
    BY <1>2b, <1>2c, <2>2, <2>3, RollupFields
  <2> QED
    BY <1>1, <1>2, <2>3, <2>4, <2>5
<1> QED
  BY <1>1, <1>3, <1>4, <1>5

LEMMA Base_wait == ASSUME BaseInv, wait_for_child_merge PROVE BaseInv'
<1> DEFINE c == art.sel
<1>1. /\ c \in Children /\ par' \in ParentRun /\ par'.phase = "enter" /\ art' \in Artifacts
      /\ UNCHANGED <<issue, pr, subs, pissue, run, exec>>
      /\ lease' = lease \/ \E n \in Nat : lease' = [lease EXCEPT ![c] = mark_child_lease_completed(@, n)]
  BY Waits
<1>2. CASE lease' = lease
  BY <1>1, <1>2, LabelTypes DEF BaseInv, TypeInv
<1>3. CASE \E n \in Nat : lease' = [lease EXCEPT ![c] = mark_child_lease_completed(@, n)]
  <2>1. PICK n \in Nat : lease' = [lease EXCEPT ![c] = mark_child_lease_completed(@, n)]
    BY <1>3
  <2> DEFINE row == mark_child_lease_completed(lease[c], n)
  <2>2. lease[c] \in IssueLease /\ lease[c].run_id \in {NoRun} \cup Runs(c)
        /\ (lease[c].status \in {"running", "waiting_external", "ready_to_resume"} =>
               lease[c].run_id # NoRun)
    BY <1>1 DEF BaseInv, TypeInv, NamedInv
  <2>2a. c \in Children /\ lease[c] \in IssueLease /\ n \in Nat
    BY <1>1, <2>2
  <2>3. /\ row \in IssueLease
        /\ \/ row = lease[c]
           \/ lease[c].run_id = n /\ row.status = "completed" /\ row.run_id = n
    BY <2>2a, CompletedRow
  <2>4. lease' = [lease EXCEPT ![c] = row]
    BY <2>1
  <2> HIDE DEF row
  <2>5. PhaseInv'
    BY <1>1, EnteredPhase
  <2>6. /\ row.run_id \in {NoRun} \cup Runs(c)
        /\ row.status \in {"running", "waiting_external", "ready_to_resume"} => row.run_id # NoRun
    BY <2>2, <2>3
  <2>7. par'.phase \notin Launching
    BY <1>1 DEF Launching
  <2> QED
    BY <1>1, <2>3, <2>4, <2>5, <2>6, <2>7, LeaseTypes DEF BaseInv, TypeInv
<1> QED
  BY <1>1, <1>2, <1>3

LEMMA Base_evaluate == ASSUME BaseInv, evaluate_parent_completion PROVE BaseInv'
<1>1. par' = To(par, "close_or_report_parent") /\ "close_or_report_parent" \in Steps
  BY DEF evaluate_parent_completion, Steps
<1>2. par' \in ParentRun /\ par'.phase = "enter"
  BY <1>1, ToFields DEF BaseInv, TypeInv
<1>3. PICK unchecked \in BOOLEAN :
        art' = [art EXCEPT !.complete = /\ incomplete_child_numbers = {}
                                        /\ required_prs_satisfied
                                        /\ active_child_leases = {}
                                        /\ evaluate_acceptance_criteria(unchecked)
                                        /\ blocked_child_numbers = {},
                           !.blocked = blocked_child_numbers # {}]
  BY DEF evaluate_parent_completion
<1> DEFINE complete == /\ incomplete_child_numbers = {}
                       /\ required_prs_satisfied
                       /\ active_child_leases = {}
                       /\ evaluate_acceptance_criteria(unchecked)
                       /\ blocked_child_numbers = {}
           blocked == blocked_child_numbers # {}
           x == [art EXCEPT !.complete = complete]
           y == [x EXCEPT !.blocked = blocked]
<1>4. art' = y
  BY <1>3, Zenon
<1>5. complete \in BOOLEAN
  BY Zenon
<1>6. blocked \in BOOLEAN
  BY Zenon
<1> HIDE DEF complete, blocked
<1>7. x \in Artifacts
  BY <1>5, SetArtifact DEF BaseInv, TypeInv
<1>8. y \in Artifacts
  BY <1>6, <1>7, SetArtifact
<1> QED
  BY <1>2, <1>4, <1>8, GraphTypes DEF evaluate_parent_completion

\* Changes of the parent run outside a launch, and nothing else but labels.
LEMMA ModeTypes ==
    ASSUME BaseInv, UNCHANGED <<issue, pr, subs, lease, run, exec>>, art' \in Artifacts,
           pissue' \in {"open", "closed"}, par.phase = "enter",
           \/ \E m \in Modes : par' = Ending(par, m)
           \/ \E m \in Modes, t \in Target : par' = Waking(par, m, t)
    PROVE  BaseInv' /\ par'.phase = "enter" /\ par'.step = par.step
<1>1. par \in ParentRun
  BY DEF BaseInv, TypeInv
<1>2. par' \in ParentRun /\ par'.phase = "enter" /\ par'.step = par.step
  BY <1>1, EndingFields, WakingFields
<1> QED
  BY <1>2, LabelTypes

LEMMA Base_close == ASSUME BaseInv, close_or_report_parent PROVE BaseInv' /\ par'.phase = "enter"
<1>1. par.phase = "enter"
  BY NoPhase DEF close_or_report_parent, At, BaseInv
<1>2. par' = Ending(par, "done") /\ "done" \in Modes
  BY DEF close_or_report_parent, Ending, Modes
<1>3. pissue' \in {"open", "closed"} /\ art' \in Artifacts
  BY DEF close_or_report_parent, BaseInv, TypeInv
<1> QED
  BY <1>1, <1>2, <1>3, ModeTypes DEF close_or_report_parent

LEMMA Base_poll == ASSUME BaseInv, poll_parent_wait PROVE BaseInv' /\ par'.phase = "enter"
<1>1. par.phase = "enter"
  BY NoPhase DEF poll_parent_wait, BaseInv
<1>2. NoTarget \in Target
  BY Numbers DEF NoTarget, Target
<1>3. \E m \in Modes : par' = Waking(par, m, NoTarget)
  <2>1. "running" \in Modes /\ "failed" \in Modes
    BY DEF Modes
  <2> QED
    BY <2>1 DEF poll_parent_wait, Woken, Waking
<1>4. pissue' \in {"open", "closed"} /\ art' \in Artifacts
  BY DEF poll_parent_wait, github, BaseInv, TypeInv
<1> QED
  BY <1>1, <1>2, <1>3, <1>4, ModeTypes DEF poll_parent_wait, github

LEMMA Base_timeout == ASSUME BaseInv, timeout_decision PROVE BaseInv' /\ par'.phase = "enter"
<1>1. par.phase = "enter"
  BY NoPhase DEF timeout_decision, BaseInv
<1>2. NoTarget \in Target
  BY Numbers DEF NoTarget, Target
<1>3. par' = Waking(par, "failed", NoTarget) /\ "failed" \in Modes
  BY DEF timeout_decision, Waking, Modes
<1>4. pissue' \in {"open", "closed"} /\ art' \in Artifacts
  BY DEF timeout_decision, github, BaseInv, TypeInv
<1> QED
  BY <1>1, <1>2, <1>3, <1>4, ModeTypes DEF timeout_decision, github

LEMMA Base_operator == ASSUME BaseInv, operator_resumes_parent PROVE BaseInv' /\ par'.phase = "enter"
<1>1. par.phase = "enter"
  BY NoPhase DEF operator_resumes_parent, BaseInv
<1>2. par' = Ending(par, "running") /\ "running" \in Modes
  BY DEF operator_resumes_parent, Ending, Modes
<1>3. pissue' \in {"open", "closed"} /\ art' \in Artifacts
  BY DEF operator_resumes_parent, github, BaseInv, TypeInv
<1> QED
  BY <1>1, <1>2, <1>3, ModeTypes DEF operator_resumes_parent, github

LEMMA Base_new == ASSUME BaseInv, new_parent_run PROVE BaseInv' /\ par'.phase = "enter"
<1>1. par' = FreshParent /\ art' = NoArtifacts /\ UNCHANGED <<github, lease, run, exec>>
  BY DEF new_parent_run
<1>2. par' \in ParentRun /\ art' \in Artifacts /\ par'.phase = "enter"
  BY <1>1, FirstTypes DEF FreshParent
<1> QED
  BY <1>1, <1>2, GraphTypes

LEMMA Base_dies == ASSUME BaseInv, parent_dies PROVE BaseInv' /\ par'.phase = "enter"
<1>1. Left(par) \in ParentRun /\ Left(par).phase = "enter"
  BY LeftFields DEF BaseInv, TypeInv
<1>1a. Left(par) \in ParentRun
  BY <1>1
<1>2. par' = Ending(Left(par), "failed")
  BY DEF parent_dies, Ending
<1>2a. "failed" \in Modes
  BY DEF Modes
<1>3. par' \in ParentRun /\ par'.phase = "enter"
  BY <1>1, <1>1a, <1>2, <1>2a, EndingFields
<1>4. PhaseInv' /\ TakenInv'
  BY <1>3, EnteredPhase
<1> QED
  BY <1>3, <1>4 DEF parent_dies, github, BaseInv, TypeInv, NamedInv

-----------------------------------------------------------------------------
(* The daemon and the outside                                                *)

LEMMA OtherTypes ==
    ASSUME BaseInv, UNCHANGED <<github, par, art>>, NEW c \in Children, NEW row \in IssueLease,
           lease' = [lease EXCEPT ![c] = row],
           row.run_id \in {NoRun} \cup Runs(c),
           row.status \in {"running", "waiting_external", "ready_to_resume"} => row.run_id # NoRun,
           lease[c].status # "absent" => row.status # "absent",
           IsRuns(run'), exec' \in SUBSET ExecSpace, \A e \in exec' : e.run \in Runs(e.child)
    PROVE  BaseInv'
<1>1. PhaseInv'
  BY DEF PhaseInv, BaseInv, FromClaim, FromReady
<1>2. par'.phase \in Launching =>
         /\ art'.sel \in Children /\ par.phase \in Launching /\ art'.sel = art.sel
         /\ art'.sel = c => row.status # "absent"
  BY <1>1 DEF BaseInv, PhaseInv, TakenInv, Launching
<1>3. UNCHANGED <<issue, pr, subs, pissue>> /\ par' \in ParentRun /\ art' \in Artifacts
  BY DEF github, BaseInv, TypeInv
<1> QED
  BY <1>1, <1>2, <1>3, LeaseTypes DEF ExecSpace

LEMMA OldRow ==
    ASSUME BaseInv, NEW c \in Children
    PROVE  /\ lease[c] \in IssueLease /\ lease[c].run_id \in {NoRun} \cup Runs(c)
           /\ (lease[c].status \in {"running", "waiting_external", "ready_to_resume"} =>
                  lease[c].run_id # NoRun)
           /\ IsRuns(run) /\ exec \in SUBSET ExecSpace /\ \A e \in exec : e.run \in Runs(e.child)
BY DEF BaseInv, TypeInv, NamedInv, ExecSpace

\* The run a claim starts.
LEMMA Base_daemon_claim == ASSUME BaseInv, NEW c \in Children, claim_and_launch(c) PROVE BaseInv'
<1> DEFINE n == Cardinality(Minted(c)) + 1
           row == ToRunning(try_claim(lease[c]), n)
           v == [status |-> "running", by |-> "daemon"]
<1>1. UNCHANGED <<github, par, art>>
  BY DEF claim_and_launch
<1>2. CASE UNCHANGED <<lease, run, exec>>
  BY <1>1, <1>2 DEF github, BaseInv, TypeInv, NamedInv, PhaseInv, TakenInv, FromClaim, FromReady
<1>3. CASE /\ claim_wins(lease[c]) /\ n \in Runs(c)
           /\ lease' = [lease EXCEPT ![c] = row] /\ run' = WithRow(run, c, n, v)
           /\ exec' = exec \cup {Execution(c, n, "daemon")}
  <2>1. n \in Nat /\ n # NoRun
    BY <1>3, Numbers
  <2>2. try_claim(lease[c]) \in IssueLease
    BY <1>3, OldRow, ClaimedRow
  <2>2a. n \in Nat
    BY <2>1
  <2>3. row \in IssueLease /\ row.run_id = n /\ row.status = "running"
    BY <2>2, <2>2a, RunningRow
  <2>4. v \in RunState
    BY DEF RunState, Statuses
  <2>5. IsRuns(run)
    BY OldRow
  <2>6. n \in Runs(c) /\ run' = WithRow(run, c, n, v)
    BY <1>3
  <2>7. lease' = [lease EXCEPT ![c] = row]
    BY <1>3
  <2> HIDE DEF v, row, n
  <2>8. IsRuns(run')
    BY <2>4, <2>5, <2>6, SetRun
  <2>9. /\ Execution(c, n, "daemon") \in ExecSpace /\ Execution(c, n, "daemon").run = n
        /\ Execution(c, n, "daemon").child = c
    BY <2>6, OneExecution
  <2>10. exec' \in SUBSET ExecSpace /\ \A e \in exec' : e.run \in Runs(e.child)
    BY <1>3, <2>6, <2>9, OldRow DEF n
  <2> QED
    BY <1>1, <2>1, <2>3, <2>6, <2>7, <2>8, <2>10, OtherTypes
<1> QED
  BY <1>2, <1>3 DEF claim_and_launch, WithRow

LEMMA Base_collect == ASSUME BaseInv, NEW c \in Children, collect_resume_units(c) PROVE BaseInv'
<1> DEFINE n == lease[c].run_id
           row == ToRunning(lease[c], n)
<1>1. /\ UNCHANGED <<github, par, art>> /\ lease[c].status = "ready_to_resume"
      /\ lease' = [lease EXCEPT ![c] = row] /\ run' = WithStatus(run, c, n, "running")
      /\ exec' = exec \cup {Execution(c, n, "daemon")}
  BY DEF collect_resume_units, WithStatus
<1>2. n \in Runs(c) /\ n # NoRun /\ n \in Nat /\ lease[c] \in IssueLease
  BY <1>1, OldRow, Numbers
<1>3. row \in IssueLease /\ row.run_id = n /\ row.status = "running"
  BY <1>2, RunningRow
<1>4. "running" \in Statuses
  BY DEF Statuses
<1>5. IsRuns(run)
  BY OldRow
<1>6. n \in Runs(c) /\ run' = WithStatus(run, c, n, "running")
  BY <1>1, <1>2
<1>7. lease' = [lease EXCEPT ![c] = row]
  BY <1>1
<1> HIDE DEF row, n
<1>8. IsRuns(run')
  BY <1>4, <1>5, <1>6, SetStatus
<1>9. /\ Execution(c, n, "daemon") \in ExecSpace /\ Execution(c, n, "daemon").run = n
      /\ Execution(c, n, "daemon").child = c
  BY <1>6, OneExecution
<1>10. exec' \in SUBSET ExecSpace /\ \A e \in exec' : e.run \in Runs(e.child)
  BY <1>1, <1>6, <1>9, OldRow DEF n
<1> QED
  BY <1>1, <1>2, <1>3, <1>7, <1>8, <1>10, OtherTypes

\* The row the daemon leaves when a run of its own ends.
LEMMA DaemonRow ==
    ASSUME NEW c \in Children, NEW row \in IssueLease, NEW n \in Runs(c), NEW s \in Endings(c)
    PROVE  LET back == update_lease_status_conditional(row, row.lease_id, daemon_finish(s),
                                                       {"running"}, NoRun, {n})
           IN  /\ back \in IssueLease /\ back.run_id = row.run_id /\ back.lease_id = row.lease_id
               /\ \/ back = row
                  \/ /\ row.status = "running" /\ row.run_id = n
                     /\ back.status \in {"completed", "cleanup_abandoned", "waiting_external", "failed"}
<1> DEFINE back == update_lease_status_conditional(row, row.lease_id, daemon_finish(s),
                                                       {"running"}, NoRun, {n})
<1> DEFINE st == daemon_finish(s)
<1>1. st \in {"completed", "cleanup_abandoned", "waiting_external", "failed"}
  BY DEF daemon_finish, Endings
<1>2. back = update_lease_status_conditional(row, row.lease_id, st, {"running"}, NoRun, {n})
  OBVIOUS
<1> HIDE DEF st, back
<1>3. st \in LeaseStatus
  BY <1>1 DEF LeaseStatus
<1>4. NoRun \in Nat
  BY Numbers
<1>5. /\ back \in IssueLease /\ back.lease_id = row.lease_id
      /\ ~cas_applies(row, row.lease_id, {"running"}, {n}) => back = row
      /\ cas_applies(row, row.lease_id, {"running"}, {n}) =>
            /\ row.status \in {"running"} /\ row.run_id \in {n}
            /\ back.status = st
            /\ back.run_id = IF NoRun = NoRun THEN row.run_id ELSE NoRun
  BY <1>2, <1>3, <1>4, UpdatedRow
<1>6. /\ back \in IssueLease /\ back.run_id = row.run_id /\ back.lease_id = row.lease_id
      /\ \/ back = row
         \/ /\ row.status = "running" /\ row.run_id = n
            /\ back.status \in {"completed", "cleanup_abandoned", "waiting_external", "failed"}
  BY <1>1, <1>5
<1> QED
  BY <1>6 DEF back

LEMMA Base_daemon_finish ==
    ASSUME BaseInv, NEW c \in Children, NEW n \in Runs(c),
           finish_lease_after_result(Execution(c, n, "daemon"))
    PROVE  BaseInv'
<1> DEFINE e == Execution(c, n, "daemon")
<1>1. e.child = c /\ e.run = n
  BY OneExecution
<1>2. PICK s \in Endings(c) :
        /\ run' = WithStatus(run, c, n, s)
        /\ lease' = [lease EXCEPT ![c] = update_lease_status_conditional(@, @.lease_id,
                         daemon_finish(s), {"running"}, NoRun, {n})]
  BY <1>1 DEF finish_lease_after_result, WithStatus
<1>3. UNCHANGED <<github, par, art>> /\ exec' = exec \ {e}
  BY DEF finish_lease_after_result
<1> DEFINE row == update_lease_status_conditional(lease[c], lease[c].lease_id,
                         daemon_finish(s), {"running"}, NoRun, {n})
<1>4. lease' = [lease EXCEPT ![c] = row]
  BY <1>2
<1>5. lease[c] \in IssueLease
  BY OldRow
<1>6. /\ row \in IssueLease /\ row.run_id = lease[c].run_id
      /\ row = lease[c] \/ (lease[c].status = "running" /\ row.status # "absent")
  BY <1>5, DaemonRow
<1>7. s \in Statuses
  BY EndingStatuses
<1>8. IsRuns(run)
  BY OldRow
<1>8a. run' = WithStatus(run, c, n, s)
  BY <1>2
<1> HIDE DEF row
<1>9. IsRuns(run')
  BY <1>7, <1>8, <1>8a, SetStatus
<1>10. exec' \in SUBSET ExecSpace /\ \A x \in exec' : x.run \in Runs(x.child)
  BY <1>3, OldRow
<1>11. /\ row.run_id \in {NoRun} \cup Runs(c)
       /\ row.status \in {"running", "waiting_external", "ready_to_resume"} => row.run_id # NoRun
       /\ lease[c].status # "absent" => row.status # "absent"
  BY <1>6, OldRow
<1> QED
  BY <1>3, <1>4, <1>6, <1>9, <1>10, <1>11, OtherTypes

\* A row whose status and heartbeat are written without a condition.
Marked(row, status) == [row EXCEPT !.status = status, !.overdue = FALSE]
Aged(row) == [row EXCEPT !.overdue = TRUE]

LEMMA MarkedRow ==
    ASSUME NEW row \in IssueLease, NEW status \in LeaseStatus
    PROVE  /\ Marked(row, status) \in IssueLease /\ Marked(row, status).status = status
           /\ Marked(row, status).run_id = row.run_id
           /\ Marked(row, status).lease_id = row.lease_id
           /\ Aged(row) \in IssueLease /\ Aged(row).status = row.status
           /\ Aged(row).run_id = row.run_id /\ Aged(row).lease_id = row.lease_id
BY DEF Marked, Aged, IssueLease

\* The two outcomes of a poll.
LEMMA Polled ==
    ASSUME BaseInv, NEW c \in Children, apply_poll_decision(c)
    PROVE  LET n == lease[c].run_id IN
           /\ n \in Runs(c) /\ run[c][n].status = "waiting_external"
           /\ UNCHANGED <<github, exec, par, art>>
           /\ \/ /\ lease[c].status \in {"waiting_external", "ready_to_resume"}
                 /\ lease' = [lease EXCEPT ![c] = Marked(lease[c], "ready_to_resume")]
                 /\ run' = WithStatus(run, c, n, "ready_to_resume")
              \/ /\ lease[c].status \in {"waiting_external", "ready_to_resume", "running", "claimed"}
                 /\ lease' = [lease EXCEPT ![c] = Marked(lease[c], "failed")]
                 /\ run' = WithStatus(run, c, n, "failed")
<1> DEFINE n == lease[c].run_id
<1>1. RunStatus(c, n) = "waiting_external"
  BY DEF apply_poll_decision
<1>2. n # NoRun
  BY <1>1 DEF RunStatus, AbsentStatus
<1>3. n \in Runs(c)
  BY <1>2, OldRow
<1>4. run[c][n].status = "waiting_external"
  BY <1>1, <1>2 DEF RunStatus
<1>5. lease \in [Children -> IssueLease]
  BY DEF BaseInv, TypeInv
<1>6. CASE /\ lease[c].status \in {"waiting_external", "ready_to_resume"}
           /\ run' = [run EXCEPT ![c][n].status = "ready_to_resume"]
           /\ lease' = [lease EXCEPT ![c].status = "ready_to_resume", ![c].overdue = FALSE]
  <2>1. lease' = [lease EXCEPT ![c] = Marked(lease[c], "ready_to_resume")]
    BY <1>5, <1>6 DEF Marked
  <2> QED
    BY <1>3, <1>4, <1>6, <2>1 DEF apply_poll_decision, WithStatus
<1>7. CASE /\ lease[c].status \in {"waiting_external", "ready_to_resume", "running", "claimed"}
           /\ run' = [run EXCEPT ![c][n].status = "failed"]
           /\ lease' = [lease EXCEPT ![c].status = "failed", ![c].overdue = FALSE]
  <2>1. lease' = [lease EXCEPT ![c] = Marked(lease[c], "failed")]
    BY <1>5, <1>7 DEF Marked
  <2> QED
    BY <1>3, <1>4, <1>7, <2>1 DEF apply_poll_decision, WithStatus
<1> QED
  BY <1>6, <1>7 DEF apply_poll_decision

LEMMA Base_polled == ASSUME BaseInv, NEW c \in Children, apply_poll_decision(c) PROVE BaseInv'
<1> DEFINE n == lease[c].run_id
<1>1. /\ n \in Runs(c) /\ UNCHANGED <<github, exec, par, art>>
      /\ \E s \in {"ready_to_resume", "failed"} :
            lease' = [lease EXCEPT ![c] = Marked(lease[c], s)] /\ run' = WithStatus(run, c, n, s)
  BY Polled
<1>2. PICK s \in {"ready_to_resume", "failed"} :
            lease' = [lease EXCEPT ![c] = Marked(lease[c], s)] /\ run' = WithStatus(run, c, n, s)
  BY <1>1
<1>3. s \in LeaseStatus /\ s # "absent"
  BY DEF LeaseStatus
<1>3a. s \in Statuses
  BY DEF Statuses
<1>4. n # NoRun
  BY <1>1, Numbers
<1>5. /\ Marked(lease[c], s) \in IssueLease /\ Marked(lease[c], s).status = s
      /\ Marked(lease[c], s).run_id = n
  BY <1>3, OldRow, MarkedRow
<1>6. n \in Runs(c) /\ run' = WithStatus(run, c, n, s) /\ IsRuns(run)
  BY <1>1, <1>2, OldRow
<1> HIDE DEF n
<1>7. IsRuns(run')
  BY <1>3a, <1>6, SetStatus
<1>8. exec' \in SUBSET ExecSpace /\ \A e \in exec' : e.run \in Runs(e.child)
  BY <1>1, OldRow
<1> QED
  BY <1>1, <1>2, <1>3, <1>4, <1>5, <1>7, <1>8, OtherTypes

LEMMA Base_age == ASSUME BaseInv, NEW c \in Children, Age(c) PROVE BaseInv'
<1>1. lease' = [lease EXCEPT ![c] = Aged(lease[c])] /\ UNCHANGED <<github, run, exec, par, art>>
  BY DEF Age, Aged, BaseInv, TypeInv
<1>2. "failed" \in LeaseStatus
  BY DEF LeaseStatus
<1>3. lease[c] \in IssueLease
  BY OldRow
<1>4. /\ Aged(lease[c]) \in IssueLease /\ Aged(lease[c]).status = lease[c].status
      /\ Aged(lease[c]).run_id = lease[c].run_id
  BY <1>2, <1>3, MarkedRow
<1> QED
  BY <1>1, <1>4, OldRow, OtherTypes

LEMMA Base_recover == ASSUME BaseInv, recover_stale_leases PROVE BaseInv'
<1>1. lease' = [c \in Children |-> recover_stale(lease[c])]
      /\ UNCHANGED <<github, run, exec, par, art>>
  BY DEF recover_stale_leases
<1>2. \A c \in Children :
         /\ lease'[c] \in IssueLease /\ lease'[c].run_id = lease[c].run_id
         /\ lease'[c] = lease[c] \/ lease'[c].status = "stale"
  BY <1>1, OldRow, StaleRow
<1>3. lease' \in [Children -> IssueLease]
  BY <1>1, <1>2
<1>4. NamedInv'
  BY <1>2 DEF NamedInv, BaseInv
<1>5. PhaseInv' /\ TakenInv'
  <2>1. PhaseInv'
    BY <1>1 DEF PhaseInv, BaseInv, FromClaim, FromReady
  <2>2. ASSUME par.phase \in Launching PROVE lease'[art.sel].status # "absent"
    <3>1. art.sel \in Children /\ lease[art.sel].status # "absent"
      BY <2>2 DEF BaseInv, PhaseInv, TakenInv, Launching
    <3> QED
      BY <1>2, <3>1
  <2> QED
    BY <1>1, <2>1, <2>2 DEF TakenInv, Launching
<1> QED
  BY <1>1, <1>3, <1>4, <1>5 DEF BaseInv, TypeInv, github

\* Steps that leave the tables and the parent run alone.
LEMMA OutsideTypes ==
    ASSUME BaseInv, UNCHANGED <<pissue, lease, exec, par, art>>, IsRuns(run'),
           issue' \in [Children -> {"open", "closed"}],
           pr' \in [Children -> {"none", "open", "merged", "closed"}], subs' \in SUBSET Children
    PROVE  BaseInv'
BY DEF BaseInv, TypeInv, NamedInv, PhaseInv, TakenInv, FromClaim, FromReady

LEMMA Base_outside ==
    ASSUME BaseInv, NEW c \in Children,
           \/ discover(c) \/ child_opens_pr(c) \/ human_merges(c) \/ human_closes(c)
           \/ human_adds_subissue(c)
    PROVE  BaseInv'
<1>1. UNCHANGED <<pissue, lease, exec, par, art, run>>
  BY DEF discover, child_opens_pr, human_merges, human_closes, human_adds_subissue, github
<1>2. /\ issue \in [Children -> {"open", "closed"}] /\ subs \in SUBSET Children
      /\ pr \in [Children -> {"none", "open", "merged", "closed"}] /\ IsRuns(run)
  BY DEF BaseInv, TypeInv
<1>3. issue' \in [Children -> {"open", "closed"}]
  BY <1>2 DEF discover, child_opens_pr, human_merges, human_closes, human_adds_subissue, github
<1>4. pr' \in [Children -> {"none", "open", "merged", "closed"}]
  BY <1>2 DEF discover, child_opens_pr, human_merges, human_closes, human_adds_subissue, github
<1>5. subs' \in SUBSET Children
  BY <1>2 DEF discover, child_opens_pr, human_merges, human_closes, human_adds_subissue, github
<1> QED
  BY <1>1, <1>2, <1>3, <1>4, <1>5, OutsideTypes

LEMMA Base_merge == ASSUME BaseInv, NEW c \in Children, complete_merge(c) PROVE BaseInv'
<1>1. PICK n \in Runs(c) : run' = WithStatus(run, c, n, "merged")
  BY DEF complete_merge, WithStatus
<1>2. "merged" \in Statuses
  BY DEF Statuses
<1>3. IsRuns(run)
  BY OldRow
<1>4. IsRuns(run')
  BY <1>1, <1>2, <1>3, SetStatus
<1> QED
  BY <1>4, OutsideTypes DEF complete_merge, github, BaseInv, TypeInv

-----------------------------------------------------------------------------
(* Every step                                                                *)

LEMMA Base_child == ASSUME BaseInv, NEW c \in Children, ChildStep(c) PROVE BaseInv'
<1>1. CASE discover(c) \/ child_opens_pr(c) \/ human_merges(c) \/ human_closes(c)
           \/ human_adds_subissue(c)
  BY <1>1, Base_outside
<1>2. CASE claim_and_launch(c)
  BY <1>2, Base_daemon_claim
<1>3. CASE collect_resume_units(c)
  BY <1>3, Base_collect
<1>4. CASE \E n \in Runs(c) : finish_lease_after_result(Execution(c, n, "daemon"))
  BY <1>4, Base_daemon_finish
<1>5. CASE apply_poll_decision(c)
  BY <1>5, Base_polled
<1>6. CASE Age(c)
  BY <1>6, Base_age
<1>7. CASE complete_merge(c)
  BY <1>7, Base_merge
<1> QED
  BY <1>1, <1>2, <1>3, <1>4, <1>5, <1>6, <1>7 DEF ChildStep

LEMMA Base_parent == ASSUME BaseInv, ParentStep PROVE BaseInv'
<1>1. CASE load_parent_issue
  BY <1>1, Base_load
<1>2. CASE discover_subissues
  BY <1>2, Base_discover
<1>3. CASE classify_subissues
  BY <1>3, Base_classify
<1>4. CASE determine_subissue_order
  BY <1>4, Base_order
<1>5. CASE select_next_child
  BY <1>5, Base_select
<1>6. CASE launch_child_workflow
  BY <1>6, Base_launch
<1>7. CASE claim_child_lease
  BY <1>7, Base_claim
<1>8. CASE prepare_relaunchable_child
  BY <1>8, Base_relaunch
<1>9. CASE start_child_workflow
  BY <1>9, Base_start
<1>10. CASE resume_child_workflow
  BY <1>10, Base_resume
<1>11. CASE runner_starts
  BY <1>11, Base_runner
<1>12. CASE compensate_error
  BY <1>12, Base_compensate
<1>13. CASE child_result_from_run_outcome
  BY <1>13, Base_result
<1>14. CASE finish_child_launch
  BY <1>14, Base_finish
<1>15. CASE wait_for_child_merge
  BY <1>15, Base_wait
<1>16. CASE evaluate_parent_completion
  BY <1>16, Base_evaluate
<1>17. CASE close_or_report_parent
  BY <1>17, Base_close
<1>18. CASE poll_parent_wait
  BY <1>18, Base_poll
<1>19. CASE timeout_decision
  BY <1>19, Base_timeout
<1>20. CASE parent_dies
  BY <1>20, Base_dies
<1>21. CASE operator_resumes_parent
  BY <1>21, Base_operator
<1>22. CASE new_parent_run
  BY <1>22, Base_new
<1> QED
  BY <1>1, <1>2, <1>3, <1>4, <1>5, <1>6, <1>7, <1>8, <1>9, <1>10, <1>11, <1>12, <1>13, <1>14,
     <1>15, <1>16, <1>17, <1>18, <1>19, <1>20, <1>21, <1>22 DEF ParentStep

LEMMA BaseNext == BaseInv /\ [Next]_vars => BaseInv'
<1> SUFFICES ASSUME BaseInv, [Next]_vars PROVE BaseInv'
  OBVIOUS
<1>1. CASE UNCHANGED vars
  BY <1>1 DEF vars, BaseInv, TypeInv, NamedInv, PhaseInv, TakenInv, FromClaim, FromReady
<1>2. CASE ParentStep
  BY <1>2, Base_parent
<1>3. CASE recover_stale_leases
  BY <1>3, Base_recover
<1>4. CASE \E c \in Children : ChildStep(c)
  BY <1>4, Base_child
<1> QED
  BY <1>1, <1>2, <1>3, <1>4 DEF Next

\* The types of the state, the run every live lease names, and what each phase
\* of a launch rests on: the read-then-act windows of launch_child_workflow.
THEOREM ParentInvariant == Spec => []BaseInv
<1> QED
  BY InitBase, BaseNext, PTL DEF Spec

-----------------------------------------------------------------------------
(* A finished cleanup stands                                                 *)

KeepsCleanup ==
    \A c \in Children : lease[c].status = "cleanup_abandoned" => lease'[c].status = "cleanup_abandoned"

LEMMA RowKept ==
    ASSUME TypeInv, NEW c \in Children, NEW row,
           lease' = [lease EXCEPT ![c] = row],
           lease[c].status = "cleanup_abandoned" => row = lease[c]
    PROVE  KeepsCleanup
BY DEF KeepsCleanup, TypeInv

LEMMA ChildKeepsCleanup ==
    ASSUME BaseInv, NEW c \in Children, ChildStep(c)
    PROVE  KeepsCleanup
<1>0. TypeInv
  BY DEF BaseInv
<1>1. CASE UNCHANGED lease
  BY <1>1 DEF KeepsCleanup
<1>2. CASE claim_and_launch(c)
  <2>1. claim_wins(lease[c]) => lease[c].status # "cleanup_abandoned"
    BY DEF claim_wins, RECLAIMABLE
  <2> QED
    BY <1>0, <1>1, <1>2, <2>1, RowKept DEF claim_and_launch
<1>3. CASE collect_resume_units(c)
  BY <1>0, <1>3, RowKept DEF collect_resume_units
<1>4. CASE \E n \in Runs(c) : finish_lease_after_result(Execution(c, n, "daemon"))
  <2>1. PICK n \in Runs(c) : finish_lease_after_result(Execution(c, n, "daemon"))
    BY <1>4
  <2>2. Execution(c, n, "daemon").child = c
    BY OneExecution
  <2>3. PICK s : lease' = [lease EXCEPT ![c] = update_lease_status_conditional(@, @.lease_id,
                            daemon_finish(s), {"running"}, NoRun, {Execution(c, n, "daemon").run})]
    BY <2>1, <2>2 DEF finish_lease_after_result
  <2> QED
    BY <1>0, <2>3, RowKept DEF update_lease_status_conditional, cas_applies
<1>5. CASE apply_poll_decision(c)
  <2>1. \E s : /\ lease' = [lease EXCEPT ![c] = Marked(lease[c], s)]
               /\ lease[c].status \in {"waiting_external", "ready_to_resume", "running", "claimed"}
    BY <1>5, Polled
  <2> QED
    BY <1>0, <2>1, RowKept
<1>6. CASE Age(c)
  BY <1>0, <1>6 DEF Age, KeepsCleanup, TypeInv
<1> QED
  BY <1>1, <1>2, <1>3, <1>4, <1>5, <1>6
     DEF ChildStep, discover, child_opens_pr, human_merges, human_closes, human_adds_subissue,
         complete_merge

LEMMA ParentKeepsCleanup == ASSUME BaseInv, ParentStep PROVE KeepsCleanup
<1> DEFINE c == art.sel
<1>0. TypeInv
  BY DEF BaseInv
<1>1. CASE UNCHANGED lease
  BY <1>1 DEF KeepsCleanup
<1>2. ASSUME NEW ph \in Phases, ph # "enter", InLaunch(ph)
      PROVE  c \in Children
  BY <1>2, InPhase
<1>3. {"claim", "relaunch", "start", "resume", "label", "recover", "finish", "child"} \subseteq Phases
  BY DEF Phases, Launching
<1>4. CASE claim_child_lease
  <2>1. claim_wins(lease[c]) => lease[c].status # "cleanup_abandoned"
    BY DEF claim_wins, RECLAIMABLE
  <2> QED
    BY <1>0, <1>1, <1>2, <1>3, <1>4, <2>1, RowKept DEF claim_child_lease
<1>5. CASE prepare_relaunchable_child
  <2>1. par.held.status # "cleanup_abandoned"
    BY <1>5 DEF prepare_relaunchable_child, InLaunch, BaseInv, PhaseInv
  <2> QED
    BY <1>0, <1>1, <1>2, <1>3, <1>5, <2>1, RowKept DEF prepare_relaunchable_child, cas_applies
<1>6. CASE start_child_workflow
  BY <1>0, <1>1, <1>2, <1>3, <1>6, RowKept
     DEF start_child_workflow, claim_running_lease_cas, cas_applies
<1>7. CASE resume_child_workflow
  BY <1>0, <1>1, <1>2, <1>3, <1>7, RowKept
     DEF resume_child_workflow, claim_running_lease_cas, cas_applies
<1>8. CASE compensate_error
  <2>1. c \in Children
    BY <1>2, <1>3, <1>8 DEF compensate_error
  <2> QED
    BY <1>0, <1>8, <2>1, RowKept
       DEF compensate_error, restore_child_lease_after_runner_error,
           update_lease_status_conditional, cas_applies
<1>9. CASE child_result_from_run_outcome
  <2>1. c \in Children
    BY <1>2, <1>3, <1>9 DEF child_result_from_run_outcome
  <2> QED
    BY <1>0, <1>1, <1>9, <2>1, RowKept
       DEF child_result_from_run_outcome, child_ends, update_lease_status_conditional, cas_applies
<1>10. CASE finish_child_launch
  <2> DEFINE n == par.rid
             result == classify_child_run_result(run[c][n].status)
             row == advance_child_lease_for_result(lease[c], par.held, n, result)
  <2>1. c \in Children /\ lease' = [lease EXCEPT ![c] = row]
    BY <1>10, Finishes
  <2>2. "cleanup_abandoned" \notin advance_expected(result)
    BY DEF advance_expected
  <2>3. lease[c].status = "cleanup_abandoned" => row = lease[c]
    BY <2>2 DEF advance_child_lease_for_result, update_lease_status_conditional, cas_applies
  <2> QED
    BY <1>0, <2>1, <2>3, RowKept
<1>11. CASE wait_for_child_merge
  <2>1. c \in Children
    BY <1>11, Waits
  <2>2. CASE \E n \in Nat : lease' = [lease EXCEPT ![c] = mark_child_lease_completed(@, n)]
    BY <1>0, <2>1, <2>2, RowKept
       DEF mark_child_lease_completed, update_lease_status_conditional, cas_applies
  <2> QED
    BY <1>1, <1>11, <2>2, Waits
<1> QED
  BY <1>1, <1>4, <1>5, <1>6, <1>7, <1>8, <1>9, <1>10, <1>11
     DEF ParentStep, load_parent_issue, discover_subissues, classify_subissues,
         determine_subissue_order, select_next_child, launch_child_workflow, runner_starts,
         evaluate_parent_completion, close_or_report_parent, poll_parent_wait, timeout_decision,
         parent_dies, operator_resumes_parent, new_parent_run

\* No step of the parent, of the daemon or of a recovery takes a lease out of
\* cleanup_abandoned: a late finalization, compensation or relaunch
\* (lease.rs: advance_child_lease_for_result) finds its condition false.
THEOREM CleanupIsFinal == Spec => CleanupStays
<1>1. ASSUME BaseInv, [Next]_vars PROVE [KeepsCleanup]_vars
  <2>1. CASE recover_stale_leases
    <3>1. \A c \in Children : lease[c].status = "cleanup_abandoned" => recover_stale(lease[c]) = lease[c]
      BY DEF recover_stale, is_active
    <3> QED
      BY <2>1, <3>1 DEF recover_stale_leases, KeepsCleanup
  <2>2. CASE ParentStep
    BY <1>1, <2>2, ParentKeepsCleanup
  <2>3. CASE \E c \in Children : ChildStep(c)
    BY <1>1, <2>3, ChildKeepsCleanup
  <2> QED
    BY <1>1, <2>1, <2>2, <2>3 DEF Next
<1>2. CleanupStays <=> [][KeepsCleanup]_vars
  BY PTL DEF CleanupStays, KeepsCleanup
<1> QED
  BY <1>1, <1>2, ParentInvariant, PTL DEF Spec

-----------------------------------------------------------------------------
(* One execution of a child                                                  *)

NoneOf(c) == \A e \in exec : e.child # c

\* Whoever works on a child holds its lease as running, and there is only one.
\* A parent works only in the phase that waits for the run inline.
Working(c) ==
    /\ \A e \in exec : e.child = c =>
          /\ lease[c].status = "running" /\ lease[c].run_id = e.run /\ ~lease[c].overdue
          /\ run[c][e.run].status = "running"
          /\ e.who = "parent" => par.phase = "child" /\ art.sel = c
    /\ \A e, f \in exec : e.child = c /\ f.child = c => e = f
    /\ par.phase = "child" /\ art.sel = c => Execution(c, par.rid, "parent") \in exec

\* A lease that may be resumed names a run that neither works nor waits.
Resumable(c) ==
    lease[c].status = "ready_to_resume" =>
        run[c][lease[c].run_id].status \notin {"running", "waiting_external"}

\* Between the parent's compare-and-set and the run nobody else can start one.
Starting(c) ==
    par.phase \in {"label", "recover"} /\ art.sel = c =>
        /\ lease[c].status = "running" /\ lease[c].run_id = par.rid /\ ~lease[c].overdue
        /\ run[c][par.rid].status \notin {"running", "waiting_external"}
        /\ NoneOf(c)

\* When its run has ended, the parent's lease is its own or has been claimed anew.
Finishing(c) ==
    /\ par.phase \in Launching /\ art.sel = c => par.held.lease_id <= lease[c].lease_id
    /\ par.phase = "finish" /\ art.sel = c /\ lease[c].lease_id = par.held.lease_id =>
          /\ lease[c].status \notin {"waiting_external", "ready_to_resume"}
          /\ lease[c].status = "running" => NoneOf(c) /\ run[c][par.rid].status # "running"

ChildOK(c) == Working(c) /\ Resumable(c) /\ Starting(c) /\ Finishing(c)

\* A child whose lease was given back under a parked run is left out.
ExclusiveInv == \A c \in Children \ returned : ChildOK(c)

\* A step leaves the launch of child d as it is.
SameLaunch(d) ==
    /\ par'.phase \in Launching /\ art'.sel = d =>
          par.phase = par'.phase /\ art.sel = d /\ par.rid = par'.rid /\ par.held = par'.held
    /\ par.phase = "child" /\ art.sel = d =>
          par'.phase = "child" /\ art'.sel = d /\ par'.rid = par.rid

SameWork(d) == \A e : e.child = d => (e \in exec <=> e \in exec')

LEMMA SameChild ==
    ASSUME NEW d \in Children, ChildOK(d), lease'[d] = lease[d], run'[d] = run[d],
           SameWork(d), SameLaunch(d)
    PROVE  ChildOK(d)'
<1>1. \A n : Execution(d, n, "parent").child = d
  BY DEF Execution
<1>2. Working(d)'
  BY <1>1 DEF ChildOK, Working, SameWork, SameLaunch, Launching
<1>3. Resumable(d)'
  BY DEF ChildOK, Resumable
<1>4. Starting(d)'
  BY DEF ChildOK, Starting, NoneOf, SameWork, SameLaunch, Launching
<1>5. Finishing(d)'
  BY DEF ChildOK, Finishing, NoneOf, SameWork, SameLaunch, Launching
<1> QED
  BY <1>2, <1>3, <1>4, <1>5 DEF ChildOK

\* A step about one child.
LEMMA OnlyChild ==
    ASSUME ExclusiveInv, returned \subseteq returned', NEW c \in Children, c \in returned' \/ ChildOK(c)',
           \A d \in Children \ {c} :
              lease'[d] = lease[d] /\ run'[d] = run[d] /\ SameWork(d) /\ SameLaunch(d)
    PROVE  ExclusiveInv'
<1>1. \A d \in Children \ returned' : d # c => ChildOK(d)'
  BY SameChild DEF ExclusiveInv
<1> QED
  BY <1>1 DEF ExclusiveInv

\* A step that touches neither leases nor runs, and starts and ends no launch.
LEMMA QuietStep ==
    ASSUME BaseInv, ExclusiveInv, returned \subseteq returned', UNCHANGED <<lease, run, exec>>,
           \/ UNCHANGED <<par, art>>
           \/ par.phase \notin Launching /\ par'.phase \notin Launching
    PROVE  ExclusiveInv'
<1> SUFFICES ASSUME NEW d \in Children, d \notin returned' PROVE ChildOK(d)'
  BY DEF ExclusiveInv
<1>1. SameWork(d) /\ SameLaunch(d)
  BY DEF SameWork, SameLaunch, Launching
<1> QED
  BY <1>1, SameChild DEF ExclusiveInv

\* A child nobody works on, and no launch holds.
LEMMA FreeChild ==
    ASSUME NEW c \in Children, NoneOf(c)',
           ~(par'.phase \in Launching /\ art'.sel = c),
           Resumable(c)'
    PROVE  ChildOK(c)'
BY DEF ChildOK, Working, Starting, Finishing, NoneOf, Launching

\* A lease that is not held as running has no execution.
LEMMA NotRunning ==
    ASSUME NEW c \in Children, Working(c), lease[c].status # "running"
    PROVE  NoneOf(c)
BY DEF Working, NoneOf

LEMMA Init_exclusive == Init => ExclusiveInv
BY DEF Init, ExclusiveInv, ChildOK, Working, Resumable, Starting, Finishing, NoneOf, FreshParent,
       Launching, AbsentRow

\* A phase that precedes the launch is not in it.
LEMMA Entering ==
    ASSUME NEW ph \in {"enter", "claim", "relaunch", "start", "resume"}
    PROVE  ph \notin Launching
BY DEF Launching

LEMMA Excl_graph ==
    ASSUME BaseInv, ExclusiveInv, returned \subseteq returned',
           \/ load_parent_issue \/ discover_subissues \/ classify_subissues
           \/ determine_subissue_order \/ select_next_child \/ evaluate_parent_completion
    PROVE  ExclusiveInv'
<1>1. UNCHANGED <<lease, run, exec>>
  BY DEF load_parent_issue, discover_subissues, classify_subissues, determine_subissue_order,
         select_next_child, evaluate_parent_completion
<1>2. PICK step \in Steps : par' = To(par, step)
  <2>1. CASE select_next_child
    BY <2>1 DEF select_next_child, Steps
  <2> QED
    BY <2>1 DEF load_parent_issue, discover_subissues, classify_subissues,
                determine_subissue_order, evaluate_parent_completion, Steps
<1>3. par.mode = "running" /\ par.step # "launch_or_resume_child_workflow"
  BY DEF load_parent_issue, discover_subissues, classify_subissues, determine_subissue_order,
         select_next_child, evaluate_parent_completion, At
<1>4. par.phase = "enter"
  BY <1>3, NoPhase DEF BaseInv
<1>5. par \in ParentRun
  BY DEF BaseInv, TypeInv
<1>6. par'.phase = "enter"
  BY <1>2, <1>5, ToFields
<1> QED
  BY <1>1, <1>4, <1>6, QuietStep DEF Launching

LEMMA Excl_mode ==
    ASSUME BaseInv, ExclusiveInv, returned \subseteq returned',
           \/ close_or_report_parent \/ poll_parent_wait \/ timeout_decision
           \/ operator_resumes_parent \/ new_parent_run
    PROVE  ExclusiveInv'
<1>1. UNCHANGED <<lease, run, exec>>
  BY DEF close_or_report_parent, poll_parent_wait, timeout_decision, operator_resumes_parent,
         new_parent_run
<1>2. par'.phase = "enter"
  BY Base_close, Base_poll, Base_timeout, Base_operator, Base_new
<1>3. par.phase = "enter"
  BY NoPhase DEF BaseInv, close_or_report_parent, poll_parent_wait, timeout_decision,
         operator_resumes_parent, new_parent_run, At
<1> QED
  BY <1>1, <1>2, <1>3, QuietStep DEF Launching

LEMMA Excl_launch ==
    ASSUME BaseInv, ExclusiveInv, returned \subseteq returned', launch_child_workflow PROVE ExclusiveInv'
<1> DEFINE c == art.sel
           row == lease[c]
<1>1. UNCHANGED <<lease, run, exec>> /\ par.phase = "enter"
  BY DEF launch_child_workflow, InLaunch
<1>2. /\ par \in ParentRun /\ art \in Artifacts /\ c \in Children /\ row \in IssueLease
  BY DEF launch_child_workflow, BaseInv, TypeInv, Artifacts
<1>3. par'.phase \in {"enter", "claim", "resume", "relaunch"}
  <2>1. CASE observe_existing_child_pr(c)
    <3>1. "wait_for_child_merge" \in Steps
      BY DEF Steps
    <3> QED
      BY <1>2, <2>1, <3>1, ToFields DEF observe_existing_child_pr
  <2>2. CASE \E reason \in WaitReasons : wait_for_existing_child(c, row, reason)
    BY <1>2, <2>2, ElsewhereTypes
  <2>3. CASE \E ph \in {"claim", "resume", "relaunch"} : par' = [par EXCEPT !.phase = ph, !.held = row]
    BY <1>2, <2>3 DEF ParentRun
  <2>4. {"child_workflow_completed_waiting_for_pr_merge", "active_child_lease",
         "cleanup_abandoned_requires_continuation", "non_actionable_child_lease"} \subseteq WaitReasons
    BY DEF WaitReasons
  <2> QED
    BY <2>1, <2>2, <2>3, <2>4 DEF launch_child_workflow, prepare_child_lease_with_conn
<1> QED
  BY <1>1, <1>3, QuietStep DEF Launching

\* A step of a launch before anything runs, which leaves it or goes on.
LEMMA OwnLease ==
    ASSUME BaseInv, ExclusiveInv, returned \subseteq returned', NEW c \in Children, NEW row \in IssueLease,
           lease' = [lease EXCEPT ![c] = row],
           UNCHANGED <<run, exec>>, NoneOf(c),
           par.phase # "child" \/ art.sel = c, par'.phase \notin Launching,
           row.status = "ready_to_resume" =>
              run[c][row.run_id].status \notin {"running", "waiting_external"}
    PROVE  ExclusiveInv'
<1>1. lease'[c] = row /\ \A d \in Children : d # c => lease'[d] = lease[d]
  BY SetLease DEF BaseInv, TypeInv
<1>2. \A d \in Children \ {c} : SameWork(d) /\ SameLaunch(d)
  BY DEF SameWork, SameLaunch, Launching
<1>3. Resumable(c)' /\ NoneOf(c)'
  BY <1>1 DEF Resumable, NoneOf
<1>4. ChildOK(c)'
  BY <1>3, FreeChild
<1> QED
  BY <1>1, <1>2, <1>4, OnlyChild

LEMMA Excl_claim ==
    ASSUME BaseInv, ExclusiveInv, returned \subseteq returned', art.sel \notin returned,
           claim_child_lease
    PROVE  ExclusiveInv'
<1> DEFINE c == art.sel
           row == try_claim(lease[c])
<1>1. "claim" \in Phases /\ "claim" # "enter"
  BY DEF Phases
<1>2. InLaunch("claim") /\ UNCHANGED <<run, exec>>
  BY DEF claim_child_lease
<1>3. /\ par.phase = "claim" /\ c \in Children /\ lease[c] \in IssueLease
      /\ par \in ParentRun /\ art \in Artifacts
  BY <1>1, <1>2, InPhase
<1>4. CASE /\ claim_wins(lease[c]) /\ lease' = [lease EXCEPT ![c] = row]
           /\ par' = [par EXCEPT !.phase = "start", !.held = row]
  <2>1. row \in IssueLease /\ row.status = "claimed"
    BY <1>3, <1>4, ClaimedRow
  <2>2. par'.phase = "start"
    BY <1>3, <1>4 DEF ParentRun
  <2>3. lease[c].status # "running"
    BY <1>4 DEF claim_wins, RECLAIMABLE
  <2>4. NoneOf(c)
    BY <1>3, <2>3, NotRunning DEF ExclusiveInv, ChildOK
  <2> HIDE DEF row
  <2> QED
    BY <1>2, <1>3, <1>4, <2>1, <2>2, <2>4, OwnLease DEF Launching
<1>5. CASE contended(c, "child_lease_claim_contended") /\ lease' = lease
  <2>1. "child_lease_claim_contended" \in WaitReasons /\ AbsentRow \in IssueLease
    BY DEF WaitReasons, AbsentRow, IssueLease, NoLease, NoRun
  <2>2. par'.phase = "enter"
    BY <1>3, <1>5, <2>1, ElsewhereTypes DEF contended
  <2> QED
    BY <1>2, <1>3, <1>5, <2>2, QuietStep DEF Launching
<1> QED
  BY <1>4, <1>5 DEF claim_child_lease

LEMMA Excl_relaunch ==
    ASSUME BaseInv, ExclusiveInv, returned \subseteq returned', art.sel \notin returned,
           prepare_relaunchable_child
    PROVE  ExclusiveInv'
<1> DEFINE c == art.sel
           row == clear_child_lease_for_relaunch(lease[c])
<1>1. "relaunch" \in Phases /\ "relaunch" # "enter"
  BY DEF Phases
<1>2. InLaunch("relaunch") /\ UNCHANGED <<run, exec>>
  BY DEF prepare_relaunchable_child
<1>3. /\ par.phase = "relaunch" /\ c \in Children /\ lease[c] \in IssueLease
      /\ par \in ParentRun /\ art \in Artifacts
  BY <1>1, <1>2, InPhase
<1>4. CASE /\ cas_applies(lease[c], par.held.lease_id, {par.held.status}, {par.held.run_id})
           /\ lease' = [lease EXCEPT ![c] = row]
           /\ par' = [par EXCEPT !.phase = "start", !.held = row]
  <2>1. row \in IssueLease /\ row.status = "claimed"
    BY <1>3, RelaunchedRow
  <2>2. par'.phase = "start"
    BY <1>3, <1>4 DEF ParentRun
  <2>3. lease[c].status # "running"
    BY <1>3, <1>4 DEF cas_applies, BaseInv, PhaseInv
  <2>4. NoneOf(c)
    BY <1>3, <2>3, NotRunning DEF ExclusiveInv, ChildOK
  <2> HIDE DEF row
  <2> QED
    BY <1>2, <1>3, <1>4, <2>1, <2>2, <2>4, OwnLease DEF Launching
<1>5. CASE contended(c, "child_lease_relaunch_contended") /\ lease' = lease
  <2>1. "child_lease_relaunch_contended" \in WaitReasons /\ AbsentRow \in IssueLease
    BY DEF WaitReasons, AbsentRow, IssueLease, NoLease, NoRun
  <2>2. par'.phase = "enter"
    BY <1>3, <1>5, <2>1, ElsewhereTypes DEF contended
  <2> QED
    BY <1>2, <1>3, <1>5, <2>2, QuietStep DEF Launching
<1> QED
  BY <1>4, <1>5 DEF prepare_relaunchable_child

\* The lease of the child is the parent's, for run n, and nothing runs yet.
LEMMA LaunchTaken ==
    ASSUME BaseInv, ExclusiveInv, returned \subseteq returned', NEW c \in Children, art.sel = c, art' = art,
           par.phase \in {"start", "resume"}, par'.phase \in {"label", "recover"},
           NEW n \in Nat, par'.rid = n, par'.held = par.held, exec' = exec, NoneOf(c),
           lease' = [lease EXCEPT ![c] = ToRunning(@, n)],
           par.held.lease_id = lease[c].lease_id,
           run'[c][n].status \notin {"running", "waiting_external"},
           \A d \in Children : d # c => run'[d] = run[d]
    PROVE  ExclusiveInv'
<1> DEFINE row == ToRunning(lease[c], n)
<1>1. lease \in [Children -> IssueLease] /\ lease[c] \in IssueLease
  BY DEF BaseInv, TypeInv
<1>2. /\ row \in IssueLease /\ row.lease_id = lease[c].lease_id /\ row.status = "running"
      /\ row.run_id = n /\ ~row.overdue
  BY <1>1, RunningRow
<1>3. lease' = [lease EXCEPT ![c] = row]
  OBVIOUS
<1> HIDE DEF row
<1>4. lease'[c] = row /\ \A d \in Children : d # c => lease'[d] = lease[d]
  BY <1>1, <1>2, <1>3, SetLease
<1>5. \A d \in Children \ {c} : SameWork(d) /\ SameLaunch(d)
  BY DEF SameWork, SameLaunch, Launching
<1>6. NoneOf(c)'
  BY DEF NoneOf
<1>7. Working(c)' /\ Resumable(c)'
  BY <1>2, <1>4, <1>6 DEF Working, Resumable, NoneOf
<1>8. Starting(c)'
  BY <1>2, <1>4, <1>6 DEF Starting
<1>8a. lease[c].lease_id \in Nat
  BY <1>1 DEF IssueLease
<1>8b. lease[c].lease_id <= lease[c].lease_id
  BY <1>8a
<1>9. Finishing(c)'
  BY <1>2, <1>4, <1>8b DEF Finishing, Launching
<1> QED
  BY <1>4, <1>5, <1>7, <1>8, <1>9, OnlyChild DEF ChildOK

LEMMA Excl_parked ==
    ASSUME BaseInv, ExclusiveInv, returned \subseteq returned', UNCHANGED <<lease, run, exec>>,
           par.phase \in {"start", "resume"}, par' = persist_external_wait_state(par, art)
    PROVE  ExclusiveInv'
<1>1. par \in ParentRun
  BY DEF BaseInv, TypeInv
<1>2. art \in Artifacts
  BY DEF BaseInv, TypeInv
<1>3. par'.phase = "enter"
  BY <1>1, <1>2, WaitFields
<1> QED
  BY <1>3, QuietStep DEF Launching

LEMMA Excl_start ==
    ASSUME BaseInv, ExclusiveInv, returned \subseteq returned', art.sel \notin returned,
           start_child_workflow
    PROVE  ExclusiveInv'
<1> DEFINE c == art.sel
           n == Cardinality(Minted(c)) + 1
           v == [status |-> "unborn", by |-> "parent"]
<1>1. /\ InLaunch("start") /\ n \in Runs(c) /\ exec' = exec /\ art' = art
  BY DEF start_child_workflow
<1>2. "start" \in Phases /\ "start" # "enter"
  BY DEF Phases
<1>3. par.phase = "start" /\ c \in Children /\ par \in ParentRun /\ lease[c] \in IssueLease
  BY <1>1, <1>2, InPhase
<1>4. CASE /\ claim_running_lease_cas(lease[c], par.held, "claimed")
           /\ lease' = [lease EXCEPT ![c] = ToRunning(@, n)]
           /\ run' = [run EXCEPT ![c][n] = v]
           /\ par' = [par EXCEPT !.phase = "label", !.rid = n]
  <2>1. n \in Nat
    BY <1>1, <1>3, Numbers
  <2>2. lease[c].status = "claimed" /\ par.held.lease_id = lease[c].lease_id
    BY <1>4 DEF claim_running_lease_cas, cas_applies
  <2>3. NoneOf(c)
    BY <1>3, <2>2, NotRunning DEF ExclusiveInv, ChildOK
  <2>4. v \in RunState /\ v.status = "unborn"
    BY DEF RunState, Statuses
  <2>5. IsRuns(run) /\ run' = WithRow(run, c, n, v)
    BY <1>4 DEF WithRow, BaseInv, TypeInv
  <2>6. par' = Naming(par, "label", n) /\ par \in ParentRun
    BY <1>3, <1>4 DEF Naming
  <2>7. n \in Runs(c) /\ c \in Children
    BY <1>1, <1>3
  <2>7a. lease' = [lease EXCEPT ![c] = ToRunning(@, n)]
    BY <1>4
  <2> HIDE DEF v, n
  <2>8. run'[c][n] = v /\ \A d \in Children : d # c => run'[d] = run[d]
    BY <2>4, <2>5, <2>7, SetRun
  <2>9. "label" \in Phases
    BY DEF Phases, Launching
  <2>10. par'.phase = "label" /\ par'.rid = n /\ par'.held = par.held
    BY <2>1, <2>6, <2>9, NamingFields
  <2> QED
    BY <1>1, <1>3, <2>1, <2>2, <2>3, <2>4, <2>7a, <2>8, <2>10, LaunchTaken
<1>5. CASE par' = persist_external_wait_state(par, art) /\ UNCHANGED <<lease, run>>
  BY <1>1, <1>3, <1>5, Excl_parked
<1> QED
  BY <1>4, <1>5 DEF start_child_workflow

LEMMA Excl_resume ==
    ASSUME BaseInv, ExclusiveInv, returned \subseteq returned', art.sel \notin returned,
           resume_child_workflow
    PROVE  ExclusiveInv'
<1> DEFINE c == art.sel
           n == par.held.run_id
<1>1. InLaunch("resume") /\ UNCHANGED <<run, exec>> /\ art' = art
  BY DEF resume_child_workflow
<1>2. "resume" \in Phases /\ "resume" # "enter"
  BY DEF Phases
<1>3. /\ par.phase = "resume" /\ c \in Children /\ par \in ParentRun /\ lease[c] \in IssueLease
  BY <1>1, <1>2, InPhase
<1>4. CASE /\ claim_running_lease_cas(lease[c], par.held, "ready_to_resume")
           /\ lease' = [lease EXCEPT ![c] = ToRunning(@, n)]
           /\ par' = [par EXCEPT !.phase = "recover", !.rid = n]
  <2>1. /\ lease[c].status = "ready_to_resume" /\ par.held.lease_id = lease[c].lease_id
        /\ lease[c].run_id = n
    BY <1>4 DEF claim_running_lease_cas, cas_applies
  <2>2. NoneOf(c) /\ run[c][n].status \notin {"running", "waiting_external"}
    BY <1>3, <2>1, NotRunning DEF ExclusiveInv, ChildOK, Resumable
  <2>3. n \in Nat
    BY <1>3, <2>1 DEF IssueLease
  <2>4. par' = Naming(par, "recover", n)
    BY <1>4 DEF Naming
  <2>4a. lease' = [lease EXCEPT ![c] = ToRunning(@, n)]
    BY <1>4
  <2> HIDE DEF n
  <2>5. "recover" \in Phases
    BY DEF Phases, Launching
  <2>6. par'.phase = "recover" /\ par'.rid = n /\ par'.held = par.held
    BY <1>3, <2>3, <2>4, <2>5, NamingFields
  <2> QED
    BY <1>1, <1>3, <2>1, <2>2, <2>3, <2>4a, <2>6, LaunchTaken
<1>5. CASE par' = persist_external_wait_state(par, art) /\ UNCHANGED lease
  BY <1>1, <1>3, <1>5, Excl_parked
<1> QED
  BY <1>4, <1>5 DEF resume_child_workflow

LEMMA Excl_runner ==
    ASSUME BaseInv, ExclusiveInv, returned \subseteq returned', art.sel \notin returned,
           runner_starts
    PROVE  ExclusiveInv'
<1> DEFINE c == art.sel
           n == par.rid
           e == Execution(c, n, "parent")
<1>1. PICK ph \in {"label", "recover"} : InLaunch(ph)
  BY DEF runner_starts
<1>2. /\ run' = WithStatus(run, c, n, "running") /\ exec' = exec \cup {e}
      /\ par' = Moving(par, "child") /\ UNCHANGED <<lease, art>>
  BY DEF runner_starts, Moving, WithStatus
<1>3. ph \in Phases /\ ph # "enter" /\ ph \in Launching
  BY DEF Phases, Launching
<1>4. par.phase = ph /\ c \in Children /\ par \in ParentRun
  BY <1>1, <1>3, InPhase
<1>5. n \in Runs(c)
  BY <1>3, <1>4 DEF BaseInv, PhaseInv
<1>6. /\ lease[c].status = "running" /\ lease[c].run_id = n /\ ~lease[c].overdue /\ NoneOf(c)
      /\ par.held.lease_id <= lease[c].lease_id
  BY <1>3, <1>4 DEF ExclusiveInv, ChildOK, Starting, Finishing
<1>7. e.child = c /\ e.run = n
  BY <1>4, <1>5, OneExecution
<1>8. IsRuns(run) /\ "running" \in Statuses
  BY DEF BaseInv, TypeInv, Statuses
<1>9. "child" \in Phases
  BY DEF Phases, Launching
<1>9a. run' = WithStatus(run, c, n, "running") /\ n \in Runs(c) /\ c \in Children
  BY <1>2, <1>4, <1>5
<1>9b. e = Execution(c, n, "parent")
  OBVIOUS
<1> HIDE DEF e, n
<1>10. run'[c][n].status = "running" /\ \A d \in Children : d # c => run'[d] = run[d]
  BY <1>8, <1>9a, SetStatus
<1>11. par'.phase = "child" /\ par'.rid = n /\ par'.held = par.held
  BY <1>2, <1>4, <1>9, MovingFields DEF n
<1>12. \A d \in Children \ {c} : SameWork(d) /\ SameLaunch(d)
  BY <1>2, <1>4, <1>7 DEF SameWork, SameLaunch, Launching
<1>13. Working(c)'
  BY <1>2, <1>6, <1>7, <1>9b, <1>10, <1>11 DEF Working, NoneOf
<1>14. Resumable(c)' /\ Starting(c)' /\ Finishing(c)'
  BY <1>2, <1>6, <1>11 DEF Resumable, Starting, Finishing
<1> QED
  BY <1>2, <1>4, <1>10, <1>12, <1>13, <1>14, OnlyChild DEF ChildOK

\* Before the child runs nothing can have changed; once it has ended, a lease
\* that is still the parent's has no other holder, and goes back to a status
\* under which the run may be taken up, or the child is left out from here on.
LEMMA Excl_compensate ==
    ASSUME BaseInv, ExclusiveInv, returned \subseteq returned', art.sel \notin returned,
           compensate_error
    PROVE  ExclusiveInv'
<1>0. art.sel \in Children
  <2>1. {"label", "recover", "finish"} \subseteq Phases \ {"enter"}
    BY DEF Phases, Launching
  <2> QED
    BY <2>1, InPhase DEF compensate_error
<1>0a. PICK c \in Children : c = art.sel
  BY <1>0
<1> DEFINE n == par.rid
           row == restore_child_lease_after_runner_error(lease[c], par.held, n)
<1>1. PICK ph \in {"label", "recover", "finish"} : InLaunch(ph)
  BY DEF compensate_error
<1>2. /\ lease' = [lease EXCEPT ![c] = row] /\ UNCHANGED <<run, exec, art>>
      /\ par' = Ending(Left(par), "failed")
      /\ returned' = IF GivenBack(c, n) THEN returned \cup {c} ELSE returned
  BY <1>0a DEF compensate_error, Ending
<1>3. ph \in Phases /\ ph # "enter" /\ ph \in Launching
  BY DEF Phases, Launching
<1>4. /\ par.phase = ph /\ art.sel = c /\ par \in ParentRun /\ par.held \in IssueLease
      /\ lease[c] \in IssueLease /\ lease[c].run_id \in {NoRun} \cup Runs(c)
  BY <1>0a, <1>1, <1>3, InPhase
<1>5. n \in Runs(c) /\ (FromClaim \/ FromReady)
  BY <1>3, <1>4 DEF BaseInv, PhaseInv
<1>6. ChildOK(c)
  BY <1>0a DEF ExclusiveInv
<1>7. row \in IssueLease /\ row.run_id = lease[c].run_id
  BY <1>4, <1>5, RestoredRow DEF FromClaim, FromReady
<1>7a. \/ row = lease[c]
       \/ /\ lease[c].status = "running" /\ lease[c].run_id = n
          /\ lease[c].lease_id = par.held.lease_id
  BY <1>4, <1>5 DEF restore_child_lease_after_runner_error, update_lease_status_conditional,
                    cas_applies
<1>8. Left(par) \in ParentRun /\ Left(par).phase = "enter"
  BY <1>4, LeftFields
<1>8a. Left(par) \in ParentRun /\ "failed" \in Modes
  BY <1>8 DEF Modes
<1>9. par'.phase = "enter"
  BY <1>2, <1>8, <1>8a, EndingFields
<1> HIDE DEF row
<1>10. CASE row = lease[c]
  <2>1. lease' = lease
    BY <1>2, <1>4, <1>10 DEF BaseInv, TypeInv
  <2> SUFFICES ASSUME NEW d \in Children, d \notin returned' PROVE ChildOK(d)'
    BY DEF ExclusiveInv
  <2>2. CASE d = c
    <3>1. \A e \in exec : e.child = c => e.who # "parent"
      BY <1>3, <1>4, <1>6 DEF ChildOK, Working
    <3>2. Working(c)'
      BY <1>2, <1>6, <1>9, <2>1, <3>1 DEF ChildOK, Working
    <3>3. Resumable(c)'
      BY <1>2, <1>6, <2>1 DEF ChildOK, Resumable
    <3>4. Starting(c)' /\ Finishing(c)'
      BY <1>9 DEF Starting, Finishing, Launching
    <3> QED
      BY <2>2, <3>2, <3>3, <3>4 DEF ChildOK
  <2>3. CASE d # c
    <3>1. SameWork(d) /\ SameLaunch(d)
      BY <1>2, <1>4, <1>9, <2>3 DEF SameWork, SameLaunch, Launching
    <3> QED
      BY <1>2, <2>1, <3>1, SameChild DEF ExclusiveInv
  <2> QED
    BY <2>2, <2>3
<1>11. CASE /\ lease[c].status = "running" /\ lease[c].run_id = n
            /\ lease[c].lease_id = par.held.lease_id
  <2>1. NoneOf(c) /\ run[c][n].status # "running"
    <3>1. CASE ph \in {"label", "recover"}
      BY <1>4, <1>6, <3>1 DEF ChildOK, Starting
    <3>2. CASE ph = "finish"
      BY <1>4, <1>6, <1>11, <3>2 DEF ChildOK, Finishing
    <3> QED
      BY <3>1, <3>2
  <2>2. lease'[c] = row /\ \A d \in Children : d # c => lease'[d] = lease[d]
    BY <1>2, <1>4, <1>7, SetLease DEF BaseInv, TypeInv
  <2>3. c \in returned' \/ Resumable(c)'
    <3> SUFFICES ASSUME row.status = "ready_to_resume", c \notin returned'
        PROVE  run[c][n].status \notin {"running", "waiting_external"}
      BY <1>2, <1>7, <1>11, <2>2 DEF Resumable
    <3>1. CASE ph \in {"label", "recover"}
      BY <1>4, <1>6, <3>1 DEF ChildOK, Starting
    <3>2. CASE ph = "finish"
      BY <1>1, <1>2, <2>1, <2>2, <3>2 DEF GivenBack
    <3> QED
      BY <3>1, <3>2
  <2>4. NoneOf(c)'
    BY <1>2, <2>1 DEF NoneOf
  <2>5. c \in returned' \/ ChildOK(c)'
    BY <1>4, <1>9, <2>3, <2>4, FreeChild DEF Launching
  <2>6. \A d \in Children \ {c} : SameWork(d) /\ SameLaunch(d)
    BY <1>2, <1>4, <1>9 DEF SameWork, SameLaunch, Launching
  <2> QED
    BY <1>2, <1>4, <2>2, <2>5, <2>6, OnlyChild
<1> QED
  BY <1>7a, <1>10, <1>11

\* The run of the parent's child has ended.
LEMMA Excl_result ==
    ASSUME BaseInv, ExclusiveInv, returned \subseteq returned', art.sel \notin returned,
           child_result_from_run_outcome
    PROVE  ExclusiveInv'
<1> DEFINE c == art.sel
           n == par.rid
           e == Execution(c, n, "parent")
           abandoned == update_lease_status_conditional(lease[c], lease[c].lease_id,
                            "cleanup_abandoned", {"running"}, NoRun, {n})
<1>1. /\ InLaunch("child") /\ exec' = exec \ {e} /\ par' = Moving(par, "finish") /\ art' = art
  BY DEF child_result_from_run_outcome, Moving
<1>2. PICK s \in Endings(c) : child_ends(c, n, s)
  BY DEF child_result_from_run_outcome
<1>3. "child" \in Phases /\ "child" # "enter" /\ "child" \in Launching
  BY DEF Phases, Launching
<1>4. par.phase = "child" /\ c \in Children /\ par \in ParentRun /\ lease[c] \in IssueLease
  BY <1>1, <1>3, InPhase
<1>5. n \in Runs(c)
  BY <1>3, <1>4 DEF BaseInv, PhaseInv
<1>6. /\ e \in exec /\ \A f \in exec : f.child = c => f = e
      /\ par.held.lease_id <= lease[c].lease_id /\ lease[c].status = "running"
  <2>1. e \in exec /\ e.child = c
    BY <1>4, <1>5, OneExecution DEF ExclusiveInv, ChildOK, Working
  <2> QED
    BY <1>3, <1>4, <2>1 DEF ExclusiveInv, ChildOK, Working, Finishing
<1>6a. e.child = c
  BY <1>4, <1>5, OneExecution
<1>7. s \in Statuses /\ IsRuns(run) /\ run' = WithStatus(run, c, n, s)
  BY <1>2, EndingStatuses DEF child_ends, WithStatus, BaseInv, TypeInv
<1>8. PICK row \in {lease[c], abandoned} : lease' = [lease EXCEPT ![c] = row]
  <2>1. CASE lease' = lease
    <3>1. lease' = [lease EXCEPT ![c] = lease[c]]
      BY <1>4, <2>1 DEF BaseInv, TypeInv
    <3> QED
      BY <3>1
  <2>2. CASE lease' = [lease EXCEPT ![c] = abandoned]
    BY <2>2
  <2> QED
    BY <1>2, <2>1, <2>2 DEF child_ends
<1>9. /\ row \in IssueLease /\ row.lease_id = lease[c].lease_id
      /\ row.status \in {"running", "cleanup_abandoned"}
  BY <1>4, <1>5, <1>6, EndedRow
<1>9a. s # "running"
  BY DEF Endings
<1>10. "finish" \in Phases
  BY DEF Phases, Launching
<1>10a. n \in Runs(c) /\ c \in Children
  BY <1>4, <1>5
<1>10b. n = par.rid
  OBVIOUS
<1> HIDE DEF abandoned, e, n
<1>11. run'[c][n].status = s /\ \A d \in Children : d # c => run'[d] = run[d]
  BY <1>7, <1>10a, SetStatus
<1>12. lease'[c] = row /\ \A d \in Children : d # c => lease'[d] = lease[d]
  BY <1>8, <1>9, <1>10a, SetLease DEF BaseInv, TypeInv
<1>13. par'.phase = "finish" /\ par'.held = par.held /\ par'.rid = n
  BY <1>1, <1>4, <1>10, <1>10b, MovingFields
<1>14. \A d \in Children \ {c} : SameWork(d) /\ SameLaunch(d)
  BY <1>1, <1>4, <1>6a, <1>13 DEF SameWork, SameLaunch, Launching
<1>15. NoneOf(c)'
  BY <1>1, <1>6 DEF NoneOf
<1>16. Working(c)'
  BY <1>1, <1>13, <1>15 DEF Working, NoneOf
<1>17. Resumable(c)' /\ Starting(c)'
  BY <1>1, <1>9, <1>12, <1>13 DEF Resumable, Starting
<1>18. par'.held.lease_id <= lease'[c].lease_id
  BY <1>6, <1>9, <1>12, <1>13
<1>19. Finishing(c)'
  BY <1>1, <1>9, <1>9a, <1>11, <1>12, <1>13, <1>15, <1>18 DEF Finishing
<1> QED
  BY <1>1, <1>10a, <1>11, <1>12, <1>14, <1>16, <1>17, <1>19, OnlyChild DEF ChildOK

\* The parent puts the result of a run into the lease, if the lease is still
\* its own; nobody can have taken it up again in between.
LEMMA Excl_finish ==
    ASSUME BaseInv, ExclusiveInv, returned \subseteq returned', art.sel \notin returned,
           finish_child_launch
    PROVE  ExclusiveInv'
<1> DEFINE c == art.sel
           n == par.rid
           result == classify_child_run_result(run[c][n].status)
           row == advance_child_lease_for_result(lease[c], par.held, n, result)
<1>1. /\ par.phase = "finish" /\ c \in Children /\ n \in Runs(c) /\ lease[c] \in IssueLease
      /\ result \in Results /\ lease' = [lease EXCEPT ![c] = row]
      /\ UNCHANGED <<run, exec>> /\ par'.phase = "enter"
  BY Finishes
<1>2. /\ row \in IssueLease /\ row.run_id = lease[c].run_id
      /\ \/ row = lease[c]
         \/ /\ lease[c].lease_id = par.held.lease_id /\ lease[c].run_id = n
            /\ lease[c].status \in {"running", "failed", "waiting_external"}
            /\ row.status = ResultStatus(result)
  <2>1. c \in Children
    BY <1>1
  <2>2. lease[c] \in IssueLease
    BY <1>1
  <2>3. n \in Runs(c)
    BY <1>1
  <2>4. result \in Results
    BY <1>1
  <2>5. par.held \in IssueLease
    BY DEF BaseInv, TypeInv, ParentRun
  <2> HIDE DEF c, n, result
  <2> QED
    BY <2>1, <2>2, <2>3, <2>4, <2>5, FinishedRow
<1>3. ResultStatus(result) = "ready_to_resume" =>
         run[c][n].status \notin {"running", "waiting_external"}
  BY DEF ResultStatus, classify_child_run_result
<1>4. CASE row = lease[c]
  <2>1. lease' = lease
    BY <1>1, <1>4 DEF BaseInv, TypeInv
  <2> SUFFICES ASSUME NEW d \in Children, d \notin returned' PROVE ChildOK(d)'
    BY DEF ExclusiveInv
  <2>2. SameWork(d) /\ SameLaunch(d)
    BY <1>1 DEF SameWork, SameLaunch, Launching
  <2> QED
    BY <1>1, <2>1, <2>2, SameChild DEF ExclusiveInv
<1>5. CASE /\ lease[c].lease_id = par.held.lease_id /\ lease[c].run_id = n
           /\ lease[c].status \in {"running", "failed", "waiting_external"}
           /\ row.status = ResultStatus(result)
  <2>1. Working(c) /\ Finishing(c)
    BY <1>1 DEF ExclusiveInv, ChildOK
  <2>2. NoneOf(c)
    BY <1>1, <1>5, <2>1, NotRunning DEF Finishing
  <2>3. row.status = "ready_to_resume" =>
           run[c][row.run_id].status \notin {"running", "waiting_external"}
    BY <1>2, <1>3, <1>5
  <2> HIDE DEF row
  <2> QED
    BY <1>1, <1>2, <2>2, <2>3, OwnLease DEF Launching
<1> QED
  BY <1>2, <1>4, <1>5

LEMMA Excl_wait ==
    ASSUME BaseInv, ExclusiveInv, returned \subseteq returned', art.sel \notin returned,
           wait_for_child_merge
    PROVE  ExclusiveInv'
<1> DEFINE c == art.sel
<1>1. /\ c \in Children /\ par.phase = "enter" /\ par'.phase = "enter" /\ UNCHANGED <<run, exec>>
      /\ lease' = lease \/ \E n \in Nat : lease' = [lease EXCEPT ![c] = mark_child_lease_completed(@, n)]
  BY Waits
<1>2. CASE lease' = lease
  BY <1>1, <1>2, QuietStep DEF Launching
<1>3. CASE lease' # lease
  <2>1. PICK n \in Nat : lease' = [lease EXCEPT ![c] = mark_child_lease_completed(@, n)]
    BY <1>1, <1>3
  <2> DEFINE row == mark_child_lease_completed(lease[c], n)
  <2>2. c \in Children /\ lease[c] \in IssueLease /\ n \in Nat
    BY <1>1 DEF BaseInv, TypeInv
  <2>3. /\ row \in IssueLease
        /\ \/ row = lease[c]
           \/ lease[c].status \in {"completed", "failed", "ready_to_resume"} /\ row.status = "completed"
    BY <2>2, CompletedRow
  <2>4. lease' = [lease EXCEPT ![c] = row]
    BY <2>1
  <2> HIDE DEF row
  <2>5. row # lease[c]
    BY <1>3, <2>2, <2>4 DEF BaseInv, TypeInv
  <2>6. NoneOf(c)
    BY <2>2, <2>3, <2>5, NotRunning DEF ExclusiveInv, ChildOK
  <2> QED
    BY <1>1, <2>2, <2>3, <2>4, <2>5, <2>6, OwnLease DEF Launching
<1> QED
  BY <1>2, <1>3

\* An inline child goes with the parent, and its lease stays behind as running.
LEMMA Excl_dies ==
    ASSUME BaseInv, ExclusiveInv, returned \subseteq returned', parent_dies PROVE ExclusiveInv'
<1>1. par'.phase = "enter"
  BY Base_dies
<1>2. UNCHANGED <<lease, run>> /\ exec' = {e \in exec : e.who # "parent"}
  BY DEF parent_dies
<1> SUFFICES ASSUME NEW d \in Children, d \notin returned' PROVE ChildOK(d)'
  BY DEF ExclusiveInv
<1>3. Working(d) /\ Resumable(d)
  BY DEF ExclusiveInv, ChildOK
<1>4. Working(d)'
  BY <1>1, <1>2, <1>3 DEF Working
<1>5. Resumable(d)'
  BY <1>2, <1>3 DEF Resumable
<1>6. Starting(d)' /\ Finishing(d)'
  BY <1>1 DEF Starting, Finishing, Launching
<1> QED
  BY <1>4, <1>5, <1>6 DEF ChildOK

\* The daemon and the outside leave the parent run alone.
LEMMA OtherActor ==
    ASSUME BaseInv, ExclusiveInv, returned \subseteq returned', NEW c \in Children, NEW row \in IssueLease,
           UNCHANGED <<par, art>>, lease' = [lease EXCEPT ![c] = row],
           \A d \in Children : d # c => run'[d] = run[d] /\ SameWork(d),
           lease'[c] = row => ChildOK(c)'
    PROVE  ExclusiveInv'
<1>1. lease'[c] = row /\ \A d \in Children : d # c => lease'[d] = lease[d]
  BY SetLease DEF BaseInv, TypeInv
<1>2. \A d \in Children : SameLaunch(d)
  BY DEF SameLaunch
<1> QED
  BY <1>1, <1>2, OnlyChild

\* A launch whose lease is not running has ended its run.
LEMMA OnlyFinishing ==
    ASSUME NEW c \in Children, ChildOK(c), lease[c].status # "running", art.sel = c,
           par.phase \in Launching
    PROVE  par.phase = "finish" /\ par.held.lease_id <= lease[c].lease_id
<1>1. par.phase # "child"
  <2>1. Execution(c, par.rid, "parent").child = c
    BY DEF Execution
  <2> QED
    BY <2>1 DEF ChildOK, Working
<1>2. par.phase \notin {"label", "recover"}
  BY DEF ChildOK, Starting
<1> QED
  BY <1>1, <1>2 DEF Launching, ChildOK, Finishing

\* The daemon starts a run on a lease that it has taken.
LEMMA DaemonTaken ==
    ASSUME BaseInv, ExclusiveInv, returned \subseteq returned', NEW c \in Children \ returned, NEW row \in IssueLease, NEW n \in Runs(c),
           UNCHANGED <<par, art>>, lease' = [lease EXCEPT ![c] = row],
           lease[c].status # "running", row.status = "running", row.run_id = n, ~row.overdue,
           \/ row.lease_id = lease[c].lease_id + 1
           \/ row.lease_id = lease[c].lease_id /\ lease[c].status = "ready_to_resume",
           run'[c][n].status = "running", \A d \in Children : d # c => run'[d] = run[d],
           exec' = exec \cup {Execution(c, n, "daemon")}
    PROVE  ExclusiveInv'
<1> DEFINE e == Execution(c, n, "daemon")
<1>1. e.child = c /\ e.run = n /\ e.who = "daemon"
  BY OneExecution
<1>2. exec' = exec \cup {e}
  OBVIOUS
<1>2a. ChildOK(c)
  BY DEF ExclusiveInv
<1> HIDE DEF e
<1>3. NoneOf(c)
  BY <1>2a, NotRunning DEF ChildOK
<1>4. \A d \in Children : d # c => SameWork(d)
  BY <1>1, <1>2 DEF SameWork
<1>5. art.sel = c /\ par.phase \in Launching =>
         par.phase = "finish" /\ par.held.lease_id <= row.lease_id /\ par.held.lease_id # row.lease_id
  <2> SUFFICES ASSUME art.sel = c, par.phase \in Launching
      PROVE  par.phase = "finish" /\ par.held.lease_id <= row.lease_id
             /\ par.held.lease_id # row.lease_id
    OBVIOUS
  <2>1. par.phase = "finish" /\ par.held.lease_id <= lease[c].lease_id
    BY <1>2a, OnlyFinishing
  <2>2. par.held.lease_id \in Nat /\ lease[c].lease_id \in Nat
    BY DEF BaseInv, TypeInv, ParentRun, IssueLease
  <2>3. CASE row.lease_id = lease[c].lease_id + 1
    BY <2>1, <2>2, <2>3
  <2>4. CASE row.lease_id = lease[c].lease_id /\ lease[c].status = "ready_to_resume"
    <3>1. lease[c].lease_id # par.held.lease_id
      BY <1>2a, <2>1, <2>4 DEF ChildOK, Finishing
    <3> QED
      BY <2>1, <2>4, <3>1
  <2> QED
    BY <2>3, <2>4
<1> SUFFICES ASSUME lease'[c] = row PROVE ChildOK(c)'
  BY <1>4, OtherActor
<1>6. Working(c)'
  <2>1. \A f \in exec' : f.child = c => f = e
    BY <1>2, <1>3 DEF NoneOf
  <2>2. ~(par'.phase = "child" /\ art'.sel = c)
    BY <1>5 DEF Launching
  <2> QED
    BY <1>1, <2>1, <2>2 DEF Working
<1>7. Resumable(c)'
  BY DEF Resumable
<1>8. Starting(c)' /\ Finishing(c)'
  BY <1>5 DEF Starting, Finishing, Launching
<1> QED
  BY <1>6, <1>7, <1>8 DEF ChildOK

LEMMA Excl_daemon_claim ==
    ASSUME BaseInv, ExclusiveInv, returned \subseteq returned', NEW c \in Children, c \notin returned,
           claim_and_launch(c)
    PROVE  ExclusiveInv'
<1> DEFINE n == Cardinality(Minted(c)) + 1
           v == [status |-> "running", by |-> "daemon"]
           row == ToRunning(try_claim(lease[c]), n)
<1>1. UNCHANGED <<par, art>>
  BY DEF claim_and_launch
<1>2. CASE UNCHANGED <<lease, run, exec>>
  BY <1>1, <1>2, QuietStep
<1>3. CASE /\ claim_wins(lease[c]) /\ n \in Runs(c)
           /\ lease' = [lease EXCEPT ![c] = row] /\ run' = WithRow(run, c, n, v)
           /\ exec' = exec \cup {Execution(c, n, "daemon")}
  <2>1. n \in Nat /\ lease[c] \in IssueLease
    BY <1>3, Numbers, OldRow
  <2>2. try_claim(lease[c]) \in IssueLease /\ try_claim(lease[c]).lease_id = lease[c].lease_id + 1
    BY <1>3, <2>1, ClaimedRow
  <2>2a. n \in Nat
    BY <2>1
  <2>3. /\ row \in IssueLease /\ row.status = "running" /\ row.run_id = n /\ ~row.overdue
        /\ row.lease_id = lease[c].lease_id + 1
    BY <2>2, <2>2a, RunningRow
  <2>4. lease[c].status # "running"
    BY <1>3 DEF claim_wins, RECLAIMABLE
  <2>5. v \in RunState /\ v.status = "running"
    BY DEF RunState, Statuses
  <2>6. IsRuns(run) /\ n \in Runs(c) /\ run' = WithRow(run, c, n, v)
    BY <1>3, OldRow
  <2>7. lease' = [lease EXCEPT ![c] = row] /\ exec' = exec \cup {Execution(c, n, "daemon")}
    BY <1>3
  <2> HIDE DEF row, n, v
  <2>8. run'[c][n] = v /\ \A d \in Children : d # c => run'[d] = run[d]
    BY <2>5, <2>6, SetRun
  <2> QED
    BY <1>1, <2>3, <2>4, <2>5, <2>6, <2>7, <2>8, DaemonTaken
<1> QED
  BY <1>2, <1>3 DEF claim_and_launch, WithRow

LEMMA Excl_collect ==
    ASSUME BaseInv, ExclusiveInv, returned \subseteq returned', NEW c \in Children, c \notin returned,
           collect_resume_units(c)
    PROVE  ExclusiveInv'
<1> DEFINE n == lease[c].run_id
           row == ToRunning(lease[c], n)
<1>1. /\ UNCHANGED <<par, art>> /\ lease[c].status = "ready_to_resume"
      /\ lease' = [lease EXCEPT ![c] = row] /\ run' = WithStatus(run, c, n, "running")
      /\ exec' = exec \cup {Execution(c, n, "daemon")}
  BY DEF collect_resume_units, WithStatus
<1>2. n \in Runs(c) /\ lease[c] \in IssueLease /\ IsRuns(run)
  BY <1>1, OldRow
<1>2a. n \in Nat
  BY <1>2, Numbers
<1>3. /\ row \in IssueLease /\ row.run_id = n /\ row.status = "running" /\ ~row.overdue
      /\ row.lease_id = lease[c].lease_id
  BY <1>2, <1>2a, RunningRow
<1>4. "running" \in Statuses
  BY DEF Statuses
<1> HIDE DEF row, n
<1>5. run'[c][n].status = "running" /\ \A d \in Children : d # c => run'[d] = run[d]
  BY <1>1, <1>2, <1>4, SetStatus
<1> QED
  BY <1>1, <1>2, <1>3, <1>5, DaemonTaken

\* A run of the daemon's ends; its lease was running, and is not any more.
LEMMA Excl_daemon_finish ==
    ASSUME BaseInv, ExclusiveInv, returned \subseteq returned', NEW c \in Children, c \notin returned, NEW n \in Runs(c),
           finish_lease_after_result(Execution(c, n, "daemon"))
    PROVE  ExclusiveInv'
<1> DEFINE e == Execution(c, n, "daemon")
<1>1. e.child = c /\ e.run = n /\ e.who = "daemon"
  BY OneExecution
<1>2. PICK s \in Endings(c) :
        /\ run' = WithStatus(run, c, n, s)
        /\ lease' = [lease EXCEPT ![c] = update_lease_status_conditional(@, @.lease_id,
                         daemon_finish(s), {"running"}, NoRun, {n})]
  BY <1>1 DEF finish_lease_after_result, WithStatus
<1>3. UNCHANGED <<par, art>> /\ exec' = exec \ {e} /\ e \in exec
  BY DEF finish_lease_after_result
<1> DEFINE row == update_lease_status_conditional(lease[c], lease[c].lease_id,
                         daemon_finish(s), {"running"}, NoRun, {n})
<1>4. lease' = [lease EXCEPT ![c] = row]
  BY <1>2
<1>5. lease[c] \in IssueLease /\ IsRuns(run)
  BY OldRow
<1>5a. ChildOK(c)
  BY DEF ExclusiveInv
<1>6. lease[c].status = "running" /\ lease[c].run_id = n
  BY <1>1, <1>3, <1>5a DEF ChildOK, Working
<1>7. row \in IssueLease /\ row.lease_id = lease[c].lease_id
  BY <1>5, DaemonRow
<1>8. row.status \in {"completed", "cleanup_abandoned", "waiting_external", "failed"}
  <2>1. daemon_finish(s) \in {"completed", "cleanup_abandoned", "waiting_external", "failed"}
    BY DEF daemon_finish, Endings
  <2> QED
    BY <1>5, <1>6, <2>1
       DEF update_lease_status_conditional, cas_applies, IssueLease
<1>9. s \in Statuses
  BY EndingStatuses
<1>10. run' = WithStatus(run, c, n, s)
  BY <1>2
<1> HIDE DEF row, e
<1>11. \A d \in Children : d # c => run'[d] = run[d]
  BY <1>5, <1>9, <1>10, SetStatus
<1>12. \A d \in Children : d # c => SameWork(d)
  BY <1>1, <1>3 DEF SameWork
<1>13. \A f \in exec : f.child = c => f = e
  BY <1>1, <1>3, <1>5a DEF ChildOK, Working
<1>14. NoneOf(c)'
  BY <1>3, <1>13 DEF NoneOf
<1>15. art.sel = c /\ par.phase \in Launching =>
          /\ par.phase = "finish" /\ par.held.lease_id # lease[c].lease_id
          /\ par.held.lease_id <= lease[c].lease_id
  <2> SUFFICES ASSUME art.sel = c, par.phase \in Launching
      PROVE  /\ par.phase = "finish" /\ par.held.lease_id # lease[c].lease_id
             /\ par.held.lease_id <= lease[c].lease_id
    OBVIOUS
  <2>1. ~NoneOf(c)
    BY <1>1, <1>3 DEF NoneOf
  <2>2. par.phase \notin {"label", "recover"}
    BY <1>5a, <2>1 DEF ChildOK, Starting
  <2>3. par.phase # "child"
    <3>1. Execution(c, par.rid, "parent").child = c /\ Execution(c, par.rid, "parent").who = "parent"
      BY DEF Execution
    <3>2. par.phase = "child" => Execution(c, par.rid, "parent") \in exec
      BY <1>5a DEF ChildOK, Working
    <3> QED
      BY <1>1, <1>13, <3>1, <3>2
  <2> QED
    BY <1>5a, <1>6, <2>1, <2>2, <2>3 DEF ChildOK, Finishing, Launching
<1> SUFFICES ASSUME lease'[c] = row PROVE ChildOK(c)'
  BY <1>3, <1>4, <1>7, <1>11, <1>12, OtherActor
<1>16. Working(c)'
  BY <1>3, <1>14, <1>15 DEF Working, NoneOf, Launching
<1>17. Resumable(c)' /\ Starting(c)'
  BY <1>3, <1>8, <1>15 DEF Resumable, Starting, Launching
<1>18. Finishing(c)'
  BY <1>3, <1>7, <1>15 DEF Finishing, Launching
<1> QED
  BY <1>16, <1>17, <1>18 DEF ChildOK

LEMMA Excl_polled ==
    ASSUME BaseInv, ExclusiveInv, returned \subseteq returned', NEW c \in Children, c \notin returned,
           apply_poll_decision(c)
    PROVE  ExclusiveInv'
<1> DEFINE n == lease[c].run_id
<1>1. /\ n \in Runs(c) /\ run[c][n].status = "waiting_external" /\ UNCHANGED <<exec, par, art>>
      /\ \E s \in {"ready_to_resume", "failed"} :
            /\ lease' = [lease EXCEPT ![c] = Marked(lease[c], s)] /\ run' = WithStatus(run, c, n, s)
            /\ s = "ready_to_resume" => lease[c].status \in {"waiting_external", "ready_to_resume"}
  BY Polled
<1>2. PICK s \in {"ready_to_resume", "failed"} :
            /\ lease' = [lease EXCEPT ![c] = Marked(lease[c], s)] /\ run' = WithStatus(run, c, n, s)
            /\ s = "ready_to_resume" => lease[c].status \in {"waiting_external", "ready_to_resume"}
  BY <1>1
<1>3. s \in LeaseStatus /\ lease[c] \in IssueLease
  BY OldRow DEF LeaseStatus
<1>4. s \in Statuses
  BY DEF Statuses
<1> DEFINE row == Marked(lease[c], s)
<1>5. /\ row \in IssueLease /\ row.status = s /\ row.run_id = n
      /\ row.lease_id = lease[c].lease_id
  BY <1>3, MarkedRow
<1>6. IsRuns(run) /\ n \in Runs(c) /\ run' = WithStatus(run, c, n, s)
  BY <1>1, <1>2, OldRow
<1>7. lease' = [lease EXCEPT ![c] = row]
  BY <1>2
<1>7a. ChildOK(c)
  BY DEF ExclusiveInv
<1>8. NoneOf(c)
  BY <1>1, <1>7a DEF ChildOK, Working, NoneOf
<1>9. art.sel = c => par.phase \notin {"label", "recover", "child"}
  <2>1. art.sel = c => par.phase \notin {"label", "recover"}
    BY <1>1, <1>7a DEF ChildOK, Starting
  <2>2. Execution(c, par.rid, "parent").child = c
    BY DEF Execution
  <2>3. art.sel = c => par.phase # "child"
    BY <1>7a, <1>8, <2>2 DEF ChildOK, Working, NoneOf
  <2> QED
    BY <2>1, <2>3
<1> HIDE DEF row, n
<1>10. run'[c][n].status = s /\ \A d \in Children : d # c => run'[d] = run[d]
  BY <1>4, <1>6, SetStatus
<1>11. \A d \in Children : SameWork(d)
  BY <1>1 DEF SameWork
<1> SUFFICES ASSUME lease'[c] = row PROVE ChildOK(c)'
  BY <1>1, <1>5, <1>7, <1>10, <1>11, OtherActor
<1>12. NoneOf(c)'
  BY <1>1, <1>8 DEF NoneOf
<1>13. Working(c)' /\ Starting(c)'
  BY <1>1, <1>9, <1>12 DEF Working, Starting, NoneOf
<1>14. Resumable(c)'
  BY <1>5, <1>10 DEF Resumable
<1>15. Finishing(c)'
  BY <1>1, <1>2, <1>5, <1>7a, <1>12 DEF ChildOK, Finishing
<1> QED
  BY <1>13, <1>14, <1>15 DEF ChildOK

\* A lease ages only while nobody holds it.
LEMMA Excl_age ==
    ASSUME BaseInv, ExclusiveInv, returned \subseteq returned', NEW c \in Children, c \notin returned,
           Age(c)
    PROVE  ExclusiveInv'
<1> DEFINE row == Aged(lease[c])
<1>1. /\ lease' = [lease EXCEPT ![c] = row] /\ UNCHANGED <<run, exec, par, art>> /\ ~Held(c)
  BY DEF Age, Aged, BaseInv, TypeInv
<1>2. lease[c] \in IssueLease /\ "failed" \in LeaseStatus
  BY OldRow DEF LeaseStatus
<1>3. /\ row \in IssueLease /\ row.status = lease[c].status
      /\ row.run_id = lease[c].run_id /\ row.lease_id = lease[c].lease_id
  BY <1>2, MarkedRow
<1>4. ChildOK(c)
  BY DEF ExclusiveInv
<1>5. NoneOf(c)
  BY <1>1, <1>4 DEF ChildOK, Working, NoneOf, Held
<1>6. ~(par.phase \in Launching /\ art.sel = c)
  <2>1. Execution(c, par.rid, "parent").child = c
    BY DEF Execution
  <2>2. ~(par.phase = "child" /\ art.sel = c)
    BY <1>4, <1>5, <2>1 DEF ChildOK, Working, NoneOf
  <2>3. par.phase \in Launching => par.mode = "running"
    BY DEF BaseInv, PhaseInv, Launching
  <2> QED
    BY <1>1, <2>2, <2>3 DEF Held, Launching
<1> HIDE DEF row
<1>7. \A d \in Children : SameWork(d)
  BY <1>1 DEF SameWork
<1> SUFFICES ASSUME lease'[c] = row PROVE ChildOK(c)'
  BY <1>1, <1>3, <1>7, OtherActor
<1>8. Resumable(c)'
  BY <1>1, <1>3, <1>4 DEF ChildOK, Resumable
<1>9. NoneOf(c)'
  BY <1>1, <1>5 DEF NoneOf
<1> QED
  BY <1>1, <1>6, <1>8, <1>9, FreeChild

\* A recovery takes only leases whose heartbeat is old, and work keeps it young.
LEMMA Excl_recover ==
    ASSUME BaseInv, ExclusiveInv, returned \subseteq returned', recover_stale_leases PROVE ExclusiveInv'
<1>1. lease' = [c \in Children |-> recover_stale(lease[c])] /\ UNCHANGED <<run, exec, par, art>>
  BY DEF recover_stale_leases
<1> SUFFICES ASSUME NEW c \in Children, c \notin returned' PROVE ChildOK(c)'
  BY DEF ExclusiveInv
<1>2. ChildOK(c)
  BY DEF ExclusiveInv
<1>3. lease[c] \in IssueLease
  BY OldRow
<1>4. /\ lease'[c].lease_id = lease[c].lease_id
      /\ lease'[c] = lease[c] \/ (lease'[c].status = "stale" /\ lease[c].overdue)
  BY <1>1, <1>3, StaleRow
<1>5. SameWork(c) /\ SameLaunch(c)
  BY <1>1 DEF SameWork, SameLaunch
<1>6. CASE lease'[c] = lease[c]
  BY <1>1, <1>2, <1>5, <1>6, SameChild
<1>7. CASE lease'[c].status = "stale" /\ lease[c].overdue
  <2>1. NoneOf(c)
    BY <1>2, <1>7 DEF ChildOK, Working, NoneOf
  <2>2. Execution(c, par.rid, "parent").child = c
    BY DEF Execution
  <2>3. ~(par.phase = "child" /\ art.sel = c)
    BY <1>2, <2>1, <2>2 DEF ChildOK, Working, NoneOf
  <2>4. ~(par.phase \in {"label", "recover"} /\ art.sel = c)
    BY <1>2, <1>7 DEF ChildOK, Starting
  <2>5. NoneOf(c)'
    BY <1>1, <2>1 DEF NoneOf
  <2>6. Working(c)' /\ Starting(c)' /\ Resumable(c)'
    BY <1>1, <1>7, <2>3, <2>4, <2>5 DEF Working, Starting, Resumable, NoneOf
  <2>7. Finishing(c)'
    BY <1>1, <1>2, <1>4, <1>7 DEF ChildOK, Finishing
  <2> QED
    BY <2>6, <2>7 DEF ChildOK
<1> QED
  BY <1>4, <1>6, <1>7

LEMMA Excl_merge ==
    ASSUME BaseInv, ExclusiveInv, returned \subseteq returned', NEW c \in Children, c \notin returned,
           complete_merge(c)
    PROVE  ExclusiveInv'
<1>1. PICK n \in Runs(c) : run' = WithStatus(run, c, n, "merged") /\ run[c][n].status = "review_ready"
  BY DEF complete_merge, WithStatus
<1>2. UNCHANGED <<lease, exec, par, art>>
  BY DEF complete_merge
<1>3. "merged" \in Statuses /\ IsRuns(run) /\ lease[c] \in IssueLease
  BY OldRow DEF Statuses
<1>4. /\ run'[c][n].status = "merged" /\ \A m \in Runs(c) : m # n => run'[c][m] = run[c][m]
      /\ \A d \in Children : d # c => run'[d] = run[d]
  BY <1>1, <1>3, SetStatus
<1>5. ChildOK(c)
  BY DEF ExclusiveInv
<1>6. Working(c)'
  <2>1. \A e \in exec : e.child = c => e.run \in Runs(c) /\ e.run # n
    BY <1>1, <1>5 DEF ChildOK, Working, BaseInv, TypeInv
  <2> QED
    BY <1>2, <1>4, <1>5, <2>1 DEF ChildOK, Working
<1>7. Resumable(c)'
  <2>1. lease[c].status = "ready_to_resume" => lease[c].run_id \in Runs(c)
    BY OldRow
  <2> QED
    BY <1>2, <1>4, <1>5, <2>1 DEF ChildOK, Resumable
<1>8. Starting(c)'
  <2>1. par.phase \in {"label", "recover"} /\ art.sel = c => par.rid \in Runs(c)
    BY DEF BaseInv, PhaseInv, Launching
  <2> QED
    BY <1>2, <1>4, <1>5, <2>1 DEF ChildOK, Starting, NoneOf
<1>9. Finishing(c)'
  <2>1. par.phase = "finish" /\ art.sel = c => par.rid \in Runs(c)
    BY DEF BaseInv, PhaseInv, Launching
  <2> QED
    BY <1>2, <1>4, <1>5, <2>1 DEF ChildOK, Finishing, NoneOf
<1>10. \A d \in Children \ {c} : SameWork(d) /\ SameLaunch(d)
  BY <1>2 DEF SameWork, SameLaunch
<1> QED
  BY <1>2, <1>4, <1>6, <1>7, <1>8, <1>9, <1>10, OnlyChild DEF ChildOK

\* What a step is about: one child, and no other.
Elsewhere(d) == lease'[d] = lease[d] /\ run'[d] = run[d] /\ SameWork(d) /\ SameLaunch(d)

LaunchStep ==
    \/ claim_child_lease \/ prepare_relaunchable_child \/ start_child_workflow
    \/ resume_child_workflow \/ runner_starts \/ compensate_error
    \/ child_result_from_run_outcome \/ finish_child_launch \/ wait_for_child_merge

LEMMA LaunchLeaves ==
    ASSUME BaseInv, LaunchStep
    PROVE  par'.phase \notin Launching \/ art'.sel = art.sel
<1>1. CASE start_child_workflow \/ resume_child_workflow \/ runner_starts \/ compensate_error
           \/ child_result_from_run_outcome
  BY <1>1 DEF start_child_workflow, resume_child_workflow, runner_starts, compensate_error,
              child_result_from_run_outcome
<1>2. CASE finish_child_launch
  BY <1>2, Finishes DEF Launching
<1>3. CASE wait_for_child_merge
  BY <1>3, Waits DEF Launching
<1>4. CASE claim_child_lease \/ prepare_relaunchable_child
  <2>1. PICK ph \in {"claim", "relaunch"} : InLaunch(ph)
    BY <1>4 DEF claim_child_lease, prepare_relaunchable_child
  <2>2. ph \in Phases /\ ph # "enter"
    BY DEF Phases
  <2>3. art.sel \in Children /\ par \in ParentRun /\ art \in Artifacts
    BY <2>1, <2>2, InPhase
  <2>4. /\ "child_lease_claim_contended" \in WaitReasons /\ AbsentRow \in IssueLease
        /\ "child_lease_relaunch_contended" \in WaitReasons
    BY DEF WaitReasons, AbsentRow, IssueLease, NoLease, NoRun
  <2>5. ASSUME NEW reason \in WaitReasons, contended(art.sel, reason) PROVE par'.phase = "enter"
    BY <2>3, <2>4, <2>5, ElsewhereTypes DEF contended
  <2> QED
    BY <1>4, <2>4, <2>5 DEF claim_child_lease, prepare_relaunchable_child, Launching
<1> QED
  BY <1>1, <1>2, <1>3, <1>4 DEF LaunchStep

LEMMA LaunchElsewhere ==
    ASSUME BaseInv, LaunchStep, NEW d \in Children, d # art.sel
    PROVE  Elsewhere(d)
<1>1. lease'[d] = lease[d]
  <2>1. lease \in [Children -> IssueLease]
    BY DEF BaseInv, TypeInv
  <2>2. CASE UNCHANGED lease
    BY <2>2
  <2>3. CASE \E r : lease' = [lease EXCEPT ![art.sel] = r]
    BY <2>1, <2>3
  <2> QED
    BY <2>2, <2>3
       DEF LaunchStep, claim_child_lease, prepare_relaunchable_child, start_child_workflow,
           resume_child_workflow, runner_starts, compensate_error, child_result_from_run_outcome,
           child_ends, finish_child_launch, wait_for_child_merge, finish_merged_child,
           wait_for_open_pr, record_blocked_child, contended
<1>2. run'[d] = run[d]
  <2>1. IsRuns(run)
    BY DEF BaseInv, TypeInv
  <2>2. CASE UNCHANGED run
    BY <2>2
  <2>3. CASE \E r : run' = [run EXCEPT ![art.sel] = r]
    BY <2>1, <2>3 DEF IsRuns
  <2> QED
    BY <2>2, <2>3
       DEF LaunchStep, claim_child_lease, prepare_relaunchable_child, start_child_workflow,
           resume_child_workflow, runner_starts, compensate_error, child_result_from_run_outcome,
           child_ends, finish_child_launch, wait_for_child_merge
<1>3. SameWork(d)
  BY DEF SameWork, Execution, LaunchStep, claim_child_lease, prepare_relaunchable_child,
         start_child_workflow, resume_child_workflow, runner_starts, compensate_error,
         child_result_from_run_outcome, finish_child_launch, wait_for_child_merge
<1>4. SameLaunch(d)
  BY LaunchLeaves DEF SameLaunch
<1> QED
  BY <1>1, <1>2, <1>3, <1>4 DEF Elsewhere

LEMMA ChildElsewhere ==
    ASSUME BaseInv, NEW c \in Children, ChildStep(c), NEW d \in Children, d # c
    PROVE  Elsewhere(d)
<1>1. UNCHANGED <<par, art>>
  BY DEF ChildStep, discover, claim_and_launch, collect_resume_units, finish_lease_after_result,
         apply_poll_decision, Age, child_opens_pr, human_merges, human_closes,
         human_adds_subissue, complete_merge
<1>2. lease'[d] = lease[d]
  <2>1. lease \in [Children -> IssueLease]
    BY DEF BaseInv, TypeInv
  <2>2. \A m \in Nat : Execution(c, m, "daemon").child = c
    BY DEF Execution
  <2>3. Runs(c) \subseteq Nat
    BY Numbers
  <2>4. CASE discover(c) \/ child_opens_pr(c) \/ human_merges(c) \/ human_closes(c)
             \/ human_adds_subissue(c) \/ complete_merge(c)
    BY <2>4 DEF discover, child_opens_pr, human_merges, human_closes, human_adds_subissue,
                complete_merge
  <2>5. CASE claim_and_launch(c) \/ collect_resume_units(c)
    BY <2>1, <2>5 DEF claim_and_launch, collect_resume_units
  <2>6. CASE \E n \in Runs(c) : finish_lease_after_result(Execution(c, n, "daemon"))
    BY <2>1, <2>2, <2>3, <2>6 DEF finish_lease_after_result
  <2>7. CASE apply_poll_decision(c) \/ Age(c)
    BY <2>1, <2>7 DEF apply_poll_decision, Age
  <2> QED
    BY <2>4, <2>5, <2>6, <2>7 DEF ChildStep
<1>3. run'[d] = run[d]
  <2>1. run = [x \in Children |-> run[x]]
    BY DEF BaseInv, TypeInv, IsRuns
  <2>2. \A m \in Nat : Execution(c, m, "daemon").child = c
    BY DEF Execution
  <2>3. Runs(c) \subseteq Nat
    BY Numbers
  <2>4. CASE discover(c) \/ child_opens_pr(c) \/ human_merges(c) \/ human_closes(c)
             \/ human_adds_subissue(c) \/ Age(c)
    BY <2>4 DEF discover, child_opens_pr, human_merges, human_closes, human_adds_subissue, Age
  <2>5. CASE claim_and_launch(c) \/ collect_resume_units(c)
    BY <2>1, <2>5 DEF claim_and_launch, collect_resume_units
  <2>6. CASE \E n \in Runs(c) : finish_lease_after_result(Execution(c, n, "daemon"))
    BY <2>1, <2>2, <2>3, <2>6 DEF finish_lease_after_result
  <2>7. CASE apply_poll_decision(c) \/ complete_merge(c)
    BY <2>1, <2>7 DEF apply_poll_decision, complete_merge
  <2>8. \/ discover(c) \/ child_opens_pr(c) \/ human_merges(c) \/ human_closes(c)
        \/ human_adds_subissue(c) \/ Age(c) \/ claim_and_launch(c) \/ collect_resume_units(c)
        \/ apply_poll_decision(c) \/ complete_merge(c)
        \/ \E n \in Runs(c) : finish_lease_after_result(Execution(c, n, "daemon"))
    BY DEF ChildStep
  <2> QED
    BY <2>4, <2>5, <2>6, <2>7, <2>8
<1>4. SameWork(d)
  <2>1. \A m, w : Execution(c, m, w).child # d
    BY DEF Execution
  <2>2. CASE UNCHANGED exec
    BY <2>2 DEF SameWork
  <2>3. CASE claim_and_launch(c) \/ collect_resume_units(c)
    BY <2>1, <2>3 DEF claim_and_launch, collect_resume_units, SameWork
  <2>4. CASE \E n \in Runs(c) : finish_lease_after_result(Execution(c, n, "daemon"))
    BY <2>1, <2>4 DEF finish_lease_after_result, SameWork
  <2>5. CASE \/ discover(c) \/ child_opens_pr(c) \/ human_merges(c) \/ human_closes(c)
             \/ human_adds_subissue(c) \/ Age(c) \/ apply_poll_decision(c) \/ complete_merge(c)
    BY <2>2, <2>5 DEF discover, child_opens_pr, human_merges, human_closes, human_adds_subissue,
                      Age, apply_poll_decision, complete_merge
  <2> QED
    BY <2>3, <2>4, <2>5 DEF ChildStep
<1> QED
  BY <1>1, <1>2, <1>3, <1>4 DEF Elsewhere, SameLaunch

\* A step about a child that is left out.
LEMMA LeftOut ==
    ASSUME ExclusiveInv, returned \subseteq returned', NEW c \in returned,
           \A d \in Children : d # c => Elsewhere(d)
    PROVE  ExclusiveInv'
<1> SUFFICES ASSUME NEW d \in Children, d \notin returned' PROVE ChildOK(d)'
  BY DEF ExclusiveInv
<1>1. ChildOK(d) /\ Elsewhere(d)
  BY DEF ExclusiveInv
<1> QED
  BY <1>1, SameChild DEF Elsewhere

\* Who is left out stays so.
LEMMA ReturnedStays == [Next]_vars => returned \subseteq returned'
<1>1. CASE ParentStep
  BY <1>1 DEF ParentStep, load_parent_issue, discover_subissues, classify_subissues,
     determine_subissue_order, select_next_child, launch_child_workflow, claim_child_lease,
     prepare_relaunchable_child, start_child_workflow, resume_child_workflow, runner_starts,
     compensate_error, child_result_from_run_outcome, finish_child_launch, wait_for_child_merge,
     evaluate_parent_completion, close_or_report_parent, poll_parent_wait, timeout_decision,
     parent_dies, operator_resumes_parent, new_parent_run
<1>2. CASE recover_stale_leases \/ \E c \in Children : ChildStep(c)
  BY <1>2 DEF recover_stale_leases, ChildStep, discover, claim_and_launch, collect_resume_units,
     finish_lease_after_result, apply_poll_decision, Age, child_opens_pr, human_merges,
     human_closes, human_adds_subissue, complete_merge
<1>3. CASE UNCHANGED vars
  BY <1>3 DEF vars
<1> QED
  BY <1>1, <1>2, <1>3 DEF Next

LEMMA ExclusiveNext == BaseInv /\ ExclusiveInv /\ [Next]_vars => ExclusiveInv'
<1> SUFFICES ASSUME BaseInv, ExclusiveInv, [Next]_vars PROVE ExclusiveInv'
  OBVIOUS
<1>0. returned \subseteq returned'
  BY ReturnedStays
<1>1. CASE UNCHANGED vars
  BY <1>0, <1>1, QuietStep DEF vars
<1>2. CASE LaunchStep
  <2>1. CASE art.sel \in returned
    BY <1>0, <1>2, <2>1, LaunchElsewhere, LeftOut
  <2>2. CASE art.sel \notin returned
    BY <1>0, <1>2, <2>2, Excl_claim, Excl_relaunch, Excl_start, Excl_resume, Excl_runner,
       Excl_compensate, Excl_result, Excl_finish, Excl_wait DEF LaunchStep
  <2> QED
    BY <2>1, <2>2
<1>3. CASE ParentStep
  BY <1>0, <1>2, <1>3, Excl_graph, Excl_mode, Excl_launch, Excl_dies DEF ParentStep, LaunchStep
<1>4. CASE recover_stale_leases
  BY <1>0, <1>4, Excl_recover
<1>5. ASSUME NEW c \in Children, ChildStep(c) PROVE ExclusiveInv'
  <2>1. CASE c \in returned
    BY <1>0, <1>5, <2>1, ChildElsewhere, LeftOut
  <2>2. CASE discover(c) \/ child_opens_pr(c) \/ human_merges(c) \/ human_closes(c)
             \/ human_adds_subissue(c)
    <3>1. UNCHANGED <<lease, run, exec, par, art>>
      BY <2>2 DEF discover, child_opens_pr, human_merges, human_closes, human_adds_subissue
    <3> QED
      BY <1>0, <3>1, QuietStep
  <2>3. CASE c \notin returned
    BY <1>0, <1>5, <2>2, <2>3, Excl_daemon_claim, Excl_collect, Excl_daemon_finish, Excl_polled,
       Excl_age, Excl_merge DEF ChildStep
  <2> QED
    BY <2>1, <2>3
<1> QED
  BY <1>1, <1>3, <1>4, <1>5 DEF Next

\* What makes a child's lease a lock: its holder's run is the only one, and the
\* parent's window between compare-and-set and run is covered by the lease
\* (discovery.rs: start_child_workflow, resume_child_workflow, finish_child_launch).
THEOREM ExclusiveInvariant == Spec => []ExclusiveInv
BY ExclusiveNext, Init_exclusive, ParentInvariant, PTL DEF Spec

\* A child is never worked on twice at once, by its parent, by the daemon or by
\* both, unless an error after its run (discovery.rs: compensate_metadata_error)
\* gave its lease back as ready to resume while the run was parked.
THEOREM ChildrenAreExclusive == Spec => []OneChildExecution
<1>1. ExclusiveInv => OneChildExecution
  <2> SUFFICES ASSUME ExclusiveInv, NEW c \in Children \ returned
      PROVE  Cardinality({e \in exec : e.child = c}) <= 1
    BY DEF OneChildExecution
  <2> DEFINE S == {e \in exec : e.child = c}
  <2>1. \A e, f \in S : e = f
    BY DEF ExclusiveInv, ChildOK, Working
  <2> HIDE DEF S
  <2>2. CASE S = {}
    BY <2>2, FS_EmptySet DEF S
  <2>3. CASE S # {}
    <3>1. PICK e : S = {e}
      BY <2>1, <2>3
    <3>2. Cardinality(S) = 1
      BY <3>1, FS_Singleton
    <3> QED
      BY <3>2 DEF S
  <2> QED
    BY <2>2, <2>3
<1> QED
  BY <1>1, ExclusiveInvariant, PTL

-----------------------------------------------------------------------------
(* The snapshot, the evaluation and the report                               *)

Judged == {"determine_subissue_order", "select_next_child", "launch_or_resume_child_workflow",
           "wait_for_child_merge", "evaluate_parent_completion", "close_or_report_parent"}
Selected == {"launch_or_resume_child_workflow", "wait_for_child_merge",
             "evaluate_parent_completion", "close_or_report_parent"}

\* A snapshot may be old, but what it calls merged stays merged; and a lease is
\* found to need no action only for the selected child, which was not closed.
SnapInv ==
    /\ par.step \in Judged => DOMAIN art.snap = art.children
    /\ \A c \in DOMAIN art.snap : art.snap[c] = "Merged" => pr[c] = "merged" /\ issue[c] = "closed"
    /\ par.step \in Selected /\ art.sel # NoChild =>
          art.sel \in DOMAIN art.snap /\ art.snap[art.sel] # "Closed"
    /\ \A c \in Children :
          art.rollup[c] = "non_actionable_child_lease" => par.step \in Selected /\ c = art.sel

SettledChild(c) ==
    /\ pr[c] = "merged" /\ issue[c] = "closed"
    /\ active_child_lease_blocks_parent(lease[c]) =>
          lease[c].run_id # NoRun /\ run[c][lease[c].run_id].by # "parent"

Settled == \A c \in art.children : SettledChild(c)

\* The evaluation is still true when the report acts on it, and afterwards.
ClosedInv ==
    /\ par.step = "close_or_report_parent" /\ art.complete => Settled
    /\ pissue = "closed" =>
          par.mode = "done" /\ par.step = "close_or_report_parent" /\ Settled

LEMMA SnapTypes ==
    ASSUME TypeInv
    PROVE  /\ DOMAIN art.snap \subseteq Children /\ art.children \subseteq Children
           /\ art.sel \in Children \cup {NoChild}
           /\ art.rollup \in [Children -> Outcomes]
<1>1. art.snap \in Snapshots /\ art.children \subseteq Children
      /\ art.sel \in Children \cup {NoChild} /\ art.rollup \in [Children -> Outcomes]
  BY DEF TypeInv, Artifacts
<1>2. PICK S \in SUBSET Children : art.snap \in [S -> ChildStates]
  BY <1>1 DEF Snapshots
<1> QED
  BY <1>1, <1>2

LEMMA InitSnap == Init => SnapInv /\ ClosedInv
<1> SUFFICES ASSUME Init PROVE SnapInv /\ ClosedInv
  OBVIOUS
<1>1. DOMAIN << >> = {}
  OBVIOUS
<1>2. art = NoArtifacts /\ par = FreshParent /\ pissue = "open"
  BY DEF Init
<1>3. art.snap = << >> /\ \A c \in Children : art.rollup[c] = "none"
  BY <1>2 DEF NoArtifacts, AbsentStatus
<1>4. par.step = "load_parent_issue"
  BY <1>2 DEF FreshParent
<1> QED
  BY <1>1, <1>2, <1>3, <1>4 DEF SnapInv, ClosedInv, Judged, Selected

\* A step about the selected child, between the selection and the report.
LEMMA SelectedStep ==
    ASSUME SnapInv, UNCHANGED <<pr, issue>>, SameFindings(art, art'),
           par.step \in Selected, par'.step \in Selected,
           \A d \in Children : d # art.sel => art'.rollup[d] = art.rollup[d]
    PROVE  SnapInv'
<1>1. Selected \subseteq Judged
  BY DEF Selected, Judged
<1> QED
  BY <1>1 DEF SnapInv, SameFindings

\* A step of the running parent that does not come to the report.
LEMMA NotReporting ==
    ASSUME ClosedInv, par.mode = "running", par'.step # "close_or_report_parent", pissue' = pissue
    PROVE  ClosedInv'
BY DEF ClosedInv

\* Nothing but the parent's mode changes, or what its step held.
LEMMA SameFindingsStep ==
    ASSUME SnapInv, ClosedInv, UNCHANGED <<pr, issue, pissue, lease, run, art>>,
           par'.step = par.step, par.mode # "done"
    PROVE  SnapInv' /\ ClosedInv'
<1>1. SnapInv'
  BY DEF SnapInv
<1>2. \A c : SettledChild(c) => SettledChild(c)'
  BY DEF SettledChild
<1>3. Settled => Settled'
  BY <1>2 DEF Settled
<1>4. ClosedInv'
  BY <1>3 DEF ClosedInv
<1> QED
  BY <1>1, <1>4

\* What is called merged is.
LEMMA MergedIs ==
    ASSUME TypeInv, NEW c \in Children, classify_child_with_run_state(c) = "Merged"
    PROVE  pr[c] = "merged" /\ issue[c] = "closed"
<1>1. classify_child(issue[c], pr_state_for_issue(c)) = "Merged"
  <2> DEFINE s == classify_child(issue[c], pr_state_for_issue(c))
  <2>1. apply_child_rollup_state(c, apply_child_run_state(c, s)) = "Merged"
    BY DEF classify_child_with_run_state
  <2> HIDE DEF s
  <2>2. apply_child_run_state(c, s) = "Merged"
    BY <2>1 DEF apply_child_rollup_state
  <2>3. apply_child_run_state(c, s) \in {"FailedRun", "StaleRun", "ActiveRun", s}
    BY DEF apply_child_run_state
  <2> QED
    BY <2>2, <2>3 DEF s
<1>2. pr_state_for_issue(c) = "merged" /\ issue[c] = "closed"
  <2> DEFINE p == pr_state_for_issue(c)
             i == issue[c]
  <2>0. i \in {"open", "closed"} /\ p \in {"none", "open", "merged"}
    BY DEF TypeInv, pr_state_for_issue, pr_reference_usable, pr_relevance_key
  <2> HIDE DEF p, i
  <2>1. classify_child(i, p) = "Merged" => p = "merged" /\ i = "closed"
    BY <2>0 DEF classify_child
  <2> QED
    BY <1>1, <2>1 DEF p, i
<1> QED
  BY <1>2 DEF pr_state_for_issue

SnapClosed == SnapInv /\ ClosedInv

LEMMA Snap_load == ASSUME BaseInv, SnapClosed, load_parent_issue PROVE SnapClosed'
<1>1. /\ par.mode = "running" /\ par.step = "load_parent_issue"
      /\ UNCHANGED <<pr, issue, pissue, art>>
  BY DEF load_parent_issue, At
<1>2. par'.step = "discover_subissues"
  <2>1. par \in ParentRun /\ "discover_subissues" \in Steps
    BY DEF BaseInv, TypeInv, Steps
  <2> QED
    BY <2>1, ToFields DEF load_parent_issue
<1>3. SnapInv'
  BY <1>1, <1>2 DEF SnapClosed, SnapInv, Judged, Selected
<1> QED
  BY <1>1, <1>2, <1>3, NotReporting DEF SnapClosed

LEMMA Snap_discover == ASSUME BaseInv, SnapClosed, discover_subissues PROVE SnapClosed'
<1>1. /\ par.mode = "running" /\ par.step \in {"discover_subissues", "refresh_parent_and_children"}
      /\ UNCHANGED <<pr, issue, pissue>>
  BY DEF discover_subissues, At, github
<1>2. par'.step = "classify_subissues"
  <2>1. par \in ParentRun /\ "classify_subissues" \in Steps
    BY DEF BaseInv, TypeInv, Steps
  <2> QED
    BY <2>1, ToFields DEF discover_subissues
<1>3. art'.snap = art.snap /\ art'.rollup = art.rollup
  BY DEF discover_subissues, BaseInv, TypeInv, Artifacts
<1>4. SnapInv'
  BY <1>1, <1>2, <1>3 DEF SnapClosed, SnapInv, Judged, Selected
<1> QED
  BY <1>1, <1>2, <1>4, NotReporting DEF SnapClosed

LEMMA Snap_classify == ASSUME BaseInv, SnapClosed, classify_subissues PROVE SnapClosed'
<1>1. /\ par.mode = "running" /\ par.step = "classify_subissues" /\ UNCHANGED <<pr, issue, pissue>>
  BY DEF classify_subissues, At, github
<1>2. par'.step = "determine_subissue_order"
  <2>1. par \in ParentRun /\ "determine_subissue_order" \in Steps
    BY DEF BaseInv, TypeInv, Steps
  <2> QED
    BY <2>1, ToFields DEF classify_subissues
<1>3. /\ art'.snap = [c \in art.children |-> classify_child_with_run_state(c)]
      /\ art'.rollup = art.rollup /\ art'.children = art.children
  BY DEF classify_subissues, BaseInv, TypeInv, Artifacts
<1>4. art.children \subseteq Children
  BY SnapTypes DEF BaseInv
<1>5. \A c \in art.children : art'.snap[c] = "Merged" => pr[c] = "merged" /\ issue[c] = "closed"
  BY <1>3, <1>4, MergedIs DEF BaseInv
<1>6. DOMAIN art'.snap = art'.children
  BY <1>3
<1>7. SnapInv'
  BY <1>1, <1>2, <1>3, <1>5, <1>6 DEF SnapClosed, SnapInv, Judged, Selected
<1> QED
  BY <1>1, <1>2, <1>7, NotReporting DEF SnapClosed

LEMMA Snap_order == ASSUME BaseInv, SnapClosed, determine_subissue_order PROVE SnapClosed'
<1>1. /\ par.mode = "running" /\ par.step = "determine_subissue_order" /\ UNCHANGED <<pr, issue, pissue>>
  BY DEF determine_subissue_order, At, github
<1>2. par'.step = "select_next_child"
  <2>1. par \in ParentRun /\ "select_next_child" \in Steps
    BY DEF BaseInv, TypeInv, Steps
  <2> QED
    BY <2>1, ToFields DEF determine_subissue_order
<1>3. art'.snap = art.snap /\ art'.rollup = art.rollup /\ art'.children = art.children
  BY DEF determine_subissue_order, BaseInv, TypeInv, Artifacts
<1>4. SnapInv'
  BY <1>1, <1>2, <1>3 DEF SnapClosed, SnapInv, Judged, Selected
<1> QED
  BY <1>1, <1>2, <1>4, NotReporting DEF SnapClosed

\* A child is selected from the snapshot, and a closed one is not.
LEMMA Snap_select == ASSUME BaseInv, SnapClosed, select_next_child PROVE SnapClosed'
<1> DEFINE next == IF missing_ordered_child_states(art) # {} THEN NoChild
                   ELSE next_actionable_child(art)
           step == IF next = NoChild THEN "evaluate_parent_completion"
                   ELSE "launch_or_resume_child_workflow"
<1>1. /\ par.mode = "running" /\ par.step = "select_next_child" /\ UNCHANGED <<pr, issue, pissue>>
      /\ par' = To(par, step) /\ art' = [art EXCEPT !.sel = next]
  BY DEF select_next_child, At, github
<1>2. par \in ParentRun /\ art \in Artifacts
  BY DEF BaseInv, TypeInv
<1>3. next # NoChild => next \in DOMAIN art.snap /\ art.snap[next] # "Closed"
  <2> SUFFICES ASSUME next # NoChild PROVE next \in DOMAIN art.snap /\ art.snap[next] # "Closed"
    OBVIOUS
  <2>1. missing_ordered_child_states(art) = {} /\ next = next_actionable_child(art)
    OBVIOUS
  <2>2. next \in art.order /\ ~child_state_blocks_selection(art.snap[next])
    BY <1>2, <2>1, Actionable
  <2> QED
    BY <2>1, <2>2 DEF missing_ordered_child_states, child_state_blocks_selection
<1> HIDE DEF next
<1>4. art'.snap = art.snap /\ art'.rollup = art.rollup /\ art'.children = art.children /\ art'.sel = next
  BY <1>1, <1>2 DEF Artifacts
<1>5. par'.step \in {"evaluate_parent_completion", "launch_or_resume_child_workflow"}
  <2>1. step \in Steps
    BY DEF Steps
  <2>2. step \in {"evaluate_parent_completion", "launch_or_resume_child_workflow"}
    OBVIOUS
  <2> HIDE DEF step
  <2> QED
    BY <1>1, <1>2, <2>1, <2>2, ToFields
<1>6. SnapInv'
  BY <1>1, <1>3, <1>4, <1>5 DEF SnapClosed, SnapInv, Judged, Selected
<1>7. par'.step # "close_or_report_parent"
  BY <1>5
<1> QED
  BY <1>1, <1>6, <1>7, NotReporting DEF SnapClosed

\* A step of a launch stays with the selected child.
LEMMA Snap_selected ==
    ASSUME BaseInv, SnapClosed, par.mode = "running", UNCHANGED <<pr, issue, pissue>>,
           par.step \in {Launch, "wait_for_child_merge"}, SameFindings(art, art'),
           par'.step \in {Launch, "wait_for_child_merge", "evaluate_parent_completion"},
           \A d \in Children : d # art.sel => art'.rollup[d] = art.rollup[d]
    PROVE  SnapClosed'
<1>1. par.step \in Selected /\ par'.step \in Selected /\ par'.step # "close_or_report_parent"
  BY DEF Selected, Launch
<1> QED
  BY <1>1, SelectedStep, NotReporting DEF SnapClosed

LEMMA SameSelected ==
    ASSUME BaseInv, SnapClosed, UNCHANGED <<pr, issue, pissue, art>>, par.mode = "running",
           par.step = Launch, par'.step = Launch
    PROVE  SnapClosed'
BY Snap_selected DEF SameFindings

LEMMA Snap_elsewhere ==
    ASSUME BaseInv, SnapClosed, UNCHANGED <<pr, issue, pissue>>, par.mode = "running",
           par.step = Launch, art.sel \in Children, NEW row \in IssueLease, NEW reason \in WaitReasons,
           wait_for_existing_child(art.sel, row, reason)
    PROVE  SnapClosed'
<1>1. /\ par'.step \in {par.step, "wait_for_child_merge"} /\ SameFindings(art, art')
      /\ \A d \in Children : d # art.sel => art'.rollup[d] = art.rollup[d]
  BY ElsewhereTypes
<1> QED
  BY <1>1, Snap_selected

LEMMA Snap_launch == ASSUME BaseInv, SnapClosed, launch_child_workflow PROVE SnapClosed'
<1> DEFINE c == art.sel
           row == lease[c]
<1>1. UNCHANGED <<pr, issue, pissue>> /\ par.mode = "running" /\ par.step = Launch
  BY DEF launch_child_workflow, InLaunch, At, Launch
<1>2. /\ par \in ParentRun /\ art \in Artifacts /\ c \in Children /\ row \in IssueLease
  BY DEF launch_child_workflow, BaseInv, TypeInv, Artifacts
<1>2a. c \in Children /\ row \in IssueLease
  BY <1>2
<1>3. CASE observe_existing_child_pr(c)
  <2>1. "wait_for_child_merge" \in Steps
    BY DEF Steps
  <2>1a. "observing_existing_child_pr" \in Outcomes
    BY DEF Outcomes
  <2>2. par'.step = "wait_for_child_merge"
    BY <1>2, <1>3, <2>1, ToFields DEF observe_existing_child_pr
  <2>3. /\ SameFindings(art, art')
        /\ \A d \in Children : d # c => art'.rollup[d] = art.rollup[d]
    BY <1>2, <1>3, <2>1a, RollupFields DEF observe_existing_child_pr
  <2> QED
    BY <1>1, <2>2, <2>3, Snap_selected
<1>4. CASE \E reason \in WaitReasons : wait_for_existing_child(c, row, reason)
  BY <1>1, <1>2a, <1>4, Snap_elsewhere
<1>5. CASE \E ph : par' = [par EXCEPT !.phase = ph, !.held = row] /\ art' = art
  <2>1. par'.step = Launch
    BY <1>1, <1>2, <1>5 DEF ParentRun
  <2> QED
    BY <1>1, <1>5, <2>1, SameSelected
<1>6. {"child_workflow_completed_waiting_for_pr_merge", "active_child_lease",
       "cleanup_abandoned_requires_continuation", "non_actionable_child_lease"} \subseteq WaitReasons
  BY DEF WaitReasons
<1> QED
  BY <1>3, <1>4, <1>5, <1>6 DEF launch_child_workflow, prepare_child_lease_with_conn

LEMMA Snap_claim ==
    ASSUME BaseInv, SnapClosed, claim_child_lease \/ prepare_relaunchable_child
    PROVE  SnapClosed'
<1> DEFINE c == art.sel
<1>1. PICK ph \in {"claim", "relaunch"} : InLaunch(ph)
  BY DEF claim_child_lease, prepare_relaunchable_child
<1>2. ph \in Phases /\ ph # "enter"
  BY DEF Phases
<1>3. /\ par.mode = "running" /\ par.step = Launch /\ c \in Children
      /\ par \in ParentRun /\ art \in Artifacts
  BY <1>1, <1>2, InPhase
<1>4. UNCHANGED <<pr, issue, pissue>>
  BY DEF claim_child_lease, prepare_relaunchable_child, github
<1>5. CASE art' = art /\ \E row : par' = [par EXCEPT !.phase = "start", !.held = row]
  <2>1. par'.step = Launch
    BY <1>3, <1>5 DEF ParentRun
  <2> QED
    BY <1>3, <1>4, <1>5, <2>1, SameSelected
<1>6. CASE \E reason \in WaitReasons : contended(c, reason)
  <2>1. AbsentRow \in IssueLease
    BY DEF AbsentRow, IssueLease, NoLease, NoRun
  <2> QED
    BY <1>3, <1>4, <1>6, <2>1, Snap_elsewhere DEF contended
<1>7. {"child_lease_claim_contended", "child_lease_relaunch_contended"} \subseteq WaitReasons
  BY DEF WaitReasons
<1> QED
  BY <1>5, <1>6, <1>7 DEF claim_child_lease, prepare_relaunchable_child

LEMMA Snap_phase ==
    ASSUME BaseInv, SnapClosed,
           \/ start_child_workflow \/ resume_child_workflow \/ runner_starts \/ compensate_error
           \/ child_result_from_run_outcome
    PROVE  SnapClosed'
<1>1. PICK ph \in Phases : ph # "enter" /\ InLaunch(ph)
  <2>1. {"start", "resume", "label", "recover", "finish", "child"} \subseteq Phases
    BY DEF Phases, Launching
  <2> QED
    BY <2>1 DEF start_child_workflow, resume_child_workflow, runner_starts, compensate_error,
                child_result_from_run_outcome
<1>2. /\ par.mode = "running" /\ par.step = Launch /\ par \in ParentRun /\ art \in Artifacts
  BY <1>1, InPhase
<1>3. UNCHANGED <<pr, issue, pissue, art>>
  BY DEF start_child_workflow, resume_child_workflow, runner_starts, compensate_error,
         child_result_from_run_outcome, github
<1>4. par'.step = Launch
  <2>1. CASE par' = persist_external_wait_state(par, art)
    BY <1>2, <2>1, WaitFields
  <2>2. CASE \E q, n : par' = [par EXCEPT !.phase = q, !.rid = n]
    BY <1>2, <2>2 DEF ParentRun
  <2>3. CASE \E q : par' = [par EXCEPT !.phase = q]
    BY <1>2, <2>3 DEF ParentRun
  <2>4. CASE par' = [Left(par) EXCEPT !.mode = "failed"]
    <3>1. Left(par) \in ParentRun /\ Left(par).step = Launch
      BY <1>2, LeftFields
    <3> QED
      BY <2>4, <3>1 DEF ParentRun
  <2> QED
    BY <2>1, <2>2, <2>3, <2>4
       DEF start_child_workflow, resume_child_workflow, runner_starts, compensate_error,
           child_result_from_run_outcome
<1> QED
  BY <1>2, <1>3, <1>4, SameSelected

LEMMA Snap_finish == ASSUME BaseInv, SnapClosed, finish_child_launch PROVE SnapClosed'
<1> DEFINE c == art.sel
           n == par.rid
           result == classify_child_run_result(run[c][n].status)
<1>1. /\ par.step = Launch /\ par.mode = "running" /\ UNCHANGED <<issue, pr, pissue>>
      /\ c \in Children /\ n \in Runs(c) /\ result \in Results
      /\ par'.step \in {Launch, "wait_for_child_merge", "evaluate_parent_completion"}
      /\ art' \in {art, Recorded(c, n, result)}
  BY Finishes
<1>1a. c \in Children /\ n \in Runs(c) /\ result \in Results
  BY <1>1
<1>2. SameFindings(art, art') /\ \A d \in Children : d # c => art'.rollup[d] = art.rollup[d]
  <2>1. CASE art' = art
    BY <2>1 DEF SameFindings
  <2>2. CASE art' = Recorded(c, n, result)
    <3>1. TypeInv
      BY DEF BaseInv
    <3> HIDE DEF c, n, result
    <3> QED
      BY <1>1a, <2>2, <3>1, RecordedFields
  <2> QED
    BY <1>1, <2>1, <2>2
<1> QED
  BY <1>1, <1>2, Snap_selected

LEMMA Snap_wait == ASSUME BaseInv, SnapClosed, wait_for_child_merge PROVE SnapClosed'
<1> DEFINE c == art.sel
<1>1. /\ c \in Children /\ par.step = "wait_for_child_merge" /\ par.mode = "running"
      /\ SameFindings(art, art') /\ UNCHANGED <<issue, pr, pissue>>
      /\ \A d \in Children : d # c => art'.rollup[d] = art.rollup[d]
      /\ art'.rollup[c] # "non_actionable_child_lease"
      /\ par'.step \in {"wait_for_child_merge", "refresh_parent_and_children",
                        "evaluate_parent_completion"}
  BY Waits
<1>2. CASE par'.step = "refresh_parent_and_children"
  <2>1. SnapInv'
    BY <1>1, <1>2 DEF SnapClosed, SnapInv, SameFindings, Judged, Selected
  <2> QED
    BY <1>1, <1>2, <2>1, NotReporting DEF SnapClosed
<1>3. CASE par'.step # "refresh_parent_and_children"
  BY <1>1, <1>3, Snap_selected
<1> QED
  BY <1>2, <1>3

\* A complete evaluation speaks of every child that was found.
LEMMA Snap_evaluate == ASSUME BaseInv, SnapClosed, evaluate_parent_completion PROVE SnapClosed'
<1>1. /\ par.mode = "running" /\ par.step = "evaluate_parent_completion"
      /\ UNCHANGED <<pr, issue, pissue, lease, run>>
  BY DEF evaluate_parent_completion, At, github
<1>2. par'.step = "close_or_report_parent"
  <2>1. par \in ParentRun /\ "close_or_report_parent" \in Steps
    BY DEF BaseInv, TypeInv, Steps
  <2> QED
    BY <2>1, ToFields DEF evaluate_parent_completion
<1>3. /\ art'.children = art.children /\ art'.snap = art.snap /\ art'.sel = art.sel
      /\ art'.rollup = art.rollup
      /\ art'.complete => incomplete_child_numbers = {} /\ active_child_leases = {}
  BY DEF evaluate_parent_completion, BaseInv, TypeInv, Artifacts
<1>4. SnapInv'
  BY <1>1, <1>2, <1>3 DEF SnapClosed, SnapInv, Judged, Selected
<1>5. ASSUME art'.complete, NEW c \in art.children PROVE SettledChild(c)
  <2>1. c \in DOMAIN art.snap /\ c \in Children
    BY <1>1, SnapTypes DEF SnapClosed, SnapInv, BaseInv, Judged
  <2>2. child_is_complete(c) \/ child_has_explicit_non_actionable_reason(c)
    BY <1>3, <1>5, <2>1 DEF incomplete_child_numbers
  <2>3. ~active_child_lease_blocks_parent(lease[c])
    BY <1>3, <1>5, <2>1 DEF active_child_leases
  <2>4. ~child_has_explicit_non_actionable_reason(c)
    <3> SUFFICES ASSUME art.snap[c] = "Closed", art.rollup[c] = "non_actionable_child_lease"
        PROVE  FALSE
      BY DEF child_has_explicit_non_actionable_reason
    <3>1. c = art.sel /\ c # NoChild
      BY <2>1, Numbers DEF SnapClosed, SnapInv
    <3> QED
      BY <1>1, <3>1 DEF SnapClosed, SnapInv, Selected
  <2>5. art.snap[c] = "Merged"
    BY <2>2, <2>4 DEF child_is_complete
  <2> QED
    BY <2>1, <2>3, <2>5 DEF SettledChild, SnapClosed, SnapInv
<1>6. \A c : SettledChild(c) => SettledChild(c)'
  BY <1>1 DEF SettledChild
<1>7. art'.complete => Settled'
  BY <1>3, <1>5, <1>6 DEF Settled
<1>8. ClosedInv'
  BY <1>1, <1>2, <1>7 DEF SnapClosed, ClosedInv
<1> QED
  BY <1>4, <1>8 DEF SnapClosed

\* The report closes the parent on what the evaluation found.
LEMMA Snap_close == ASSUME BaseInv, SnapClosed, close_or_report_parent PROVE SnapClosed'
<1>1. /\ par.mode = "running" /\ par.step = "close_or_report_parent"
      /\ UNCHANGED <<pr, issue, lease, run, art>> /\ par' = Ending(par, "done")
      /\ pissue' = IF art.complete THEN "closed" ELSE pissue
  BY DEF close_or_report_parent, At, Ending
<1>2. par'.mode = "done" /\ par'.step = "close_or_report_parent"
  <2>1. par \in ParentRun /\ "done" \in Modes
    BY DEF BaseInv, TypeInv, Modes
  <2> QED
    BY <1>1, <2>1, EndingFields
<1>3. SnapInv'
  BY <1>1, <1>2 DEF SnapClosed, SnapInv
<1>4. \A c : SettledChild(c) => SettledChild(c)'
  BY <1>1 DEF SettledChild
<1>5. Settled => Settled'
  BY <1>1, <1>4 DEF Settled
<1>6. ClosedInv'
  BY <1>1, <1>2, <1>5 DEF SnapClosed, ClosedInv
<1> QED
  BY <1>3, <1>6 DEF SnapClosed

LEMMA Snap_mode ==
    ASSUME BaseInv, SnapClosed,
           poll_parent_wait \/ timeout_decision \/ parent_dies \/ operator_resumes_parent
    PROVE  SnapClosed'
<1>1. UNCHANGED <<pr, issue, pissue, lease, run, art>> /\ par.mode # "done" /\ par \in ParentRun
  BY DEF poll_parent_wait, timeout_decision, parent_dies, operator_resumes_parent, github,
         BaseInv, TypeInv
<1>2. par'.step = par.step
  <2>1. CASE poll_parent_wait \/ timeout_decision \/ operator_resumes_parent
    BY <1>1, <2>1
       DEF poll_parent_wait, timeout_decision, operator_resumes_parent, Woken, ParentRun
  <2>2. CASE parent_dies
    <3>1. Left(par) \in ParentRun /\ Left(par).step = par.step
      BY <1>1, LeftFields
    <3>2. par' = [Left(par) EXCEPT !.mode = "failed"]
      BY <2>2 DEF parent_dies
    <3> QED
      BY <3>1, <3>2 DEF ParentRun
  <2> QED
    BY <2>1, <2>2
<1> QED
  BY <1>1, <1>2, SameFindingsStep DEF SnapClosed

LEMMA Snap_new == ASSUME BaseInv, SnapClosed, new_parent_run PROVE SnapClosed'
<1>1. /\ par' = FreshParent /\ art' = NoArtifacts /\ pissue' = "open"
  BY DEF new_parent_run, github
<1>2. DOMAIN << >> = {}
  OBVIOUS
<1>3. art'.snap = << >> /\ \A c \in Children : art'.rollup[c] = "none"
  BY <1>1 DEF NoArtifacts, AbsentStatus
<1>4. par'.step = "load_parent_issue"
  BY <1>1 DEF FreshParent
<1>5. SnapInv'
  BY <1>2, <1>3, <1>4 DEF SnapInv, Judged, Selected
<1>6. ClosedInv'
  BY <1>1, <1>4 DEF ClosedInv
<1> QED
  BY <1>5, <1>6 DEF SnapClosed

LEMMA Snap_parent == ASSUME BaseInv, SnapClosed, ParentStep PROVE SnapClosed'
BY Snap_load, Snap_discover, Snap_classify, Snap_order, Snap_select, Snap_launch, Snap_claim,
   Snap_phase, Snap_finish, Snap_wait, Snap_evaluate, Snap_close, Snap_mode, Snap_new
   DEF ParentStep

-----------------------------------------------------------------------------
(* What was found settled stays so                                           *)

LEMMA SettledKept ==
    ASSUME NEW c, SettledChild(c), pr'[c] = "merged", issue'[c] = "closed",
           active_child_lease_blocks_parent(lease'[c]) =>
              /\ active_child_lease_blocks_parent(lease[c])
              /\ lease'[c].run_id = lease[c].run_id
              /\ run'[c][lease[c].run_id].by = run[c][lease[c].run_id].by
    PROVE  SettledChild(c)'
BY DEF SettledChild

\* The status of a run does not say who launched it.
LEMMA SameBy ==
    ASSUME BaseInv, NEW c \in Children, NEW n \in Runs(c), NEW s \in Statuses,
           run' = WithStatus(run, c, n, s)
    PROVE  /\ \A m \in Runs(c) : run'[c][m].by = run[c][m].by
           /\ \A d \in Children : d # c => run'[d] = run[d]
<1>1. IsRuns(run)
  BY OldRow
<1> QED
  BY <1>1, SetStatus

LEMMA NewLease ==
    ASSUME BaseInv, NEW c \in Children, NEW row, lease' = [lease EXCEPT ![c] = row]
    PROVE  lease'[c] = row /\ \A d \in Children : d # c => lease'[d] = lease[d]
BY DEF BaseInv, TypeInv

\* A lease that is taken up is taken up by the daemon, or for the run it had.
LEMMA DaemonSettled ==
    ASSUME BaseInv, NEW c \in Children, NEW d \in Children, SettledChild(d),
           \/ claim_and_launch(c) \/ collect_resume_units(c) \/ apply_poll_decision(c) \/ Age(c)
           \/ complete_merge(c)
           \/ \E n \in Runs(c) : finish_lease_after_result(Execution(c, n, "daemon"))
    PROVE  SettledChild(d)'
<1>0. UNCHANGED <<pr, issue>> /\ pr[d] = "merged" /\ issue[d] = "closed"
  BY DEF claim_and_launch, collect_resume_units, apply_poll_decision, Age, complete_merge,
         finish_lease_after_result, github, SettledChild
<1>1. CASE UNCHANGED <<lease, run>>
  BY <1>0, <1>1, SettledKept
<1>2. ASSUME NEW row, lease' = [lease EXCEPT ![c] = row],
             \A e \in Children : e # c => run'[e] = run[e],
             active_child_lease_blocks_parent(row) =>
                /\ active_child_lease_blocks_parent(lease[c]) /\ row.run_id = lease[c].run_id
                /\ lease[c].run_id # NoRun =>
                      run'[c][lease[c].run_id].by = run[c][lease[c].run_id].by
      PROVE  SettledChild(d)'
  <2>1. lease'[c] = row /\ \A e \in Children : e # c => lease'[e] = lease[e]
    BY <1>2, NewLease
  <2>2. CASE d # c
    BY <1>0, <1>2, <2>1, <2>2, SettledKept
  <2>3. CASE d = c
    <3>1. active_child_lease_blocks_parent(lease[c]) => lease[c].run_id # NoRun
      BY <2>3 DEF SettledChild
    <3> QED
      BY <1>0, <1>2, <2>1, <2>3, <3>1, SettledKept
  <2> QED
    BY <2>2, <2>3
<1>3. CASE claim_and_launch(c)
  <2> DEFINE n == Cardinality(Minted(c)) + 1
             v == [status |-> "running", by |-> "daemon"]
             row == ToRunning(try_claim(lease[c]), n)
  <2>1. CASE /\ claim_wins(lease[c]) /\ n \in Runs(c)
             /\ lease' = [lease EXCEPT ![c] = row] /\ run' = WithRow(run, c, n, v)
    <3>1. IsRuns(run) /\ v \in RunState /\ v.by = "daemon"
      BY OldRow DEF RunState, Statuses
    <3>2. n \in Nat /\ n # NoRun /\ lease[c] \in IssueLease
      BY <2>1, Numbers, OldRow
    <3>2a. try_claim(lease[c]) \in IssueLease
      BY <2>1, <3>2, ClaimedRow
    <3>2b. n \in Nat
      BY <3>2
    <3>3. row.run_id = n
      BY <3>2a, <3>2b, RunningRow
    <3>4. n \in Runs(c) /\ run' = WithRow(run, c, n, v) /\ lease' = [lease EXCEPT ![c] = row]
      BY <2>1
    <3> HIDE DEF row, n, v
    <3>5. run'[c][n] = v /\ \A e \in Children : e # c => run'[e] = run[e]
      BY <3>1, <3>4, SetRun
    <3>6. lease'[c] = row /\ \A e \in Children : e # c => lease'[e] = lease[e]
      BY <3>4, NewLease
    <3>7. CASE d # c
      BY <1>0, <3>5, <3>6, <3>7, SettledKept
    <3>8. CASE d = c
      BY <1>0, <3>1, <3>2, <3>3, <3>5, <3>6, <3>8 DEF SettledChild
    <3> QED
      BY <3>7, <3>8
  <2> QED
    BY <1>1, <1>3, <2>1 DEF claim_and_launch, WithRow
<1>4. CASE collect_resume_units(c)
  <2> DEFINE n == lease[c].run_id
  <2>1. /\ lease[c].status = "ready_to_resume" /\ lease' = [lease EXCEPT ![c] = ToRunning(@, n)]
        /\ run' = WithStatus(run, c, n, "running")
    BY <1>4 DEF collect_resume_units, WithStatus
  <2>2. n \in Runs(c) /\ lease[c] \in IssueLease
    BY <2>1, OldRow
  <2>2a. n \in Nat /\ "running" \in Statuses
    BY <2>2, Numbers DEF Statuses
  <2>3. ToRunning(lease[c], n).run_id = n
    BY <2>2, <2>2a, RunningRow
  <2>4. /\ \A m \in Runs(c) : run'[c][m].by = run[c][m].by
        /\ \A e \in Children : e # c => run'[e] = run[e]
    BY <2>1, <2>2, <2>2a, SameBy
  <2> QED
    BY <1>2, <2>1, <2>2, <2>3, <2>4 DEF active_child_lease_blocks_parent
<1>5. CASE apply_poll_decision(c)
  <2> DEFINE n == lease[c].run_id
  <2>1. PICK s \in {"ready_to_resume", "failed"} :
            /\ lease' = [lease EXCEPT ![c] = Marked(lease[c], s)] /\ run' = WithStatus(run, c, n, s)
            /\ s = "ready_to_resume" => lease[c].status \in {"waiting_external", "ready_to_resume"}
            /\ n \in Runs(c)
    BY <1>5, Polled
  <2>2. s \in LeaseStatus /\ lease[c] \in IssueLease
    BY OldRow DEF LeaseStatus
  <2>2a. s \in Statuses
    BY DEF Statuses
  <2>3. Marked(lease[c], s).status = s /\ Marked(lease[c], s).run_id = n
    BY <2>2, MarkedRow
  <2>4. /\ \A m \in Runs(c) : run'[c][m].by = run[c][m].by
        /\ \A e \in Children : e # c => run'[e] = run[e]
    BY <2>1, <2>2a, SameBy
  <2> QED
    BY <1>2, <2>1, <2>3, <2>4 DEF active_child_lease_blocks_parent
<1>6. CASE Age(c)
  <2>1. lease' = [lease EXCEPT ![c] = Aged(lease[c])] /\ run' = run
    BY <1>6 DEF Age, Aged, BaseInv, TypeInv
  <2>2. "failed" \in LeaseStatus /\ lease[c] \in IssueLease
    BY OldRow DEF LeaseStatus
  <2>3. Aged(lease[c]).status = lease[c].status /\ Aged(lease[c]).run_id = lease[c].run_id
    BY <2>2, MarkedRow
  <2> QED
    BY <1>2, <2>1, <2>3 DEF active_child_lease_blocks_parent
<1>7. CASE complete_merge(c)
  <2>1. PICK n \in Runs(c) : run' = WithStatus(run, c, n, "merged")
    BY <1>7 DEF complete_merge, WithStatus
  <2>2. "merged" \in Statuses
    BY DEF Statuses
  <2>3. /\ \A m \in Runs(c) : run'[c][m].by = run[c][m].by
        /\ \A e \in Children : e # c => run'[e] = run[e]
    BY <2>1, <2>2, SameBy
  <2>4. lease' = lease
    BY <1>7 DEF complete_merge
  <2>5. lease' = [lease EXCEPT ![c] = lease[c]]
    BY <2>4 DEF BaseInv, TypeInv
  <2>6. lease[c].run_id \in {NoRun} \cup Runs(c)
    BY OldRow
  <2> QED
    BY <1>2, <2>3, <2>5, <2>6
<1>8. CASE \E n \in Runs(c) : finish_lease_after_result(Execution(c, n, "daemon"))
  <2>1. PICK n \in Runs(c) : finish_lease_after_result(Execution(c, n, "daemon"))
    BY <1>8
  <2>2. Execution(c, n, "daemon").child = c /\ Execution(c, n, "daemon").run = n
    BY OneExecution
  <2>3. PICK s \in Endings(c) :
          /\ run' = WithStatus(run, c, n, s)
          /\ lease' = [lease EXCEPT ![c] = update_lease_status_conditional(@, @.lease_id,
                           daemon_finish(s), {"running"}, NoRun, {n})]
    BY <2>1, <2>2 DEF finish_lease_after_result, WithStatus
  <2> DEFINE row == update_lease_status_conditional(lease[c], lease[c].lease_id,
                           daemon_finish(s), {"running"}, NoRun, {n})
  <2>4. lease' = [lease EXCEPT ![c] = row] /\ run' = WithStatus(run, c, n, s)
    BY <2>3
  <2>5. lease[c] \in IssueLease /\ lease[c].run_id \in {NoRun} \cup Runs(c)
    BY OldRow
  <2>5a. lease[c] \in IssueLease
    BY <2>5
  <2>6. row.run_id = lease[c].run_id /\ (row = lease[c] \/ lease[c].status = "running")
    <3>1. /\ row \in IssueLease /\ row.run_id = lease[c].run_id /\ row.lease_id = lease[c].lease_id
          /\ \/ row = lease[c]
             \/ /\ lease[c].status = "running" /\ lease[c].run_id = n
                /\ row.status \in {"completed", "cleanup_abandoned", "waiting_external", "failed"}
      BY <2>5a, DaemonRow
    <3> QED
      BY <3>1
  <2>7. s \in Statuses
    BY EndingStatuses
  <2> HIDE DEF row
  <2>8. /\ \A m \in Runs(c) : run'[c][m].by = run[c][m].by
        /\ \A e \in Children : e # c => run'[e] = run[e]
    BY <2>4, <2>7, SameBy
  <2> QED
    BY <1>2, <2>4, <2>5, <2>6, <2>8 DEF active_child_lease_blocks_parent
<1> QED
  BY <1>3, <1>4, <1>5, <1>6, <1>7, <1>8

\* A merge is final, and so is the issue it closed.
LEMMA OutsideSettled ==
    ASSUME BaseInv, NEW c \in Children,
           \/ discover(c) \/ child_opens_pr(c) \/ human_merges(c) \/ human_closes(c)
           \/ human_adds_subissue(c),
           NEW d \in Children, pr[d] = "merged", issue[d] = "closed"
    PROVE  pr'[d] = "merged" /\ issue'[d] = "closed"
BY DEF discover, child_opens_pr, human_merges, human_closes, human_adds_subissue, github,
       BaseInv, TypeInv

\* A step of another actor, in which nothing that was settled comes undone.
LEMMA SnapOther ==
    ASSUME BaseInv, SnapClosed, UNCHANGED <<par, art, pissue>>,
           \A d \in Children : pr[d] = "merged" /\ issue[d] = "closed" =>
              pr'[d] = "merged" /\ issue'[d] = "closed",
           \A d \in Children : SettledChild(d) => SettledChild(d)'
    PROVE  SnapClosed'
<1>1. DOMAIN art.snap \subseteq Children /\ art.children \subseteq Children
  BY SnapTypes DEF BaseInv
<1>2. SnapInv'
  BY <1>1 DEF SnapClosed, SnapInv
<1>3. Settled => Settled'
  BY <1>1 DEF Settled
<1>4. ClosedInv'
  BY <1>3 DEF SnapClosed, ClosedInv
<1> QED
  BY <1>2, <1>4 DEF SnapClosed

LEMMA SnapNext == BaseInv /\ SnapClosed /\ [Next]_vars => SnapClosed'
<1> SUFFICES ASSUME BaseInv, SnapClosed, [Next]_vars PROVE SnapClosed'
  OBVIOUS
<1>1. CASE UNCHANGED vars
  <2>1. UNCHANGED <<par, art, pissue, pr, issue, lease, run>>
    BY <1>1 DEF vars
  <2>2. \A d \in Children : SettledChild(d) => SettledChild(d)'
    BY <2>1 DEF SettledChild
  <2> QED
    BY <2>1, <2>2, SnapOther
<1>2. CASE ParentStep
  BY <1>2, Snap_parent
<1>3. CASE recover_stale_leases
  <2>1. /\ UNCHANGED <<par, art, pissue, pr, issue, run>>
        /\ lease' = [c \in Children |-> recover_stale(lease[c])]
    BY <1>3 DEF recover_stale_leases, github
  <2>2. ASSUME NEW d \in Children, SettledChild(d) PROVE SettledChild(d)'
    <3>1. lease[d] \in IssueLease
      BY OldRow
    <3>2. lease'[d] = lease[d] \/ lease'[d].status = "stale"
      BY <2>1, <3>1, StaleRow
    <3>3. pr'[d] = "merged" /\ issue'[d] = "closed"
      BY <2>1, <2>2 DEF SettledChild
    <3> QED
      BY <2>1, <2>2, <3>2, <3>3, SettledKept DEF active_child_lease_blocks_parent
  <2> QED
    BY <2>1, <2>2, SnapOther
<1>4. ASSUME NEW c \in Children, ChildStep(c) PROVE SnapClosed'
  <2>1. CASE \/ discover(c) \/ child_opens_pr(c) \/ human_merges(c) \/ human_closes(c)
             \/ human_adds_subissue(c)
    <3>1. UNCHANGED <<par, art, pissue, lease, run>>
      BY <2>1 DEF discover, child_opens_pr, human_merges, human_closes, human_adds_subissue, github
    <3>2. \A d \in Children : pr[d] = "merged" /\ issue[d] = "closed" =>
              pr'[d] = "merged" /\ issue'[d] = "closed"
      BY <2>1, OutsideSettled
    <3>3. \A d \in Children : SettledChild(d) => SettledChild(d)'
      BY <3>1, <3>2 DEF SettledChild
    <3> QED
      BY <3>1, <3>2, <3>3, SnapOther
  <2>2. CASE \/ claim_and_launch(c) \/ collect_resume_units(c) \/ apply_poll_decision(c) \/ Age(c)
             \/ complete_merge(c)
             \/ \E n \in Runs(c) : finish_lease_after_result(Execution(c, n, "daemon"))
    <3>1. UNCHANGED <<par, art, pissue, pr, issue>>
      BY <2>2 DEF claim_and_launch, collect_resume_units, apply_poll_decision, Age, complete_merge,
                  finish_lease_after_result, github
    <3>2. \A d \in Children : SettledChild(d) => SettledChild(d)'
      BY <2>2, DaemonSettled
    <3> QED
      BY <3>1, <3>2, SnapOther
  <2> QED
    BY <1>4, <2>1, <2>2 DEF ChildStep
<1> QED
  BY <1>1, <1>2, <1>3, <1>4 DEF Next

\* The evidence a report rests on does not go stale between evaluation and
\* report, nor later: whatever the snapshot calls merged is merged, and a lease
\* the evaluation found idle is taken up again by the daemon only
\* (completion.rs: evaluate_parent_completion, close_or_report_parent).
THEOREM EvidenceStays == Spec => [](SnapInv /\ ClosedInv)
<1>1. Init => SnapClosed
  BY InitSnap DEF SnapClosed
<1>2. Spec => []SnapClosed
  BY <1>1, SnapNext, ParentInvariant, PTL DEF Spec
<1> QED
  BY <1>2, PTL DEF SnapClosed

\* The parent issue is closed only when every child of the last discovery is
\* closed with a merged pull request, and no run the parent launched for one of
\* them is still under way (completion.rs: close_or_report_parent), whose lease
\* was never given back under a parked run.
THEOREM ClosedParentIsMerged == Spec => []ParentClosedIsMerged
<1>1. BaseInv /\ ExclusiveInv /\ ClosedInv => ParentClosedIsMerged
  <2> SUFFICES ASSUME BaseInv, ExclusiveInv, ClosedInv, pissue = "closed", NEW c \in art.children
      PROVE  /\ pr[c] = "merged" /\ issue[c] = "closed"
             /\ c \notin returned => \A e \in exec : e.child = c => run[c][e.run].by # "parent"
    BY DEF ParentClosedIsMerged
  <2>1. SettledChild(c)
    BY DEF ClosedInv, Settled
  <2>2. c \notin returned => ChildOK(c)
    BY SnapTypes DEF BaseInv, ExclusiveInv
  <2> QED
    BY <2>1, <2>2 DEF SettledChild, ChildOK, Working, active_child_lease_blocks_parent
<1> QED
  BY <1>1, ParentInvariant, ExclusiveInvariant, EvidenceStays, PTL
=============================================================================
