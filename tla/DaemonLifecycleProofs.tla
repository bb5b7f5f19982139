------------------------ MODULE DaemonLifecycleProofs ------------------------
(***************************************************************************)
(* Proofs about DaemonLifecycle, for any number of daemons and issues, any *)
(* bounds and any limits.                                                  *)
(***************************************************************************)
EXTENDS DaemonLifecycle, TLAPS

----------------------------------------------------------------------------
(* The typing invariant.  TypeOK alone is not inductive: that a listed item *)
(* names a run needs the range of the row it was listed from.               *)

\* A lease row never names a claim beyond those made, and only the row of an
\* unclaimed issue has no lease id.
RowOK(row) ==
    /\ row \in IssueLease
    /\ row.lease_id <= MaxClaims
    /\ row.run_id <= MaxClaims
    /\ row.lease_id = NoLease => row.status = "absent"

\* What the current phase of a daemon may have listed.
TodoOK(d) ==
    /\ pass[d] \in {"resume", "launch"} => todo[d] \subseteq ItemType
    /\ pass[d] = "poll" => todo[d] \subseteq PollItemType
    /\ pass[d] = "reconcile" => todo[d] \subseteq CleanupItemType

TodoItem == ItemType \cup PollItemType \cup CleanupItemType

WaitRow == [sid : Nat, lease_id : Nat, polls : Nat]

TypeInv ==
    /\ TypeOK
    /\ \A i \in Issues : RowOK(lease[i])
    /\ \A d \in Daemons : TodoOK(d)

\* A conditional update of a good row is a good row, with the same lease id.
LEMMA CasRow ==
    ASSUME NEW row, RowOK(row), NEW id, NEW s \in LeaseStatus, NEW expected,
           "absent" \notin expected, NEW r \in Nat, r <= MaxClaims, NEW owners
    PROVE  /\ RowOK(update_lease_status_conditional(row, id, s, expected, r, owners))
           /\ update_lease_status_conditional(row, id, s, expected, r, owners).lease_id
                = row.lease_id
  BY DEF RowOK, update_lease_status_conditional, cas_applies, IssueLease

\* The other statements of the lease store keep a row good as well.
LEMMA StaleRow ==
    ASSUME NEW row, RowOK(row)
    PROVE  RowOK(recover_stale(row)) /\ recover_stale(row).lease_id = row.lease_id
  BY DEF RowOK, recover_stale, IssueLease, is_active, LeaseStatus

LEMMA OverdueRow ==
    ASSUME NEW row, RowOK(row)
    PROVE  /\ RowOK([row EXCEPT !.overdue = TRUE])
           /\ [row EXCEPT !.overdue = TRUE].lease_id = row.lease_id
  BY DEF RowOK, IssueLease

LEMMA HeartbeatRow ==
    ASSUME NEW row, RowOK(row), NEW id, NEW r
    PROVE  /\ RowOK(touch_owned_running_lease_heartbeat(row, id, r))
           /\ touch_owned_running_lease_heartbeat(row, id, r).lease_id = row.lease_id
  BY DEF RowOK, touch_owned_running_lease_heartbeat, cas_applies, IssueLease

LEMMA AbandonRow ==
    ASSUME NEW row, RowOK(row), NEW n \in Claims
    PROVE  /\ RowOK(update_lease_status(row, n, "abandoned"))
           /\ update_lease_status(row, n, "abandoned").lease_id = row.lease_id
  BY DEF RowOK, update_lease_status, IssueLease, LeaseStatus, Claims, NoLease

LEMMA ClaimRow ==
    ASSUME NEW row, RowOK(row), row.lease_id + 1 <= MaxClaims, MaxClaims \in Nat
    PROVE  /\ RowOK(try_claim(row))
           /\ try_claim(row).lease_id =
                IF claim_wins(row) THEN row.lease_id + 1 ELSE row.lease_id
  BY DEF RowOK, try_claim, IssueLease, LeaseStatus, NoLease, NoRun

\* Writing a receipt changes neither the lease id nor the status.
LEMMA ReceiptRow ==
    ASSUME NEW row, RowOK(row), NEW id, NEW pending \in BOOLEAN
    PROVE  /\ RowOK(upsert_claim_metadata(row, id, pending))
           /\ upsert_claim_metadata(row, id, pending).lease_id = row.lease_id
           /\ upsert_claim_metadata(row, id, pending).status = row.status
           /\ row.lease_id # id => upsert_claim_metadata(row, id, pending) = row
  BY DEF RowOK, upsert_claim_metadata, IssueLease

LEMMA InitRow == MaxClaims \in Nat => RowOK(AbsentRow)
  BY DEF RowOK, AbsentRow, IssueLease, NoLease, NoRun

\* Updates of the nested maps keep their type.
LEMMA StageType ==
    ASSUME NEW f \in [Daemons -> [Issues -> [Claims -> Stage]]],
           NEW d, NEW i, NEW n, NEW s \in Stage
    PROVE  [f EXCEPT ![d][i][n] = s] \in [Daemons -> [Issues -> [Claims -> Stage]]]
  OBVIOUS

LEMMA StageRow ==
    ASSUME NEW f \in [Daemons -> [Issues -> [Claims -> Stage]]], NEW d,
           NEW g \in [Issues -> [Claims -> Stage]]
    PROVE  [f EXCEPT ![d] = g] \in [Daemons -> [Issues -> [Claims -> Stage]]]
  OBVIOUS

LEMMA RunType ==
    ASSUME NEW f \in [Issues -> [Claims -> RunStatus]], NEW i, NEW n, NEW s \in RunStatus
    PROVE  [f EXCEPT ![i][n] = s] \in [Issues -> [Claims -> RunStatus]]
  OBVIOUS

LEMMA LeaseUpdate ==
    ASSUME NEW f \in [Issues -> IssueLease], \A i \in Issues : RowOK(f[i]),
           NEW j, NEW row, RowOK(row)
    PROVE  /\ [f EXCEPT ![j] = row] \in [Issues -> IssueLease]
           /\ \A i \in Issues : RowOK([f EXCEPT ![j] = row][i])
  BY DEF RowOK

LEMMA TypeInit == Init => TypeInv
<1>. SUFFICES ASSUME Init PROVE TypeInv
  OBVIOUS
<1>1. MaxClaims \in Nat
  BY LifecycleAssumption
<1>2. \A i \in Issues : RowOK(lease[i])
  BY <1>1, InitRow DEF Init
<1>3. TypeOK
  BY <1>2 DEF Init, TypeOK, RowOK, RunStatus, Phase, Stage, NoWait, NoLease
<1>4. \A d \in Daemons : TodoOK(d)
  BY DEF Init, TodoOK
<1>. QED  BY <1>2, <1>3, <1>4 DEF TypeInv

\* A step that rewrites one lease row and the stage of one unit.
LEMMA ClaimTypes ==
    ASSUME TypeInv, NEW d \in Daemons, NEW i \in Issues, NEW n \in Claims,
           NEW s \in Stage, SetStage(d, i, n, s),
           NEW row, RowOK(row), SetLease(i, row),
           UNCHANGED <<run, wait, sids, pass, todo, admitted, queue, chunk, crashes>>
    PROVE  TypeInv'
<1>1. /\ lease' \in [Issues -> IssueLease]
      /\ \A j \in Issues : RowOK(lease'[j])
  BY LeaseUpdate DEF TypeInv, TypeOK, SetLease
<1>2. stage' \in [Daemons -> [Issues -> [Claims -> Stage]]]
  BY StageType DEF TypeInv, TypeOK, SetStage
<1>3. TypeOK'
  BY <1>1, <1>2 DEF TypeInv, TypeOK
<1>4. \A e \in Daemons : TodoOK(e)'
  BY DEF TypeInv, TodoOK
<1>. QED  BY <1>1, <1>3, <1>4 DEF TypeInv

\* A step that takes a lease and queues its unit.
LEMMA EnqueueTypes ==
    ASSUME TypeInv, NEW d \in Daemons, NEW i \in Issues, NEW n \in Claims, NEW resume \in BOOLEAN,
           "queued" \in Stage, SetStage(d, i, n, "queued"),
           Enqueue(d, DispatchUnit(i, n, resume)),
           NEW row, RowOK(row), SetLease(i, row),
           todo' \in [Daemons -> SUBSET TodoItem], \A e \in Daemons : TodoOK(e)',
           admitted' \in [Daemons -> SUBSET ItemType],
           UNCHANGED <<run, wait, sids, pass, chunk, crashes>>
    PROVE  TypeInv'
<1>1. /\ lease' \in [Issues -> IssueLease]
      /\ \A j \in Issues : RowOK(lease'[j])
  BY LeaseUpdate DEF TypeInv, TypeOK, SetLease
<1>2. stage' \in [Daemons -> [Issues -> [Claims -> Stage]]]
  BY StageType DEF TypeInv, TypeOK, SetStage
<1>3. queue' \in [Daemons -> Seq(Unit)]
  <2>1. queue \in [Daemons -> Seq(Unit)] /\ DispatchUnit(i, n, resume) \in Unit
    BY DEF TypeInv, TypeOK, DispatchUnit, Unit
  <2>2. Append(queue[d], DispatchUnit(i, n, resume)) \in Seq(Unit)
    BY <2>1
  <2>. QED  BY <2>1, <2>2 DEF Enqueue
<1>4. TypeOK'
  BY <1>1, <1>2, <1>3 DEF TypeInv, TypeOK, TodoItem
<1>. QED  BY <1>1, <1>4 DEF TypeInv

\* What a step that forgets its daemon's units leaves behind.
LEMMA DropTypes ==
    ASSUME TypeInv, NEW d \in Daemons, DropUnits(d)
    PROVE  /\ stage' \in [Daemons -> [Issues -> [Claims -> Stage]]]
           /\ todo' \in [Daemons -> SUBSET TodoItem]
           /\ admitted' \in [Daemons -> SUBSET ItemType]
           /\ queue' \in [Daemons -> Seq(Unit)]
           /\ chunk' \in [Daemons -> Seq(Unit)]
<1>1. stage' \in [Daemons -> [Issues -> [Claims -> Stage]]]
  BY DEF DropUnits, TypeInv, TypeOK, Stage
<1>2. /\ todo' \in [Daemons -> SUBSET TodoItem]
      /\ admitted' \in [Daemons -> SUBSET ItemType]
  BY DEF DropUnits, TypeInv, TypeOK, TodoItem
<1>3. <<>> \in Seq(Unit)
  OBVIOUS
<1>4. queue \in [Daemons -> Seq(Unit)] /\ chunk \in [Daemons -> Seq(Unit)]
  BY DEF TypeInv, TypeOK
<1>. QED  BY <1>1, <1>2, <1>3, <1>4 DEF DropUnits

LEMMA AbortTypes ==
    ASSUME TypeInv, NEW d \in Daemons, AbortPass(d),
           NEW i \in Issues, NEW row, RowOK(row), SetLease(i, row),
           UNCHANGED <<run, wait, sids, crashes>>
    PROVE  TypeInv'
<1>1. /\ lease' \in [Issues -> IssueLease]
      /\ \A j \in Issues : RowOK(lease'[j])
  BY LeaseUpdate DEF TypeInv, TypeOK, SetLease
<1>2. pass' \in [Daemons -> Phase]
  BY DEF TypeInv, TypeOK, Phase, AbortPass
<1>3. TypeOK'
  BY <1>1, <1>2, DropTypes DEF TypeInv, TypeOK, TodoItem, AbortPass
<1>4. \A e \in Daemons : TodoOK(e)'
  BY DEF TypeInv, TypeOK, TodoOK, DropUnits, AbortPass
<1>. QED  BY <1>1, <1>3, <1>4 DEF TypeInv

\* A step that rewrites a lease row and retires the head of a chunk.
LEMMA RetireTypes ==
    ASSUME TypeInv, NEW d \in Daemons, chunk[d] # <<>>, NEW fails \in BOOLEAN, Retire(d, fails),
           NEW i \in Issues, NEW row, RowOK(row), SetLease(i, row),
           UNCHANGED <<run, wait, sids, pass, todo, admitted, crashes>>
    PROVE  TypeInv'
<1>1. /\ lease' \in [Issues -> IssueLease]
      /\ \A j \in Issues : RowOK(lease'[j])
  BY LeaseUpdate DEF TypeInv, TypeOK, SetLease
<1>2. queue \in [Daemons -> Seq(Unit)] /\ chunk \in [Daemons -> Seq(Unit)]
  BY DEF TypeInv, TypeOK
<1>3. Tail(chunk[d]) \in Seq(Unit) /\ <<>> \in Seq(Unit)
  <2>1. chunk[d] \in Seq(Unit)
    BY <1>2
  <2>. HIDE DEF Unit
  <2>. QED  BY <2>1
<1>4. queue' \in [Daemons -> Seq(Unit)] /\ chunk' \in [Daemons -> Seq(Unit)]
  <2>1. chunk' = [chunk EXCEPT ![d] = Tail(chunk[d])]
    BY DEF Retire
  <2>2. queue' = queue \/ queue' = [queue EXCEPT ![d] = <<>>]
    BY <1>2 DEF Retire
  <2>. QED  BY <1>2, <1>3, <2>1, <2>2
<1>5. stage' \in [Daemons -> [Issues -> [Claims -> Stage]]]
  <2>1. PICK done : stage' = [stage EXCEPT ![d] =
             [j \in Issues |-> [m \in Claims |->
                 IF <<j, m>> \in done THEN "none" ELSE stage[d][j][m]]]]
    <3>. DEFINE u == Head(chunk[d])
                done == {p \in Issues \X Claims :
                            \/ p[1] = u.issue /\ p[2] = u.run
                            \/ fails /\ stage[d][p[1]][p[2]] = "queued"}
    <3>. WITNESS done
    <3>. QED  BY DEF Retire
  <2>2. "none" \in Stage
    BY DEF Stage
  <2>. QED  BY <2>1, <2>2, StageRow DEF TypeInv, TypeOK
<1>6. TypeOK'
  BY <1>1, <1>4, <1>5 DEF TypeInv, TypeOK
<1>7. \A e \in Daemons : TodoOK(e)'
  BY DEF TypeInv, TodoOK
<1>. QED  BY <1>1, <1>6, <1>7 DEF TypeInv

\* The head of a chunk names an issue and a claim.
LEMMA HeadUnit ==
    ASSUME TypeOK, NEW d \in Daemons, chunk[d] # <<>>
    PROVE  /\ Head(chunk[d]).issue \in Issues
           /\ Head(chunk[d]).run \in Claims
<1>1. chunk[d] \in Seq(Unit)
  BY DEF TypeOK
<1>2. Head(chunk[d]) \in Unit
  <2>. HIDE DEF Unit
  <2>. QED  BY <1>1
<1>. QED  BY <1>2 DEF Unit

\* Every step keeps the typing invariant.
LEMMA TypeNext == TypeInv /\ [Next]_vars => TypeInv'
<1>. SUFFICES ASSUME TypeInv, [Next]_vars PROVE TypeInv'
  OBVIOUS
<1>. USE LifecycleAssumption
<1>a. TypeOK /\ (\A i \in Issues : RowOK(lease[i])) /\ (\A d \in Daemons : TodoOK(d))
  BY DEF TypeInv
<1>t. /\ "abandoned" \in LeaseStatus /\ "running" \in LeaseStatus
      /\ "ready_to_resume" \in LeaseStatus /\ "failed" \in LeaseStatus
      /\ "waiting_external" \in LeaseStatus /\ "cleanup_abandoned" \in LeaseStatus
      /\ "completed" \in LeaseStatus /\ "pending" \in LeaseStatus
  BY DEF LeaseStatus
<1>0. \A n \in Claims : n \in Nat /\ n <= MaxClaims /\ n # 0
  BY DEF Claims
<1>n. NoRun \in Nat /\ NoRun <= MaxClaims
  BY DEF NoRun
<1>1. ASSUME NEW d \in Daemons, NEW i \in Issues, NEW n \in Claims, start_run(d, i, n)
      PROVE  TypeInv'
  <2>1. /\ lease' \in [Issues -> IssueLease]
        /\ \A j \in Issues : RowOK(lease'[j])
    BY <1>a, <1>1 DEF start_run, TypeOK, dbVars
  <2>s. stage' \in [Daemons -> [Issues -> [Claims -> Stage]]]
    BY <1>a, <1>1 DEF start_run, TypeOK, SetStage, Stage, InThread, Returned, Prepared, unitVars
  <2>r. run' \in [Issues -> [Claims -> RunStatus]]
    BY <1>a, <1>1 DEF start_run, TypeOK, SetRun, RunStatus, dbVars
  <2>2. TypeOK'
    BY <1>a, <1>1, <2>1, <2>s, <2>r DEF start_run, TypeOK, dbVars, unitVars
  <2>3. \A e \in Daemons : TodoOK(e)'
    BY <1>a, <1>1 DEF start_run, TodoOK
  <2>. QED  BY <2>1, <2>2, <2>3 DEF TypeInv
<1>r. ASSUME NEW d \in Daemons, NEW i \in Issues, NEW n \in Claims, replay_recovery(d, i, n)
      PROVE  TypeInv'
  <2>1. /\ lease' \in [Issues -> IssueLease]
        /\ \A j \in Issues : RowOK(lease'[j])
    BY <1>a, <1>r DEF replay_recovery, TypeOK, dbVars
  <2>s. stage' \in [Daemons -> [Issues -> [Claims -> Stage]]]
    BY <1>a, <1>r DEF replay_recovery, TypeOK, SetStage, Stage, InThread, Returned, Prepared
  <2>2. TypeOK'
    BY <1>a, <1>r, <2>1, <2>s DEF replay_recovery, TypeOK, dbVars, unitVars
  <2>3. \A e \in Daemons : TodoOK(e)'
    BY <1>a, <1>r DEF replay_recovery, TodoOK
  <2>. QED  BY <2>1, <2>2, <2>3 DEF TypeInv
<1>2. ASSUME NEW d \in Daemons, NEW i \in Issues, NEW n \in Claims, heartbeat_owned_lease(d, i, n)
      PROVE  TypeInv'
  <2>1. /\ lease' \in [Issues -> IssueLease]
        /\ \A j \in Issues : RowOK(lease'[j])
    <3>1. RowOK(touch_owned_running_lease_heartbeat(lease[i], lease[i].lease_id, n))
      BY <1>a, <1>t, <1>n, <1>0, HeartbeatRow
    <3>. QED  BY <1>a, <1>2, <3>1, LeaseUpdate DEF heartbeat_owned_lease, TypeOK, SetLease
  <2>s. stage' \in [Daemons -> [Issues -> [Claims -> Stage]]]
    BY <1>a, <1>2 DEF heartbeat_owned_lease, TypeOK, SetStage, Stage, InThread, Returned, Prepared, unitVars
  <2>r. run' \in [Issues -> [Claims -> RunStatus]]
    BY <1>a, <1>2 DEF heartbeat_owned_lease, TypeOK, SetRun, RunStatus, dbVars
  <2>2. TypeOK'
    BY <1>a, <1>2, <2>1, <2>s, <2>r DEF heartbeat_owned_lease, TypeOK, unitVars
  <2>3. \A e \in Daemons : TodoOK(e)'
    BY <1>a, <1>2 DEF heartbeat_owned_lease, TodoOK
  <2>. QED  BY <2>1, <2>2, <2>3 DEF TypeInv
<1>3. ASSUME NEW d \in Daemons, NEW i \in Issues, NEW n \in Claims, finish_run(d, i, n)
      PROVE  TypeInv'
  <2>1. /\ lease' \in [Issues -> IssueLease]
        /\ \A j \in Issues : RowOK(lease'[j])
    BY <1>a, <1>3 DEF finish_run, TypeOK, dbVars
  <2>s. stage' \in [Daemons -> [Issues -> [Claims -> Stage]]]
    BY <1>a, <1>3 DEF finish_run, TypeOK, SetStage, Stage, InThread, Returned, Prepared, unitVars
  <2>r. run' \in [Issues -> [Claims -> RunStatus]]
    BY <1>a, <1>3 DEF finish_run, TypeOK, SetRun, RunStatus, dbVars
  <2>2. TypeOK'
    BY <1>a, <1>3, <2>1, <2>s, <2>r DEF finish_run, TypeOK, dbVars, unitVars
  <2>3. \A e \in Daemons : TodoOK(e)'
    BY <1>a, <1>3 DEF finish_run, TodoOK
  <2>. QED  BY <2>1, <2>2, <2>3 DEF TypeInv
<1>4. ASSUME NEW d \in Daemons, NEW i \in Issues, NEW n \in Claims, enter_cleanup(d, i, n)
      PROVE  TypeInv'
  <2>1. /\ lease' \in [Issues -> IssueLease]
        /\ \A j \in Issues : RowOK(lease'[j])
    <3>1. RowOK(update_lease_status_conditional(lease[i], lease[i].lease_id,
              "cleanup_abandoned", {"running", "cleanup_abandoned"}, NoRun, {n}))
      BY <1>a, <1>t, <1>n, <1>0, CasRow
    <3>. QED  BY <1>a, <1>4, <3>1, LeaseUpdate DEF enter_cleanup, TypeOK, SetLease
  <2>i. SetStage(d, i, n, "cleaning") \/ SetStage(d, i, n, "error")
    BY <1>4 DEF enter_cleanup
  <2>j. run' = run \/ SetRun(i, n, "abandoned") \/ SetRun(i, n, "failed")
    BY <1>4 DEF enter_cleanup
  <2>s. stage' \in [Daemons -> [Issues -> [Claims -> Stage]]]
    <3>1. CASE SetStage(d, i, n, "cleaning")
      BY <1>a, <3>1 DEF TypeOK, SetStage, Stage, InThread, Returned, Prepared
    <3>2. CASE SetStage(d, i, n, "error")
      BY <1>a, <3>2 DEF TypeOK, SetStage, Stage, InThread, Returned, Prepared
    <3>. QED  BY <2>i, <3>1, <3>2
  <2>r. run' \in [Issues -> [Claims -> RunStatus]]
    <3>1. CASE SetRun(i, n, "abandoned")
      BY <1>a, <3>1 DEF TypeOK, SetRun, RunStatus
    <3>2. CASE SetRun(i, n, "failed")
      BY <1>a, <3>2 DEF TypeOK, SetRun, RunStatus
    <3>. QED  BY <1>a, <2>j, <3>1, <3>2 DEF TypeOK
  <2>2. TypeOK'
    BY <1>a, <1>4, <2>1, <2>s, <2>r DEF enter_cleanup, TypeOK, dbVars, unitVars
  <2>3. \A e \in Daemons : TodoOK(e)'
    BY <1>a, <1>4 DEF enter_cleanup, TodoOK
  <2>. QED  BY <2>1, <2>2, <2>3 DEF TypeInv
<1>5. ASSUME NEW d \in Daemons, NEW i \in Issues, NEW n \in Claims, finish_cleanup(d, i, n)
      PROVE  TypeInv'
  <2>1. /\ lease' \in [Issues -> IssueLease]
        /\ \A j \in Issues : RowOK(lease'[j])
    <3>1. RowOK(update_lease_status_conditional(lease[i], lease[i].lease_id,
              "cleanup_abandoned", {"running", "cleanup_abandoned"}, NoRun, {n}))
      BY <1>a, <1>t, <1>n, <1>0, CasRow
    <3>. QED  BY <1>a, <1>5, <3>1, LeaseUpdate DEF finish_cleanup, TypeOK, SetLease
  <2>i. SetStage(d, i, n, "cleanup") \/ SetStage(d, i, n, "error")
    BY <1>5 DEF finish_cleanup
  <2>j. run' = run \/ SetRun(i, n, "abandoned") \/ SetRun(i, n, "failed")
    BY <1>5 DEF finish_cleanup
  <2>s. stage' \in [Daemons -> [Issues -> [Claims -> Stage]]]
    <3>1. CASE SetStage(d, i, n, "cleanup")
      BY <1>a, <3>1 DEF TypeOK, SetStage, Stage, InThread, Returned, Prepared
    <3>2. CASE SetStage(d, i, n, "error")
      BY <1>a, <3>2 DEF TypeOK, SetStage, Stage, InThread, Returned, Prepared
    <3>. QED  BY <2>i, <3>1, <3>2
  <2>r. run' \in [Issues -> [Claims -> RunStatus]]
    <3>1. CASE SetRun(i, n, "abandoned")
      BY <1>a, <3>1 DEF TypeOK, SetRun, RunStatus
    <3>2. CASE SetRun(i, n, "failed")
      BY <1>a, <3>2 DEF TypeOK, SetRun, RunStatus
    <3>. QED  BY <1>a, <2>j, <3>1, <3>2 DEF TypeOK
  <2>2. TypeOK'
    BY <1>a, <1>5, <2>1, <2>s, <2>r DEF finish_cleanup, TypeOK, dbVars, unitVars
  <2>3. \A e \in Daemons : TodoOK(e)'
    BY <1>a, <1>5 DEF finish_cleanup, TodoOK
  <2>. QED  BY <2>1, <2>2, <2>3 DEF TypeInv
<1>6. ASSUME NEW d \in Daemons, NEW i \in Issues, NEW n \in Claims, deny_ownership(d, i, n)
      PROVE  TypeInv'
  <2>1. /\ lease' \in [Issues -> IssueLease]
        /\ \A j \in Issues : RowOK(lease'[j])
    <3>1. RowOK(update_lease_status_conditional(lease[i], lease[i].lease_id,
              "failed", {"running"}, NoRun, {n}))
      BY <1>a, <1>t, <1>n, <1>0, CasRow
    <3>. QED  BY <1>a, <1>6, <3>1, LeaseUpdate DEF deny_ownership, TypeOK, SetLease
  <2>s. stage' \in [Daemons -> [Issues -> [Claims -> Stage]]]
    BY <1>a, <1>6 DEF deny_ownership, TypeOK, SetStage, Stage, InThread, Returned, Prepared, unitVars
  <2>r. run' \in [Issues -> [Claims -> RunStatus]]
    BY <1>a, <1>6 DEF deny_ownership, TypeOK, SetRun, RunStatus, dbVars
  <2>2. TypeOK'
    BY <1>a, <1>6, <2>1, <2>s, <2>r DEF deny_ownership, TypeOK, dbVars, unitVars
  <2>3. \A e \in Daemons : TodoOK(e)'
    BY <1>a, <1>6 DEF deny_ownership, TodoOK
  <2>. QED  BY <2>1, <2>2, <2>3 DEF TypeInv
<1>7. ASSUME NEW d \in Daemons, NEW i \in Issues, NEW n \in Claims, pause_for_external_wait(d, i, n)
      PROVE  TypeInv'
  <2>1. /\ lease' \in [Issues -> IssueLease]
        /\ \A j \in Issues : RowOK(lease'[j])
    BY <1>a, <1>7 DEF pause_for_external_wait, TypeOK, dbVars
  <2>s. stage' \in [Daemons -> [Issues -> [Claims -> Stage]]]
    BY <1>a, <1>7 DEF pause_for_external_wait, TypeOK, SetStage, Stage, InThread, Returned, Prepared, unitVars
  <2>r. run' \in [Issues -> [Claims -> RunStatus]]
    BY <1>a, <1>7 DEF pause_for_external_wait, TypeOK, SetRun, RunStatus, dbVars
  <2>2. TypeOK'
    BY <1>a, <1>7, <2>1, <2>s, <2>r DEF pause_for_external_wait, TypeOK, dbVars, unitVars
  <2>3. \A e \in Daemons : TodoOK(e)'
    BY <1>a, <1>7 DEF pause_for_external_wait, TodoOK
  <2>. QED  BY <2>1, <2>2, <2>3 DEF TypeInv
<1>8. ASSUME NEW d \in Daemons, NEW i \in Issues, NEW n \in Claims, thread_error(d, i, n)
      PROVE  TypeInv'
  <2>1. /\ lease' \in [Issues -> IssueLease]
        /\ \A j \in Issues : RowOK(lease'[j])
    BY <1>a, <1>8 DEF thread_error, TypeOK, dbVars
  <2>s. stage' \in [Daemons -> [Issues -> [Claims -> Stage]]]
    BY <1>a, <1>8 DEF thread_error, TypeOK, SetStage, Stage, InThread, Returned, Prepared, unitVars
  <2>r. run' \in [Issues -> [Claims -> RunStatus]]
    BY <1>a, <1>8 DEF thread_error, TypeOK, SetRun, RunStatus, dbVars
  <2>2. TypeOK'
    BY <1>a, <1>8, <2>1, <2>s, <2>r DEF thread_error, TypeOK, dbVars, unitVars, dbVars
  <2>3. \A e \in Daemons : TodoOK(e)'
    BY <1>a, <1>8 DEF thread_error, TodoOK
  <2>. QED  BY <2>1, <2>2, <2>3 DEF TypeInv
<1>9. ASSUME NEW d \in Daemons, NEW i \in Issues, NEW n \in Claims, persist_external_wait_state(d, i, n)
      PROVE  TypeInv'
  <2>w. /\ wait' \in [Issues -> [Claims -> WaitRow]]
        /\ sids' \in [Issues -> [Claims -> Nat]]
    BY <1>a, <1>9 DEF persist_external_wait_state, TypeOK, WaitRow, RowOK, IssueLease
  <2>1. /\ lease' \in [Issues -> IssueLease]
        /\ \A j \in Issues : RowOK(lease'[j])
    BY <1>a, <1>9 DEF persist_external_wait_state, TypeOK, dbVars
  <2>s. stage' \in [Daemons -> [Issues -> [Claims -> Stage]]]
    BY <1>a, <1>9 DEF persist_external_wait_state, TypeOK, SetStage, Stage, InThread, Returned, Prepared, unitVars
  <2>r. run' \in [Issues -> [Claims -> RunStatus]]
    BY <1>a, <1>9 DEF persist_external_wait_state, TypeOK, SetRun, RunStatus, dbVars
  <2>2. TypeOK'
    BY <1>a, <1>9, <2>1, <2>s, <2>r, <2>w DEF persist_external_wait_state, TypeOK, dbVars, unitVars, WaitRow
  <2>3. \A e \in Daemons : TodoOK(e)'
    BY <1>a, <1>9 DEF persist_external_wait_state, TodoOK
  <2>. QED  BY <2>1, <2>2, <2>3 DEF TypeInv
<1>q. /\ "none" \in Stage /\ "queued" \in Stage /\ "claimed" \in Stage /\ "cleared" \in Stage
      /\ "announced" \in Stage /\ "marked" \in Stage /\ "abandoning" \in Stage
      /\ "launch_failed" \in Stage /\ "releasing" \in Stage
  BY DEF Stage, Prepared, Claiming, Releasing
<1>10. ASSUME NEW d \in Daemons, NEW i \in Issues, NEW n \in Claims, recheck_capacity(d, i, n)
       PROVE  TypeInv'
  <2>1. /\ lease' \in [Issues -> IssueLease]
        /\ \A j \in Issues : RowOK(lease'[j])
    <3>1. RowOK(update_lease_status(lease[i], n, "abandoned"))
      BY <1>a, AbandonRow
    <3>2. lease' = lease \/ SetLease(i, update_lease_status(lease[i], n, "abandoned"))
      BY <1>10 DEF recheck_capacity
    <3>3. CASE lease' = lease
      BY <1>a, <3>3 DEF TypeOK
    <3>4. CASE SetLease(i, update_lease_status(lease[i], n, "abandoned"))
      BY <1>a, <3>1, <3>4, LeaseUpdate DEF TypeOK, SetLease
    <3>. QED  BY <3>2, <3>3, <3>4
  <2>s. stage' \in [Daemons -> [Issues -> [Claims -> Stage]]]
    <3>1. CASE SetStage(d, i, n, "cleared")
      BY <1>a, <3>1 DEF TypeOK, SetStage, Stage, Prepared, Claiming
    <3>2. CASE SetStage(d, i, n, "none")
      BY <1>a, <3>2 DEF TypeOK, SetStage, Stage
    <3>. QED  BY <1>10, <3>1, <3>2 DEF recheck_capacity
  <2>2. TypeOK'
    BY <1>a, <1>10, <2>1, <2>s DEF recheck_capacity, TypeOK
  <2>3. \A e \in Daemons : TodoOK(e)'
    BY <1>a, <1>10 DEF recheck_capacity, TodoOK
  <2>. QED  BY <2>1, <2>2, <2>3 DEF TypeInv
<1>12. ASSUME NEW d \in Daemons, NEW i \in Issues, NEW n \in Claims, mark_running(d, i, n)
       PROVE  TypeInv'
  <2>1. RowOK(update_lease_status_conditional(lease[i], n, "running", {"claimed"}, n, AnyOwner))
    BY <1>a, <1>0, <1>t, CasRow
  <2>. QED  BY <1>q, <1>12, <2>1, ClaimTypes DEF mark_running
<1>o. \A i \in Issues, n \in Claims, b \in BOOLEAN : RowOK(upsert_claim_metadata(lease[i], n, b))
  BY <1>a, ReceiptRow
<1>c. ASSUME NEW d \in Daemons, NEW i \in Issues, NEW n \in Claims,
             announce_claim(d, i, n) \/ abandon_failed_claim(d, i, n)
      PROVE  TypeInv'
  <2>1. PICK pending \in BOOLEAN : SetLease(i, upsert_claim_metadata(lease[i], n, pending))
    BY <1>c DEF announce_claim, abandon_failed_claim
  <2>2. CASE AbortPass(d)
    <3>1. UNCHANGED <<run, wait, sids, crashes>>
      BY <1>c DEF announce_claim, abandon_failed_claim
    <3>. QED  BY <1>o, <2>1, <2>2, <3>1, AbortTypes
  <2>3. CASE ~AbortPass(d)
    <3>1. PICK s \in {"announced", "abandoning"} : SetStage(d, i, n, s)
      BY <1>c, <2>3 DEF announce_claim, abandon_failed_claim
    <3>2. UNCHANGED <<run, wait, sids, pass, todo, admitted, queue, chunk, crashes>>
      BY <1>c, <2>3 DEF announce_claim, abandon_failed_claim
    <3>. QED  BY <1>o, <1>q, <2>1, <3>1, <3>2, ClaimTypes
  <2>. QED  BY <2>2, <2>3
<1>e. ASSUME NEW d \in Daemons, NEW i \in Issues, NEW n \in Claims, settle_claim(d, i, n)
      PROVE  TypeInv'
  <2>1. SetLease(i, upsert_claim_metadata(lease[i], n, FALSE)) /\ UNCHANGED <<run, wait, sids, crashes>>
    BY <1>e DEF settle_claim
  <2>2. CASE AbortPass(d)
    BY <1>o, <2>1, <2>2, AbortTypes
  <2>3. CASE ~AbortPass(d)
    <3>1. /\ SetStage(d, i, n, "queued") /\ Enqueue(d, DispatchUnit(i, n, FALSE))
          /\ UNCHANGED <<pass, todo, admitted, chunk>>
      BY <1>e, <2>3 DEF settle_claim
    <3>2. /\ todo' \in [Daemons -> SUBSET TodoItem]
          /\ admitted' \in [Daemons -> SUBSET ItemType]
          /\ \A e \in Daemons : TodoOK(e)'
      BY <1>a, <3>1 DEF TypeOK, TodoItem, TodoOK
    <3>. QED  BY <1>o, <1>q, <2>1, <3>1, <3>2, EnqueueTypes
  <2>. QED  BY <2>2, <2>3
<1>f. ASSUME NEW d \in Daemons, NEW i \in Issues, NEW n \in Claims, abandon_lease(d, i, n)
      PROVE  TypeInv'
  <2>1. RowOK(update_lease_status_conditional(lease[i], n, "abandoned",
                  {"claimed", "pending"}, n, AnyOwner))
    BY <1>a, <1>0, <1>t, CasRow
  <2>. QED  BY <1>q, <1>f, <2>1, ClaimTypes DEF abandon_lease
<1>l. ASSUME NEW d \in Daemons, list_pending_claim_cleanups(d)
      PROVE  TypeInv'
  <2>1. \A i \in Issues : CleanupItem(i) \in CleanupItemType
    BY <1>a DEF CleanupItem, CleanupItemType, RowOK, IssueLease
  <2>2. PICK items \in SUBSET CleanupItemType : todo' = [todo EXCEPT ![d] = items]
    <3>1. {CleanupItem(i) : i \in {j \in Issues : cleanup_listed(lease[j])}} \in SUBSET CleanupItemType
      BY <2>1
    <3>. QED  BY <1>l, <3>1 DEF list_pending_claim_cleanups
  <2>3. /\ pass' = [pass EXCEPT ![d] = "reconcile"]
        /\ UNCHANGED <<dbVars, admitted, unitVars, crashes>>
    BY <1>l DEF list_pending_claim_cleanups
  <2>4. TypeOK'
    <3>1. pass' \in [Daemons -> Phase] /\ todo' \in [Daemons -> SUBSET TodoItem]
      BY <1>a, <2>2, <2>3 DEF TypeOK, Phase, TodoItem
    <3>. QED  BY <1>a, <2>3, <3>1 DEF TypeOK, TodoItem, dbVars, unitVars
  <2>5. \A e \in Daemons : TodoOK(e)'
    BY <1>a, <2>2, <2>3 DEF TypeOK, TodoOK
  <2>. QED  BY <1>a, <2>3, <2>4, <2>5 DEF TypeInv, dbVars
<1>v. ASSUME NEW d \in Daemons, pass[d] = "reconcile", NEW items \in SUBSET CleanupItemType,
             todo' = [todo EXCEPT ![d] = items], NEW i \in Issues, NEW row, RowOK(row),
             SetLease(i, row), UNCHANGED <<run, wait, sids, pass, admitted, unitVars, crashes>>
      PROVE  TypeInv'
  <2>1. /\ lease' \in [Issues -> IssueLease]
        /\ \A j \in Issues : RowOK(lease'[j])
    BY <1>a, <1>v, LeaseUpdate DEF TypeOK, SetLease
  <2>2. todo' \in [Daemons -> SUBSET TodoItem]
    BY <1>a, <1>v DEF TypeOK, TodoItem
  <2>3. TypeOK'
    BY <1>a, <1>v, <2>1, <2>2 DEF TypeOK, TodoItem, unitVars
  <2>4. \A e \in Daemons : TodoOK(e)'
    BY <1>a, <1>v DEF TypeOK, TodoOK
  <2>. QED  BY <2>1, <2>3, <2>4 DEF TypeInv
<1>u. ASSUME NEW d \in Daemons, NEW w \in todo[d], pass[d] = "reconcile"
      PROVE  /\ w.issue \in Issues
             /\ todo[d] \ {w} \in SUBSET CleanupItemType
             /\ \A s \in {"withdrawn", "settled"} :
                   (todo[d] \ {w}) \cup {[w EXCEPT !.at = s]} \in SUBSET CleanupItemType
  <2>1. todo[d] \subseteq CleanupItemType
    BY <1>a, <1>u DEF TodoOK
  <2>2. \A s \in {"withdrawn", "settled"} : [w EXCEPT !.at = s] \in CleanupItemType
    BY <2>1 DEF CleanupItemType
  <2>3. w.issue \in Issues
    BY <2>1 DEF CleanupItemType
  <2>. QED  BY <2>1, <2>2, <2>3
<1>w. ASSUME NEW d \in Daemons, NEW w \in todo[d], withdraw_claim(d, w)
      PROVE  TypeInv'
  <2>0. pass[d] = "reconcile"
    BY <1>w DEF withdraw_claim, Reconciling
  <2>1. RowOK(update_lease_status_conditional(lease[w.issue], w.lease_id, "pending",
                  {"claimed"}, NoRun, AnyOwner))
    BY <1>a, <1>n, <1>t, <1>u, <2>0, CasRow
  <2>2. PICK items \in SUBSET CleanupItemType : todo' = [todo EXCEPT ![d] = items]
    BY <1>u, <1>w, <2>0 DEF withdraw_claim
  <2>. QED  BY <1>u, <1>v, <1>w, <2>0, <2>1, <2>2 DEF withdraw_claim
<1>x. ASSUME NEW d \in Daemons, NEW w \in todo[d], reconcile_pending_cleanup(d, w)
      PROVE  TypeInv'
  <2>0. pass[d] = "reconcile" /\ UNCHANGED <<run, wait, sids, crashes>>
    BY <1>x DEF reconcile_pending_cleanup, Reconciling
  <2>1. w.issue \in Issues /\ RowOK(lease[w.issue])
    BY <1>a, <1>u, <2>0
  <2>2. RowOK(upsert_claim_metadata(lease[w.issue], w.lease_id, FALSE))
    BY <2>1, ReceiptRow
  <2>3. CASE AbortPass(d) /\ UNCHANGED lease
    <3>1. SetLease(w.issue, lease[w.issue])
      BY <1>a, <2>3 DEF SetLease, TypeOK
    <3>. QED  BY <2>0, <2>1, <2>3, <3>1, AbortTypes
  <2>4. CASE ~(AbortPass(d) /\ UNCHANGED lease)
    <3>1. PICK items \in SUBSET CleanupItemType : todo' = [todo EXCEPT ![d] = items]
      <4>1. \/ todo' = [todo EXCEPT ![d] = @ \ {w}]
            \/ todo' = [todo EXCEPT ![d] = (@ \ {w}) \cup {[w EXCEPT !.at = "settled"]}]
            \/ todo' = [todo EXCEPT ![d] = (@ \ {w}) \cup {}]
        BY <1>x, <2>4 DEF reconcile_pending_cleanup
      <4>2. (todo[d] \ {w}) \cup {} = todo[d] \ {w}
        OBVIOUS
      <4>. QED  BY <1>u, <2>0, <4>1, <4>2
    <3>2. PICK row : RowOK(row) /\ SetLease(w.issue, row)
      <4>1. \/ UNCHANGED lease
            \/ SetLease(w.issue, upsert_claim_metadata(lease[w.issue], w.lease_id, FALSE))
        BY <1>x, <2>4 DEF reconcile_pending_cleanup
      <4>2. CASE UNCHANGED lease
        <5>1. SetLease(w.issue, lease[w.issue])
          BY <1>a, <4>2 DEF SetLease, TypeOK
        <5>. QED  BY <2>1, <5>1
      <4>. QED  BY <2>2, <4>1, <4>2
    <3>3. UNCHANGED <<pass, admitted, unitVars>>
      BY <1>x, <2>4 DEF reconcile_pending_cleanup
    <3>. QED  BY <1>v, <2>0, <2>1, <3>1, <3>2, <3>3
  <2>. QED  BY <2>3, <2>4
<1>y. ASSUME NEW d \in Daemons, NEW w \in todo[d], release_withdrawn_claim(d, w)
      PROVE  TypeInv'
  <2>0. pass[d] = "reconcile"
    BY <1>y DEF release_withdrawn_claim, Reconciling
  <2>1. RowOK(update_lease_status_conditional(lease[w.issue], w.lease_id, "abandoned",
                  {"pending"}, NoRun, AnyOwner))
    BY <1>a, <1>n, <1>t, <1>u, <2>0, CasRow
  <2>2. PICK items \in SUBSET CleanupItemType : todo' = [todo EXCEPT ![d] = items]
    BY <1>u, <1>y, <2>0 DEF release_withdrawn_claim
  <2>. QED  BY <1>u, <1>v, <1>y, <2>0, <2>1, <2>2 DEF release_withdrawn_claim
<1>13. ASSUME NEW d \in Daemons, NEW w \in todo[d], ApplyPoll(d, w)
       PROVE  TypeInv'
  <2>0. w \in PollItemType /\ w.issue \in Issues /\ w.run \in Claims
    BY <1>a, <1>13 DEF ApplyPoll, TodoOK, PollItemType
  <2>. DEFINE i == w.issue
              n == w.run
  <2>1. \A s \in {"ready_to_resume", "failed", "waiting_external"} : \A expected :
           "absent" \notin expected =>
             RowOK(update_lease_status_conditional(lease[i], w.row.lease_id, s,
                       expected, NoRun, {n}))
    BY <1>a, <1>t, <1>n, <2>0, CasRow
  <2>2. /\ lease' \in [Issues -> IssueLease]
        /\ \A j \in Issues : RowOK(lease'[j])
        /\ run' \in [Issues -> [Claims -> RunStatus]]
        /\ wait' \in [Issues -> [Claims -> WaitRow]]
    <3>w. wait \in [Issues -> [Claims -> WaitRow]] /\ NoWait \in WaitRow
      BY <1>a DEF TypeOK, WaitRow, NoWait, NoLease
    <3>1. CASE apply_ready_to_resume(i, n, w)
      <4>1. RowOK(update_lease_status_conditional(lease[i], w.row.lease_id,
               "ready_to_resume", {"waiting_external", "ready_to_resume"}, NoRun, {n}))
        BY <2>1
      <4>2. wait' \in [Issues -> [Claims -> WaitRow]]
        BY <3>1, <3>w DEF apply_ready_to_resume
      <4>3. run' \in [Issues -> [Claims -> RunStatus]]
        BY <1>a, <3>1 DEF apply_ready_to_resume, SetRun, TypeOK, RunStatus
      <4>. QED  BY <1>a, <3>1, <4>1, <4>2, <4>3, LeaseUpdate
             DEF apply_ready_to_resume, SetLease, TypeOK
    <3>2. CASE apply_terminal_failure(i, n, w)
      <4>1. RowOK(update_lease_status_conditional(lease[i], w.row.lease_id, "failed",
               {"waiting_external", "ready_to_resume", "running", "claimed"}, NoRun, {n}))
        BY <2>1
      <4>2. wait' \in [Issues -> [Claims -> WaitRow]]
        BY <3>2, <3>w DEF apply_terminal_failure
      <4>3. run' \in [Issues -> [Claims -> RunStatus]]
        BY <1>a, <3>2 DEF apply_terminal_failure, SetRun, TypeOK, RunStatus
      <4>. QED  BY <1>a, <3>2, <4>1, <4>2, <4>3, LeaseUpdate
             DEF apply_terminal_failure, SetLease, TypeOK
    <3>3. CASE apply_still_waiting(i, n, w)
      <4>1. RowOK(update_lease_status_conditional(lease[i], w.row.lease_id,
               "waiting_external", {"waiting_external"}, NoRun, {n}))
        BY <2>1
      <4>2. wait' \in [Issues -> [Claims -> WaitRow]]
        BY <2>0, <3>3, <3>w DEF apply_still_waiting, WaitRow
      <4>3. run' \in [Issues -> [Claims -> RunStatus]]
        BY <1>a, <3>3 DEF apply_still_waiting, TypeOK
      <4>. QED  BY <1>a, <3>3, <4>1, <4>2, <4>3, LeaseUpdate
             DEF apply_still_waiting, SetLease, TypeOK
    <3>4. CASE skipped_poll(i, n, w)
      BY <1>a, <3>w, <3>4 DEF skipped_poll, TypeOK
    <3>. QED  BY <1>13, <3>1, <3>2, <3>3, <3>4 DEF ApplyPoll
  <2>3. TypeOK'
    BY <1>a, <1>13, <2>2 DEF ApplyPoll, TypeOK, WaitRow, unitVars
  <2>4. \A e \in Daemons : TodoOK(e)'
    BY <1>a, <1>13 DEF ApplyPoll, TypeOK, TodoOK
  <2>. QED  BY <2>2, <2>3, <2>4 DEF TypeInv
<1>14. ASSUME NEW d \in Daemons, NEW w \in todo[d], Admit(d, w)
       PROVE  TypeInv'
  <2>1. TypeOK'
    BY <1>a, <1>14 DEF Admit, TypeOK, TodoOK, dbVars, unitVars
  <2>2. \A e \in Daemons : TodoOK(e)'
    BY <1>a, <1>14 DEF Admit, TodoOK
  <2>. QED  BY <1>a, <1>14, <2>1, <2>2 DEF TypeInv, Admit, dbVars
<1>15. ASSUME NEW d \in Daemons, NEW w \in todo[d], Skip(d, w) \/ claim_bound(d, w)
       PROVE  TypeInv'
  <2>1. /\ todo' = [todo EXCEPT ![d] = @ \ {w}]
        /\ admitted' = [admitted EXCEPT ![d] = {}]
        /\ UNCHANGED <<dbVars, pass, unitVars, crashes>>
    BY <1>15 DEF Skip, claim_bound
  <2>2. TypeOK'
    BY <1>a, <2>1 DEF TypeOK, dbVars, unitVars
  <2>3. \A e \in Daemons : TodoOK(e)'
    BY <1>a, <2>1 DEF TypeOK, TodoOK
  <2>. QED  BY <1>a, <2>1, <2>2, <2>3 DEF TypeInv, dbVars
<1>16. ASSUME NEW d \in Daemons, NEW w \in todo[d], prepare_resume_lease(d, w)
       PROVE  TypeInv'
  <2>. DEFINE i == w.issue
              n == w.run
  <2>0. i \in Issues /\ n \in {NoRun} \cup Claims /\ n \in Nat /\ n <= MaxClaims
    BY <1>a, <1>0, <1>n, <1>16 DEF prepare_resume_lease, TodoOK, ItemType
  <2>a. /\ todo' = [todo EXCEPT ![d] = @ \ {w}]
        /\ admitted' = [admitted EXCEPT ![d] = {}]
        /\ UNCHANGED <<run, wait, sids, pass, chunk, crashes>>
    BY <1>16 DEF prepare_resume_lease
  <2>b. \A e \in Daemons : TodoOK(e)'
    BY <1>a, <2>a DEF TypeOK, TodoOK
  <2>c. /\ todo' \in [Daemons -> SUBSET TodoItem]
        /\ admitted' \in [Daemons -> SUBSET ItemType]
    BY <1>a, <2>a DEF TypeOK, TodoItem
  <2>1. CASE UNCHANGED <<lease, stage, queue>>
    <3>1. TypeOK'
      BY <1>a, <2>1, <2>a, <2>c DEF TypeOK, TodoItem
    <3>. QED  BY <1>a, <2>1, <2>b, <3>1 DEF TypeInv
  <2>2. CASE /\ cas_applies(lease[i], n, {"ready_to_resume"}, {n})
             /\ SetLease(i, update_lease_status_conditional(lease[i], n, "running",
                                {"ready_to_resume"}, n, {n}))
             /\ SetStage(d, i, n, "queued")
             /\ Enqueue(d, DispatchUnit(i, n, TRUE))
    <3>1. RowOK(update_lease_status_conditional(lease[i], n, "running",
                    {"ready_to_resume"}, n, {n}))
      BY <1>a, <1>t, <2>0, CasRow
    <3>2. n \in Claims
      BY <1>a, <2>0, <2>2 DEF RowOK, cas_applies, NoLease, NoRun
    <3>. QED  BY <1>q, <2>a, <2>b, <2>c, <2>2, <2>0, <3>1, <3>2, EnqueueTypes
  <2>. QED  BY <1>16, <2>1, <2>2 DEF prepare_resume_lease
<1>17. ASSUME NEW d \in Daemons, NEW w \in todo[d], claim_for_launch(d, w)
       PROVE  TypeInv'
  <2>. DEFINE i == w.issue
              n == lease[i].lease_id + 1
  <2>0. i \in Issues
    BY <1>a, <1>17 DEF claim_for_launch, TodoOK, ItemType
  <2>1. RowOK(try_claim(lease[i]))
    BY <1>a, <1>17, <2>0, ClaimRow DEF claim_for_launch
  <2>2. /\ lease' \in [Issues -> IssueLease]
        /\ \A j \in Issues : RowOK(lease'[j])
    BY <1>a, <1>17, <2>1, LeaseUpdate DEF claim_for_launch, TypeOK, SetLease
  <2>3. stage' \in [Daemons -> [Issues -> [Claims -> Stage]]]
    <3>1. stage' = stage \/ SetStage(d, i, n, "claimed")
      BY <1>17 DEF claim_for_launch
    <3>2. CASE SetStage(d, i, n, "claimed")
      BY <1>a, <1>q, <3>2, StageType DEF TypeOK, SetStage
    <3>. QED  BY <1>a, <3>1, <3>2 DEF TypeOK
  <2>4. TypeOK'
    BY <1>a, <1>17, <2>2, <2>3 DEF claim_for_launch, TypeOK
  <2>5. \A e \in Daemons : TodoOK(e)'
    BY <1>a, <1>17 DEF claim_for_launch, TypeOK, TodoOK
  <2>. QED  BY <2>2, <2>4, <2>5 DEF TypeInv
<1>18. ASSUME NEW d \in Daemons, NEW due \in SUBSET Issues, list_pollable_wait_states(d, due)
       PROVE  TypeInv'
  <2>1. {w \in {PollItem(i, n) : i \in due, n \in Claims} : Pollable(w.issue, w.run)}
            \subseteq PollItemType
    BY <1>a DEF PollItem, PollItemType, TypeOK
  <2>. DEFINE items == {w \in {PollItem(i, n) : i \in due, n \in Claims} :
                            Pollable(w.issue, w.run)}
  <2>c. todo' = [todo EXCEPT ![d] = items]
    BY <1>18 DEF list_pollable_wait_states
  <2>a. PICK listed : listed \subseteq PollItemType /\ todo' = [todo EXCEPT ![d] = listed]
    <3>. HIDE DEF items
    <3>1. items \subseteq PollItemType
      BY <2>1 DEF items
    <3>. QED  BY <2>c, <3>1
  <2>b. /\ pass' = [pass EXCEPT ![d] = "poll"]
        /\ UNCHANGED <<dbVars, admitted, unitVars, crashes>>
    BY <1>18 DEF list_pollable_wait_states
  <2>2. TypeOK'
    <3>1. /\ pass' \in [Daemons -> Phase]
          /\ todo' \in [Daemons -> SUBSET TodoItem]
      BY <1>a, <2>a, <2>b DEF TypeOK, Phase, TodoItem
    <3>. QED  BY <1>a, <2>b, <3>1 DEF TypeOK, TodoItem, dbVars, unitVars
  <2>3. \A e \in Daemons : TodoOK(e)'
    BY <1>a, <2>a, <2>b DEF TypeOK, TodoOK
  <2>. QED  BY <1>a, <1>18, <2>2, <2>3 DEF TypeInv, list_pollable_wait_states, dbVars
<1>19. ASSUME NEW d \in Daemons, list_ready_to_resume_leases(d)
       PROVE  TypeInv'
  <2>1. \A i \in Issues : lease[i].run_id \in {NoRun} \cup Claims
    BY <1>a DEF RowOK, IssueLease, NoRun, Claims
  <2>2. {Item(i, lease[i].run_id) : i \in {j \in Issues : lease[j].status = "ready_to_resume"}}
            \subseteq ItemType
    BY <2>1 DEF Item, ItemType
  <2>3. TypeOK'
    BY <1>a, <1>19, <2>2 DEF list_ready_to_resume_leases, TypeOK, Phase, dbVars, unitVars
  <2>4. \A e \in Daemons : TodoOK(e)'
    BY <1>a, <1>19, <2>2 DEF list_ready_to_resume_leases, TypeOK, TodoOK
  <2>. QED  BY <1>a, <1>19, <2>3, <2>4 DEF TypeInv, list_ready_to_resume_leases, dbVars
<1>20. ASSUME NEW d \in Daemons, discover(d)
       PROVE  TypeInv'
  <2>1. PICK eligible \in SUBSET Issues :
           todo' = [todo EXCEPT ![d] = {Item(i, NoRun) : i \in eligible}]
    BY <1>20 DEF discover
  <2>2. {Item(i, NoRun) : i \in eligible} \subseteq ItemType
    BY <2>1 DEF Item, ItemType
  <2>3. TypeOK'
    BY <1>a, <1>20, <2>1, <2>2 DEF discover, TypeOK, Phase, dbVars, unitVars
  <2>4. \A e \in Daemons : TodoOK(e)'
    BY <1>a, <1>20, <2>1, <2>2 DEF discover, TypeOK, TodoOK
  <2>. QED  BY <1>a, <1>20, <2>3, <2>4 DEF TypeInv, discover, dbVars
<1>21. ASSUME NEW d \in Daemons, begin_dispatch(d) \/ end_pass(d)
       PROVE  TypeInv'
  <2>1. /\ pass' = [pass EXCEPT ![d] = "dispatch"] \/ pass' = [pass EXCEPT ![d] = "idle"]
        /\ UNCHANGED <<dbVars, todo, admitted, unitVars, crashes>>
    BY <1>21 DEF begin_dispatch, end_pass
  <2>2. pass' \in [Daemons -> Phase]
    BY <1>a, <2>1 DEF TypeOK, Phase
  <2>3. TypeOK'
    BY <1>a, <2>1, <2>2 DEF TypeOK, dbVars, unitVars
  <2>4. \A e \in Daemons : TodoOK(e)'
    BY <1>a, <2>1 DEF TypeOK, TodoOK
  <2>. QED  BY <1>a, <2>1, <2>3, <2>4 DEF TypeInv, dbVars
<1>22. ASSUME NEW d \in Daemons, dispatch_unit_chunk(d)
       PROVE  TypeInv'
  <2>. DEFINE k == Least(Len(queue[d]), GlobalLimit)
  <2>1. queue \in [Daemons -> Seq(Unit)] /\ chunk \in [Daemons -> Seq(Unit)]
    BY <1>a DEF TypeOK, Unit
  <2>2. k \in Nat /\ k <= Len(queue[d])
    BY <2>1 DEF Least
  <2>3. /\ SubSeq(queue[d], 1, k) \in Seq(Unit)
        /\ SubSeq(queue[d], k + 1, Len(queue[d])) \in Seq(Unit)
    BY <2>1, <2>2
  <2>4. queue' \in [Daemons -> Seq(Unit)] /\ chunk' \in [Daemons -> Seq(Unit)]
    BY <1>22, <2>1, <2>3 DEF dispatch_unit_chunk
  <2>5. stage' \in [Daemons -> [Issues -> [Claims -> Stage]]]
    <3>1. PICK spawned : stage' = [stage EXCEPT ![d] =
               [i \in Issues |-> [n \in Claims |->
                   IF Item(i, n) \in spawned THEN "starting" ELSE stage[d][i][n]]]]
      BY <1>22 DEF dispatch_unit_chunk
    <3>2. "starting" \in Stage
      BY DEF Stage, InThread
    <3>. QED  BY <1>a, <3>1, <3>2, StageRow DEF TypeOK
  <2>6. TypeOK'
    BY <1>a, <1>22, <2>4, <2>5 DEF dispatch_unit_chunk, TypeOK, Unit, dbVars
  <2>7. \A e \in Daemons : TodoOK(e)'
    BY <1>a, <1>22 DEF dispatch_unit_chunk, TodoOK
  <2>. QED  BY <1>a, <1>22, <2>6, <2>7 DEF TypeInv, dispatch_unit_chunk, dbVars
<1>23. ASSUME NEW d \in Daemons, join_unit(d)
       PROVE  TypeInv'
  <2>. DEFINE u == Head(chunk[d])
              i == u.issue
              n == u.run
              result == stage[d][i][n]
              row == finish_lease_after_result(i, n, result)
  <2>3. i \in Issues /\ n \in Claims /\ n \in Nat /\ n <= MaxClaims /\ RowOK(lease[i])
    BY <1>a, <1>0, <1>23, HeadUnit DEF join_unit
  <2>4. RowOK(row)
    <3>. SUFFICES ASSUME result \in Returned PROVE RowOK(row)
      BY <1>23 DEF join_unit
    <3>1. RowOK(update_lease_status_conditional(lease[i], n, "completed", {"running"}, n, {n}))
      BY <1>t, <2>3, CasRow
    <3>2. RowOK(update_lease_status_conditional(lease[i], n, "failed", {"running"}, n, {n}))
      BY <1>t, <2>3, CasRow
    <3>3. RowOK(update_lease_status_conditional(lease[i], n, "cleanup_abandoned",
                    {"running", "cleanup_abandoned"}, n, {n}))
      BY <1>t, <2>3, CasRow
    <3>4. RowOK(update_lease_status_conditional(lease[i], n, "waiting_external",
                    {"running", "waiting_external"}, n, {n}))
      BY <1>t, <2>3, CasRow
    <3>5. RowOK(update_lease_status_conditional(lease[i], n,
                    IF has_pollable_external_wait(i, n) THEN "waiting_external" ELSE "failed",
                    {"running", "waiting_external"}, n, {n}))
      BY <1>t, <2>3, CasRow
    <3>. QED  BY <3>1, <3>2, <3>3, <3>4, <3>5 DEF finish_lease_after_result, Returned
  <2>5. SetLease(i, row) /\ UNCHANGED <<run, wait, sids, pass, todo, admitted, crashes>>
    BY <1>23 DEF join_unit
  <2>6. \/ SetStage(d, i, n, "launch_failed") /\ UNCHANGED <<queue, chunk>>
        \/ \E fails \in BOOLEAN : Retire(d, fails)
    <3>1. (result = "denied" /\ denial_error(i, n)) \in BOOLEAN
      OBVIOUS
    <3>. QED  BY <1>23, <3>1 DEF join_unit
  <2>. HIDE DEF i, n, row
  <2>7. CASE SetStage(d, i, n, "launch_failed") /\ UNCHANGED <<queue, chunk>>
    BY <1>q, <2>3, <2>4, <2>5, <2>7, ClaimTypes
  <2>8. CASE \E fails \in BOOLEAN : Retire(d, fails)
    <3>1. PICK fails \in BOOLEAN : Retire(d, fails)
      BY <2>8
    <3>2. chunk[d] # <<>>
      BY <1>23 DEF join_unit
    <3>. QED  BY <2>3, <2>4, <2>5, <3>1, <3>2, RetireTypes
  <2>. QED  BY <2>6, <2>7, <2>8
<1>m. ASSUME NEW d \in Daemons, mark_claim_cleanup(d) \/ settle_claim_cleanup(d)
      PROVE  TypeInv'
  <2>. DEFINE i == Head(chunk[d]).issue
              n == Head(chunk[d]).run
  <2>1. chunk[d] # <<>> /\ UNCHANGED <<run, wait, sids, pass, todo, admitted, crashes>>
    BY <1>m DEF mark_claim_cleanup, settle_claim_cleanup
  <2>2. i \in Issues /\ n \in Claims /\ RowOK(lease[i])
    BY <1>a, <2>1, HeadUnit
  <2>3. PICK row : RowOK(row) /\ SetLease(i, row)
    <3>1. \/ UNCHANGED lease
          \/ \E pending \in BOOLEAN : SetLease(i, upsert_claim_metadata(lease[i], n, pending))
      BY <1>m DEF mark_claim_cleanup, settle_claim_cleanup
    <3>2. CASE UNCHANGED lease
      <4>1. SetLease(i, lease[i])
        BY <1>a, <3>2 DEF SetLease, TypeOK
      <4>. QED  BY <2>2, <4>1
    <3>. QED  BY <1>o, <2>2, <3>1, <3>2
  <2>4. \/ SetStage(d, i, n, "releasing") /\ UNCHANGED <<queue, chunk>>
        \/ \E fails \in BOOLEAN : Retire(d, fails)
    <3>1. (lease[i].lease_id # n) \in BOOLEAN
      OBVIOUS
    <3>. QED  BY <1>m, <3>1 DEF mark_claim_cleanup, settle_claim_cleanup
  <2>. HIDE DEF i, n
  <2>5. CASE SetStage(d, i, n, "releasing") /\ UNCHANGED <<queue, chunk>>
    BY <1>q, <2>1, <2>2, <2>3, <2>5, ClaimTypes
  <2>6. CASE \E fails \in BOOLEAN : Retire(d, fails)
    <3>1. PICK fails \in BOOLEAN : Retire(d, fails)
      BY <2>6
    <3>. QED  BY <2>1, <2>2, <2>3, <3>1, RetireTypes
  <2>. QED  BY <2>4, <2>5, <2>6
<1>24. ASSUME NEW d \in Daemons, Start(d)
       PROVE  TypeInv'
  <2>1. /\ lease' \in [Issues -> IssueLease]
        /\ \A j \in Issues : RowOK(lease'[j])
    <3>1. \A j \in Issues : RowOK(recover_stale(lease[j]))
      BY <1>a, StaleRow
    <3>. QED  BY <1>24, <3>1 DEF Start, RowOK
  <2>2. TypeOK'
    BY <1>a, <1>24, <2>1 DEF Start, TypeOK, Phase, unitVars
  <2>3. \A e \in Daemons : TodoOK(e)'
    BY <1>a, <1>24 DEF Start, TypeOK, TodoOK
  <2>. QED  BY <2>1, <2>2, <2>3 DEF TypeInv
<1>25. ASSUME NEW d \in Daemons, Crash(d)
       PROVE  TypeInv'
  <2>1. TypeOK'
    <3>1. pass' \in [Daemons -> Phase] /\ crashes' \in Nat
      BY <1>a, <1>25 DEF Crash, TypeOK, Phase
    <3>. QED  BY <1>a, <1>25, <3>1, DropTypes DEF Crash, TypeOK, TodoItem, dbVars
  <2>2. \A e \in Daemons : TodoOK(e)'
    BY <1>a, <1>25 DEF Crash, DropUnits, TypeOK, TodoOK
  <2>. QED  BY <1>a, <1>25, <2>1, <2>2 DEF TypeInv, Crash, dbVars
<1>26. ASSUME NEW i \in Issues, Age(i)
       PROVE  TypeInv'
  <2>1. /\ lease' \in [Issues -> IssueLease]
        /\ \A j \in Issues : RowOK(lease'[j])
    <3>1. RowOK([lease[i] EXCEPT !.overdue = TRUE])
      BY <1>a, OverdueRow
    <3>. QED  BY <1>a, <1>26, <3>1, LeaseUpdate DEF Age, TypeOK, SetLease
  <2>2. TypeOK'
    BY <1>a, <1>26, <2>1 DEF Age, TypeOK, unitVars
  <2>3. \A e \in Daemons : TodoOK(e)'
    BY <1>a, <1>26 DEF Age, TodoOK
  <2>. QED  BY <2>1, <2>2, <2>3 DEF TypeInv
<1>27. CASE UNCHANGED vars
  BY <1>a, <1>27 DEF TypeInv, TypeOK, TodoOK, vars
<1>28. ASSUME NEW d \in Daemons, DaemonStep(d)
       PROVE  TypeInv'
  <2>1. CASE PassStep(d)
    BY <2>1, <1>18, <1>19, <1>20, <1>21, <1>22, <1>23, <1>l, <1>m DEF PassStep
  <2>2. CASE \E w \in todo[d] : ItemStep(d, w)
    BY <2>2, <1>13, <1>14, <1>15, <1>16, <1>17, <1>w, <1>x, <1>y DEF ItemStep
  <2>3. CASE \E i \in Issues, n \in Claims : ClaimStep(d, i, n)
    BY <2>3, <1>10, <1>12, <1>c, <1>e, <1>f DEF ClaimStep
  <2>4. CASE \E i \in Issues, n \in Claims : ThreadStep(d, i, n)
    BY <2>4, <1>1, <1>r, <1>2, <1>3, <1>4, <1>5, <1>6, <1>7, <1>8, <1>9 DEF ThreadStep
  <2>. QED  BY <1>28, <2>1, <2>2, <2>3, <2>4 DEF DaemonStep
<1>. QED  BY <1>24, <1>25, <1>26, <1>27, <1>28 DEF Next

\* In every reachable state the database rows and the daemons' local state have
\* the types TypeOK gives them, for every number of daemons, issues and claims.
THEOREM TypeCorrect == Spec => []TypeOK
<1>1. TypeInv => TypeOK
  BY DEF TypeInv
<1>. QED  BY <1>1, TypeInit, TypeNext, PTL DEF Spec

----------------------------------------------------------------------------
(* One executor per claim.  The invariant says why: a claim that any daemon *)
(* still holds is never offered to the resume phase of another, and a claim *)
(* newer than the lease row is held by nobody.                              *)

Offered == {"waiting_external", "ready_to_resume"}

\* The units of a queue are distinct and wait to be spawned.
QueueOK(d) ==
    \A a, b \in 1..Len(queue[d]) :
        /\ stage[d][queue[d][a].issue][queue[d][a].run] = "queued"
        /\ (queue[d][a].issue = queue[d][b].issue /\ queue[d][a].run = queue[d][b].run) => a = b

HolderInv ==
    /\ SingleExecutor
    /\ \A d \in Daemons, i \in Issues, n \in Claims :
          Live(d, i, n) =>
             /\ n <= lease[i].lease_id
             /\ n = lease[i].lease_id => lease[i].status \notin Offered

ExecInv == HolderInv /\ \A d \in Daemons : QueueOK(d)

\* A step that starts no unit.
NoNewUnit ==
    \A d \in Daemons, i \in Issues, n \in Claims : Live(d, i, n)' => Live(d, i, n)

\* A step that makes no claim and offers no lease.
NoNewOffer ==
    \A i \in Issues :
        /\ lease'[i].lease_id = lease[i].lease_id
        /\ lease'[i].status \in Offered => lease[i].status \in Offered

\* A step that leaves the queued units queued.
KeepsQueued ==
    \A d \in Daemons, i \in Issues, n \in Claims :
        stage[d][i][n] = "queued" => stage'[d][i][n] = "queued"

LEMMA QuietHolders == HolderInv /\ NoNewUnit /\ NoNewOffer => HolderInv'
  BY DEF HolderInv, NoNewUnit, NoNewOffer, SingleExecutor

LEMMA QuietQueue ==
    ASSUME TypeOK, NEW d \in Daemons, QueueOK(d), KeepsQueued, queue'[d] = queue[d]
    PROVE  QueueOK(d)'
<1>1. \A a \in 1..Len(queue[d]) : queue[d][a].issue \in Issues /\ queue[d][a].run \in Claims
  <2>1. queue[d] \in Seq(Unit)
    BY DEF TypeOK, Unit
  <2>2. \A a \in 1..Len(queue[d]) : queue[d][a] \in Unit
    BY <2>1
  <2>. QED  BY <2>2 DEF Unit
<1>. QED  BY <1>1 DEF QueueOK, KeepsQueued

\* An engine thread's step only moves its own unit, which is not queued.
LEMMA ThreadStage ==
    ASSUME TypeOK, NEW d \in Daemons, NEW i \in Issues, NEW n \in Claims, NEW s,
           stage[d][i][n] \notin {"none", "queued"}, SetStage(d, i, n, s)
    PROVE  NoNewUnit /\ KeepsQueued
<1>1. stage \in [Daemons -> [Issues -> [Claims -> Stage]]]
  BY DEF TypeOK
<1>2. \A e \in Daemons, j \in Issues, m \in Claims :
         stage'[e][j][m] = IF e = d /\ j = i /\ m = n THEN s ELSE stage[e][j][m]
  BY <1>1 DEF SetStage
<1>. QED  BY <1>2 DEF NoNewUnit, KeepsQueued, Live

\* A conditional update offers a lease only if it is told to, or it was offered.
LEMMA CasOffer ==
    ASSUME NEW row, row \in IssueLease, NEW id, NEW s, NEW expected, NEW r, NEW owners,
           s \notin Offered \/ expected \subseteq Offered
    PROVE  LET new == update_lease_status_conditional(row, id, s, expected, r, owners)
           IN  /\ new.lease_id = row.lease_id
               /\ new.status \in Offered => row.status \in Offered
  BY DEF update_lease_status_conditional, cas_applies, IssueLease

LEMMA OtherOffer ==
    ASSUME NEW row, row \in IssueLease
    PROVE  /\ recover_stale(row).lease_id = row.lease_id
           /\ recover_stale(row).status \in Offered => row.status \in Offered
           /\ [row EXCEPT !.overdue = TRUE].lease_id = row.lease_id
           /\ [row EXCEPT !.overdue = TRUE].status = row.status
           /\ \A id, r :
                /\ touch_owned_running_lease_heartbeat(row, id, r).lease_id = row.lease_id
                /\ touch_owned_running_lease_heartbeat(row, id, r).status = row.status
           /\ \A id :
                /\ update_lease_status(row, id, "abandoned").lease_id = row.lease_id
                /\ update_lease_status(row, id, "abandoned").status \in Offered
                     => row.status \in Offered
  BY DEF recover_stale, touch_owned_running_lease_heartbeat, update_lease_status,
         cas_applies, IssueLease, Offered

LEMMA RowOffer ==
    ASSUME TypeOK, NEW i \in Issues, NEW row, SetLease(i, row),
           row.lease_id = lease[i].lease_id,
           row.status \in Offered => lease[i].status \in Offered
    PROVE  NoNewOffer
  BY DEF TypeOK, SetLease, NoNewOffer

LEMMA SameQueue ==
    ASSUME NEW e \in Daemons, QueueOK(e), queue'[e] = queue[e], stage'[e] = stage[e]
    PROVE  QueueOK(e)'
  BY DEF QueueOK

\* Appending a unit that was not queued.
LEMMA QueueAppend ==
    ASSUME TypeOK, \A e \in Daemons : QueueOK(e),
           NEW d \in Daemons, NEW i \in Issues, NEW n \in Claims,
           stage[d][i][n] # "queued", SetStage(d, i, n, "queued"),
           NEW resume \in BOOLEAN, Enqueue(d, DispatchUnit(i, n, resume))
    PROVE  \A e \in Daemons : QueueOK(e)'
<1>. DEFINE q == queue[d]
            u == DispatchUnit(i, n, resume)
<1>1. /\ stage \in [Daemons -> [Issues -> [Claims -> Stage]]]
      /\ queue \in [Daemons -> Seq(Unit)]
  BY DEF TypeOK, Unit
<1>2. \A e \in Daemons, j \in Issues, m \in Claims :
         stage'[e][j][m] = IF e = d /\ j = i /\ m = n THEN "queued" ELSE stage[e][j][m]
  BY <1>1 DEF SetStage
<1>3. ASSUME NEW e \in Daemons, e # d PROVE QueueOK(e)'
  <2>1. queue'[e] = queue[e] /\ stage'[e] = stage[e]
    BY <1>1, <1>3 DEF SetStage, Enqueue
  <2>2. QueueOK(e)
    OBVIOUS
  <2>. QED  BY <2>1, <2>2, SameQueue
<1>4. QueueOK(d)'
  <2>1. q \in Seq(Unit) /\ u \in Unit /\ u.issue = i /\ u.run = n
    BY <1>1 DEF DispatchUnit, Unit
  <2>2. queue'[d] = Append(q, u)
    BY <1>1 DEF Enqueue
  <2>. HIDE DEF q, u
  <2>3. /\ Len(queue'[d]) = Len(q) + 1 /\ Len(q) \in Nat
        /\ \A a \in 1..Len(q) : queue'[d][a] = q[a] /\ q[a] \in Unit
        /\ queue'[d][Len(q) + 1] = u
    BY <2>1, <2>2
  <2>4. \A a \in 1..Len(q) : q[a].issue \in Issues /\ q[a].run \in Claims
    BY <2>3 DEF Unit
  <2>5. \A a, b \in 1..Len(q) : /\ stage[d][q[a].issue][q[a].run] = "queued"
                                /\ (q[a].issue = q[b].issue /\ q[a].run = q[b].run) => a = b
    BY DEF QueueOK, q
  <2>6. \A a \in 1..Len(q) : ~(q[a].issue = i /\ q[a].run = n)
    BY <2>1, <2>5
  <2>7. \A a \in 1..Len(q) + 1 :
           stage'[d][queue'[d][a].issue][queue'[d][a].run] = "queued"
    <3>. TAKE a \in 1..Len(q) + 1
    <3>1. CASE a \in 1..Len(q)
      BY <1>2, <2>3, <2>4, <2>5, <3>1
    <3>2. CASE a = Len(q) + 1
      BY <1>2, <2>1, <2>3, <3>2
    <3>. QED  BY <2>3, <3>1, <3>2
  <2>8. \A a, b \in 1..Len(q) + 1 :
           (queue'[d][a].issue = queue'[d][b].issue /\ queue'[d][a].run = queue'[d][b].run) => a = b
    BY <2>1, <2>3, <2>5, <2>6
  <2>9. 1..Len(queue'[d]) = 1..Len(q) + 1
    BY <2>3
  <2>. QED  BY <2>7, <2>8, <2>9 DEF QueueOK
<1>. QED  BY <1>3, <1>4

\* A step that rewrites one lease row and moves a unit that is not queued.
LEMMA QuietUnit ==
    ASSUME TypeOK, ExecInv, NEW d \in Daemons, NEW i \in Issues, NEW n \in Claims, NEW s,
           stage[d][i][n] \notin {"none", "queued"}, SetStage(d, i, n, s), queue' = queue,
           NEW row, SetLease(i, row), row.lease_id = lease[i].lease_id,
           row.status \in Offered => lease[i].status \in Offered
    PROVE  ExecInv'
<1>1. NoNewUnit /\ KeepsQueued
  BY ThreadStage
<1>2. NoNewOffer
  BY RowOffer
<1>. QED  BY <1>1, <1>2, QuietHolders, QuietQueue DEF ExecInv

\* A step that rewrites one lease row and no unit.
LEMMA QuietRow ==
    ASSUME TypeOK, ExecInv, NEW i \in Issues, UNCHANGED <<stage, queue>>,
           NEW row, SetLease(i, row), row.lease_id = lease[i].lease_id,
           row.status \in Offered => lease[i].status \in Offered
    PROVE  ExecInv'
<1>1. NoNewUnit /\ KeepsQueued
  BY DEF NoNewUnit, KeepsQueued, Live
<1>2. NoNewOffer
  BY RowOffer
<1>. QED  BY <1>1, <1>2, QuietHolders, QuietQueue DEF ExecInv

\* A daemon forgets its units.
LEMMA QuietDrop ==
    ASSUME TypeOK, ExecInv, NEW d \in Daemons, DropUnits(d), NoNewOffer
    PROVE  ExecInv'
<1>0. /\ stage \in [Daemons -> [Issues -> [Claims -> Stage]]]
      /\ queue \in [Daemons -> Seq(Unit)]
  BY DEF TypeOK
<1>1. \A e \in Daemons, j \in Issues, m \in Claims :
         stage'[e][j][m] = IF e = d THEN "none" ELSE stage[e][j][m]
  BY <1>0 DEF DropUnits
<1>2. \A e \in Daemons : queue'[e] = IF e = d THEN <<>> ELSE queue[e]
  BY <1>0 DEF DropUnits
<1>3. NoNewUnit
  BY <1>1 DEF NoNewUnit, Live
<1>4. ASSUME NEW e \in Daemons PROVE QueueOK(e)'
  <2>1. CASE e = d
    BY <1>2, <2>1 DEF QueueOK
  <2>2. CASE e # d
    <3>1. queue'[e] = queue[e] /\ stage'[e] = stage[e]
      BY <1>0, <2>2 DEF DropUnits
    <3>. QED  BY <3>1, SameQueue DEF ExecInv
  <2>. QED  BY <2>1, <2>2
<1>. QED  BY <1>3, <1>4, QuietHolders DEF ExecInv

\* The head of a chunk is retired, and its lease row, which may now be offered,
\* rewritten: the unit was the only one for its claim.
LEMMA RetireExec ==
    ASSUME TypeOK, ExecInv, NEW d \in Daemons, NEW i \in Issues, NEW n \in Claims,
           Head(chunk[d]).issue = i, Head(chunk[d]).run = n,
           NEW fails \in BOOLEAN, Retire(d, fails),
           stage[d][i][n] \notin {"none", "queued"},
           NEW row, SetLease(i, row), row.lease_id = lease[i].lease_id,
           lease[i].lease_id # n => row = lease[i]
    PROVE  ExecInv'
<1>a. HolderInv /\ \A e \in Daemons : QueueOK(e)
  BY DEF ExecInv
<1>1. /\ stage \in [Daemons -> [Issues -> [Claims -> Stage]]]
      /\ queue \in [Daemons -> Seq(Unit)]
  BY DEF TypeOK
<1>2. \A e \in Daemons, j \in Issues, m \in Claims :
         stage'[e][j][m] = IF e = d /\ ((j = i /\ m = n) \/ (fails /\ stage[d][j][m] = "queued"))
                           THEN "none" ELSE stage[e][j][m]
  <2>1. \A j \in Issues, m \in Claims :
           stage'[d][j][m] = IF (j = i /\ m = n) \/ (fails /\ stage[d][j][m] = "queued")
                             THEN "none" ELSE stage[d][j][m]
    BY <1>1 DEF Retire
  <2>2. \A e \in Daemons : e # d => stage'[e] = stage[e]
    BY <1>1 DEF Retire
  <2>. QED  BY <2>1, <2>2
<1>3. /\ queue'[d] = IF fails THEN <<>> ELSE queue[d]
      /\ \A e \in Daemons : e # d => queue'[e] = queue[e] /\ stage'[e] = stage[e]
  BY <1>1 DEF Retire
<1>4. NoNewUnit
  BY <1>2 DEF NoNewUnit, Live
<1>5. \A j \in Issues : /\ lease'[j].lease_id = lease[j].lease_id
                        /\ (j # i \/ lease[i].lease_id # n) => lease'[j] = lease[j]
  BY DEF SetLease, TypeOK
<1>6. \A e \in Daemons : ~Live(e, i, n)'
  <2>1. \A e \in Daemons : Live(e, i, n) => e = d
    BY <1>a DEF HolderInv, SingleExecutor, Live
  <2>2. stage'[d][i][n] = "none" /\ \A e \in Daemons : e # d => stage'[e][i][n] = stage[e][i][n]
    BY <1>2
  <2>. QED  BY <2>1, <2>2 DEF Live
<1>7. HolderInv'
  <2>1. SingleExecutor'
    BY <1>a, <1>4 DEF HolderInv, SingleExecutor, NoNewUnit
  <2>2. ASSUME NEW e \in Daemons, NEW j \in Issues, NEW m \in Claims, Live(e, j, m)'
        PROVE  /\ m <= lease'[j].lease_id
               /\ m = lease'[j].lease_id => lease'[j].status \notin Offered
    <3>1. m <= lease[j].lease_id /\ (m = lease[j].lease_id => lease[j].status \notin Offered)
      BY <1>a, <1>4, <2>2 DEF HolderInv, NoNewUnit
    <3>2. CASE j = i /\ lease[i].lease_id = n
      <4>1. m # n
        BY <1>6, <2>2, <3>2
      <4>. QED  BY <1>5, <3>1, <3>2, <4>1
    <3>3. CASE j # i \/ lease[i].lease_id # n
      BY <1>5, <3>1, <3>3
    <3>. QED  BY <3>2, <3>3
  <2>. QED  BY <2>1, <2>2 DEF HolderInv
<1>8. ASSUME NEW e \in Daemons PROVE QueueOK(e)'
  <2>1. CASE e # d
    BY <1>a, <1>3, <2>1, SameQueue
  <2>2. CASE e = d /\ fails
    BY <1>3, <2>2 DEF QueueOK
  <2>3. CASE e = d /\ ~fails
    <3>1. queue'[e] = queue[e] /\ KeepsQueued
      BY <1>2, <1>3, <2>3 DEF KeepsQueued
    <3>. QED  BY <1>a, <3>1, QuietQueue
  <2>. QED  BY <2>1, <2>2, <2>3
<1>. QED  BY <1>7, <1>8 DEF ExecInv

LEMMA ExecInit == Init => ExecInv
<1>. SUFFICES ASSUME Init PROVE ExecInv
  OBVIOUS
<1>1. HolderInv
  BY DEF Init, HolderInv, SingleExecutor, Live
<1>2. \A d \in Daemons : QueueOK(d)
  BY DEF Init, QueueOK
<1>. QED  BY <1>1, <1>2 DEF ExecInv

\* Every step keeps it.
LEMMA ExecNext == TypeInv /\ ExecInv /\ [Next]_vars => ExecInv'
<1>. SUFFICES ASSUME TypeInv, ExecInv, [Next]_vars PROVE ExecInv'
  OBVIOUS
<1>. USE LifecycleAssumption
<1>a. TypeOK /\ HolderInv /\ \A d \in Daemons : QueueOK(d)
  BY DEF TypeInv, ExecInv
<1>i. \A i \in Issues : lease[i] \in IssueLease
  BY <1>a DEF TypeOK
<1>1. ASSUME NEW d \in Daemons, NEW i \in Issues, NEW n \in Claims, start_run(d, i, n)
      PROVE  ExecInv'
  <2>1. NoNewUnit /\ KeepsQueued
    BY <1>a, <1>1, ThreadStage DEF start_run
  <2>2. NoNewOffer
    BY <1>1 DEF start_run, NoNewOffer, dbVars
  <2>. QED  BY <1>a, <1>1, <2>1, <2>2, QuietHolders, QuietQueue DEF start_run, ExecInv
<1>r. ASSUME NEW d \in Daemons, NEW i \in Issues, NEW n \in Claims, replay_recovery(d, i, n)
      PROVE  ExecInv'
  <2>1. NoNewUnit /\ KeepsQueued
    BY <1>a, <1>r, ThreadStage DEF replay_recovery
  <2>2. NoNewOffer
    BY <1>r DEF replay_recovery, NoNewOffer, dbVars
  <2>. QED  BY <1>a, <1>r, <2>1, <2>2, QuietHolders, QuietQueue DEF replay_recovery, ExecInv
<1>2. ASSUME NEW d \in Daemons, NEW i \in Issues, NEW n \in Claims, heartbeat_owned_lease(d, i, n)
      PROVE  ExecInv'
  <2>1. NoNewUnit /\ KeepsQueued
    BY <1>2 DEF heartbeat_owned_lease, unitVars, NoNewUnit, KeepsQueued, Live
  <2>2. NoNewOffer
    BY <1>a, <1>i, <1>2, OtherOffer, RowOffer DEF heartbeat_owned_lease
  <2>. QED  BY <1>a, <1>2, <2>1, <2>2, QuietHolders, QuietQueue
         DEF heartbeat_owned_lease, unitVars, ExecInv
<1>3. ASSUME NEW d \in Daemons, NEW i \in Issues, NEW n \in Claims, finish_run(d, i, n)
      PROVE  ExecInv'
  <2>1. NoNewUnit /\ KeepsQueued
    BY <1>a, <1>3, ThreadStage DEF finish_run
  <2>2. NoNewOffer
    BY <1>3 DEF finish_run, NoNewOffer, dbVars
  <2>. QED  BY <1>a, <1>3, <2>1, <2>2, QuietHolders, QuietQueue DEF finish_run, ExecInv
<1>4. ASSUME NEW d \in Daemons, NEW i \in Issues, NEW n \in Claims, enter_cleanup(d, i, n)
      PROVE  ExecInv'
  <2>1. NoNewUnit /\ KeepsQueued
    BY <1>a, <1>4, ThreadStage DEF enter_cleanup
  <2>2. NoNewOffer
    <3>. DEFINE row == update_lease_status_conditional(lease[i], lease[i].lease_id, "cleanup_abandoned",
                             {"running", "cleanup_abandoned"}, NoRun, {n})
    <3>1. row.lease_id = lease[i].lease_id /\ (row.status \in Offered => lease[i].status \in Offered)
      BY <1>i, CasOffer DEF Offered
    <3>. QED  BY <1>a, <1>4, <3>1, RowOffer DEF enter_cleanup
  <2>. QED  BY <1>a, <1>4, <2>1, <2>2, QuietHolders, QuietQueue DEF enter_cleanup, ExecInv
<1>5. ASSUME NEW d \in Daemons, NEW i \in Issues, NEW n \in Claims, finish_cleanup(d, i, n)
      PROVE  ExecInv'
  <2>1. NoNewUnit /\ KeepsQueued
    BY <1>a, <1>5, ThreadStage DEF finish_cleanup
  <2>2. NoNewOffer
    <3>. DEFINE row == update_lease_status_conditional(lease[i], lease[i].lease_id, "cleanup_abandoned",
                             {"running", "cleanup_abandoned"}, NoRun, {n})
    <3>1. row.lease_id = lease[i].lease_id /\ (row.status \in Offered => lease[i].status \in Offered)
      BY <1>i, CasOffer DEF Offered
    <3>. QED  BY <1>a, <1>5, <3>1, RowOffer DEF finish_cleanup
  <2>. QED  BY <1>a, <1>5, <2>1, <2>2, QuietHolders, QuietQueue DEF finish_cleanup, ExecInv
<1>6. ASSUME NEW d \in Daemons, NEW i \in Issues, NEW n \in Claims, deny_ownership(d, i, n)
      PROVE  ExecInv'
  <2>1. NoNewUnit /\ KeepsQueued
    BY <1>a, <1>6, ThreadStage DEF deny_ownership
  <2>2. NoNewOffer
    <3>. DEFINE row == update_lease_status_conditional(lease[i], lease[i].lease_id, "failed",
                             {"running"}, NoRun, {n})
    <3>1. row.lease_id = lease[i].lease_id /\ (row.status \in Offered => lease[i].status \in Offered)
      BY <1>i, CasOffer DEF Offered
    <3>. QED  BY <1>a, <1>6, <3>1, RowOffer DEF deny_ownership
  <2>. QED  BY <1>a, <1>6, <2>1, <2>2, QuietHolders, QuietQueue DEF deny_ownership, ExecInv
<1>7. ASSUME NEW d \in Daemons, NEW i \in Issues, NEW n \in Claims, pause_for_external_wait(d, i, n)
      PROVE  ExecInv'
  <2>1. NoNewUnit /\ KeepsQueued
    BY <1>a, <1>7, ThreadStage DEF pause_for_external_wait
  <2>2. NoNewOffer
    BY <1>7 DEF pause_for_external_wait, NoNewOffer, dbVars
  <2>. QED  BY <1>a, <1>7, <2>1, <2>2, QuietHolders, QuietQueue DEF pause_for_external_wait, ExecInv
<1>8. ASSUME NEW d \in Daemons, NEW i \in Issues, NEW n \in Claims, thread_error(d, i, n)
      PROVE  ExecInv'
  <2>1. NoNewUnit /\ KeepsQueued
    BY <1>a, <1>8, ThreadStage DEF thread_error, InThread
  <2>2. NoNewOffer
    BY <1>8 DEF thread_error, NoNewOffer, dbVars
  <2>. QED  BY <1>a, <1>8, <2>1, <2>2, QuietHolders, QuietQueue DEF thread_error, ExecInv
<1>9. ASSUME NEW d \in Daemons, NEW i \in Issues, NEW n \in Claims, persist_external_wait_state(d, i, n)
      PROVE  ExecInv'
  <2>1. NoNewUnit /\ KeepsQueued
    BY <1>a, <1>9, ThreadStage DEF persist_external_wait_state
  <2>2. NoNewOffer
    BY <1>9 DEF persist_external_wait_state, NoNewOffer, dbVars
  <2>. QED  BY <1>a, <1>9, <2>1, <2>2, QuietHolders, QuietQueue DEF persist_external_wait_state, ExecInv
<1>10. ASSUME NEW d \in Daemons, NEW i \in Issues, NEW n \in Claims, recheck_capacity(d, i, n)
       PROVE  ExecInv'
  <2>1. NoNewUnit /\ KeepsQueued
    <3>1. SetStage(d, i, n, "cleared") \/ SetStage(d, i, n, "none")
      BY <1>10 DEF recheck_capacity
    <3>2. stage[d][i][n] \notin {"none", "queued"}
      BY <1>10 DEF recheck_capacity
    <3>. QED  BY <1>a, <3>1, <3>2, ThreadStage
  <2>2. NoNewOffer
    <3>1. lease' = lease \/ SetLease(i, update_lease_status(lease[i], n, "abandoned"))
      BY <1>10 DEF recheck_capacity
    <3>2. CASE lease' = lease
      BY <3>2 DEF NoNewOffer
    <3>3. CASE SetLease(i, update_lease_status(lease[i], n, "abandoned"))
      BY <1>a, <1>i, <3>3, OtherOffer, RowOffer
    <3>. QED  BY <3>1, <3>2, <3>3
  <2>. QED  BY <1>a, <1>10, <2>1, <2>2, QuietHolders, QuietQueue DEF recheck_capacity, ExecInv
<1>o. \A i \in Issues : RowOK(lease[i])
  BY DEF TypeInv
<1>p. ASSUME NEW i \in Issues, NEW id, NEW pending \in BOOLEAN
      PROVE  /\ upsert_claim_metadata(lease[i], id, pending).lease_id = lease[i].lease_id
             /\ upsert_claim_metadata(lease[i], id, pending).status = lease[i].status
             /\ lease[i].lease_id # id => upsert_claim_metadata(lease[i], id, pending) = lease[i]
  BY <1>o, ReceiptRow
<1>12. ASSUME NEW d \in Daemons, NEW i \in Issues, NEW n \in Claims, mark_running(d, i, n)
       PROVE  ExecInv'
  <2>. DEFINE row == update_lease_status_conditional(lease[i], n, "running", {"claimed"}, n, AnyOwner)
  <2>1. row.lease_id = lease[i].lease_id /\ (row.status \in Offered => lease[i].status \in Offered)
    BY <1>i, CasOffer DEF Offered
  <2>. QED  BY <1>a, <1>12, <2>1, QuietUnit DEF mark_running
<1>c. ASSUME NEW d \in Daemons, NEW i \in Issues, NEW n \in Claims,
             announce_claim(d, i, n) \/ abandon_failed_claim(d, i, n)
      PROVE  ExecInv'
  <2>1. PICK pending \in BOOLEAN : SetLease(i, upsert_claim_metadata(lease[i], n, pending))
    BY <1>c DEF announce_claim, abandon_failed_claim
  <2>2. CASE AbortPass(d)
    <3>1. NoNewOffer
      BY <1>a, <1>p, <2>1, RowOffer
    <3>. QED  BY <1>a, <2>2, <3>1, QuietDrop DEF AbortPass
  <2>3. CASE ~AbortPass(d)
    <3>1. PICK s : SetStage(d, i, n, s)
      BY <1>c, <2>3 DEF announce_claim, abandon_failed_claim
    <3>2. stage[d][i][n] \notin {"none", "queued"} /\ queue' = queue
      BY <1>c, <2>3 DEF announce_claim, abandon_failed_claim
    <3>. QED  BY <1>a, <1>p, <2>1, <3>1, <3>2, QuietUnit
  <2>. QED  BY <2>2, <2>3
<1>e. ASSUME NEW d \in Daemons, NEW i \in Issues, NEW n \in Claims, settle_claim(d, i, n)
      PROVE  ExecInv'
  <2>1. NoNewOffer
    BY <1>a, <1>e, <1>p, RowOffer DEF settle_claim
  <2>2. CASE AbortPass(d)
    BY <1>a, <2>1, <2>2, QuietDrop DEF AbortPass
  <2>3. CASE ~AbortPass(d)
    <3>1. /\ stage[d][i][n] = "marked" /\ SetStage(d, i, n, "queued")
          /\ Enqueue(d, DispatchUnit(i, n, FALSE))
      BY <1>e, <2>3 DEF settle_claim
    <3>2. NoNewUnit
      BY <1>a, <3>1, ThreadStage
    <3>3. \A e \in Daemons : QueueOK(e)'
      BY <1>a, <3>1, QueueAppend
    <3>. QED  BY <1>a, <2>1, <3>2, <3>3, QuietHolders DEF ExecInv
  <2>. QED  BY <2>2, <2>3
<1>f. ASSUME NEW d \in Daemons, NEW i \in Issues, NEW n \in Claims, abandon_lease(d, i, n)
      PROVE  ExecInv'
  <2>. DEFINE row == update_lease_status_conditional(lease[i], n, "abandoned",
                         {"claimed", "pending"}, n, AnyOwner)
  <2>1. row.lease_id = lease[i].lease_id /\ (row.status \in Offered => lease[i].status \in Offered)
    BY <1>i, CasOffer DEF Offered
  <2>. QED  BY <1>a, <1>f, <2>1, QuietUnit DEF abandon_lease
<1>u. ASSUME NEW d \in Daemons, NEW w \in todo[d], Reconciling(d, w) PROVE w.issue \in Issues
  BY <1>u DEF Reconciling, TypeInv, TodoOK, CleanupItemType
<1>w. ASSUME NEW d \in Daemons, NEW w \in todo[d], withdraw_claim(d, w)
      PROVE  ExecInv'
  <2>. DEFINE i == w.issue
              row == update_lease_status_conditional(lease[i], w.lease_id, "pending",
                         {"claimed"}, NoRun, AnyOwner)
  <2>0. i \in Issues
    BY <1>u, <1>w DEF withdraw_claim
  <2>1. row.lease_id = lease[i].lease_id /\ (row.status \in Offered => lease[i].status \in Offered)
    BY <1>i, <2>0, CasOffer DEF Offered
  <2>2. SetLease(i, row) /\ UNCHANGED <<stage, queue>>
    BY <1>w DEF withdraw_claim, unitVars
  <2>. QED  BY <1>a, <2>0, <2>1, <2>2, QuietRow
<1>y. ASSUME NEW d \in Daemons, NEW w \in todo[d], release_withdrawn_claim(d, w)
      PROVE  ExecInv'
  <2>. DEFINE i == w.issue
              row == update_lease_status_conditional(lease[i], w.lease_id, "abandoned",
                         {"pending"}, NoRun, AnyOwner)
  <2>0. i \in Issues
    BY <1>u, <1>y DEF release_withdrawn_claim
  <2>1. row.lease_id = lease[i].lease_id /\ (row.status \in Offered => lease[i].status \in Offered)
    BY <1>i, <2>0, CasOffer DEF Offered
  <2>2. SetLease(i, row) /\ UNCHANGED <<stage, queue>>
    BY <1>y DEF release_withdrawn_claim, unitVars
  <2>. QED  BY <1>a, <2>0, <2>1, <2>2, QuietRow
<1>13. ASSUME NEW d \in Daemons, NEW w \in todo[d], ApplyPoll(d, w)
       PROVE  ExecInv'
  <2>0. w.issue \in Issues /\ w.run \in Claims
    BY <1>13 DEF ApplyPoll, TypeInv, TodoOK, PollItemType
  <2>. DEFINE i == w.issue
              n == w.run
  <2>1. NoNewUnit /\ KeepsQueued /\ queue' = queue
    BY <1>13 DEF ApplyPoll, unitVars, NoNewUnit, KeepsQueued, Live
  <2>2. NoNewOffer
    <3>1. CASE apply_ready_to_resume(i, n, w)
      <4>. DEFINE row == update_lease_status_conditional(lease[i], w.row.lease_id,
                 "ready_to_resume", {"waiting_external", "ready_to_resume"}, NoRun, {n})
      <4>1. row.lease_id = lease[i].lease_id /\ (row.status \in Offered => lease[i].status \in Offered)
        BY <1>i, <2>0, CasOffer DEF Offered
      <4>. QED  BY <1>a, <2>0, <3>1, <4>1, RowOffer DEF apply_ready_to_resume
    <3>2. CASE apply_terminal_failure(i, n, w)
      <4>. DEFINE row == update_lease_status_conditional(lease[i], w.row.lease_id, "failed",
                 {"waiting_external", "ready_to_resume", "running", "claimed"}, NoRun, {n})
      <4>1. row.lease_id = lease[i].lease_id /\ (row.status \in Offered => lease[i].status \in Offered)
        BY <1>i, <2>0, CasOffer DEF Offered
      <4>. QED  BY <1>a, <2>0, <3>2, <4>1, RowOffer DEF apply_terminal_failure
    <3>3. CASE apply_still_waiting(i, n, w)
      <4>. DEFINE row == update_lease_status_conditional(lease[i], w.row.lease_id,
                 "waiting_external", {"waiting_external"}, NoRun, {n})
      <4>1. row.lease_id = lease[i].lease_id /\ (row.status \in Offered => lease[i].status \in Offered)
        BY <1>i, <2>0, CasOffer DEF Offered
      <4>. QED  BY <1>a, <2>0, <3>3, <4>1, RowOffer DEF apply_still_waiting
    <3>4. CASE skipped_poll(i, n, w)
      BY <3>4 DEF skipped_poll, NoNewOffer
    <3>. QED  BY <1>13, <3>1, <3>2, <3>3, <3>4 DEF ApplyPoll
  <2>. QED  BY <1>a, <2>1, <2>2, QuietHolders, QuietQueue DEF ExecInv
<1>14. ASSUME UNCHANGED <<lease, stage, queue>> PROVE ExecInv'
  BY <1>a, <1>14 DEF ExecInv, HolderInv, SingleExecutor, QueueOK, Live
<1>x. ASSUME NEW d \in Daemons, NEW w \in todo[d], reconcile_pending_cleanup(d, w)
      PROVE  ExecInv'
  <2>0. w.issue \in Issues
    BY <1>u, <1>x DEF reconcile_pending_cleanup
  <2>1. CASE UNCHANGED <<lease, unitVars>>
    BY <1>14, <2>1 DEF unitVars
  <2>2. CASE /\ SetLease(w.issue, upsert_claim_metadata(lease[w.issue], w.lease_id, FALSE))
             /\ UNCHANGED unitVars
    BY <1>a, <1>p, <2>0, <2>2, QuietRow DEF unitVars
  <2>3. CASE AbortPass(d) /\ UNCHANGED lease
    <3>1. NoNewOffer
      BY <2>3 DEF NoNewOffer
    <3>. QED  BY <1>a, <2>3, <3>1, QuietDrop DEF AbortPass
  <2>. QED  BY <1>x, <2>1, <2>2, <2>3 DEF reconcile_pending_cleanup
<1>15. ASSUME NEW d \in Daemons, NEW w \in todo[d],
              Admit(d, w) \/ Skip(d, w) \/ claim_bound(d, w)
       PROVE  ExecInv'
  BY <1>14, <1>15 DEF Admit, Skip, claim_bound, dbVars, unitVars
<1>16. ASSUME NEW d \in Daemons, NEW w \in todo[d], prepare_resume_lease(d, w)
       PROVE  ExecInv'
  <2>. DEFINE i == w.issue
              n == w.run
              row == update_lease_status_conditional(lease[i], n, "running",
                         {"ready_to_resume"}, n, {n})
  <2>1. CASE UNCHANGED <<lease, stage, queue>>
    BY <1>14, <2>1
  <2>2. CASE /\ cas_applies(lease[i], n, {"ready_to_resume"}, {n})
             /\ SetLease(i, row)
             /\ SetStage(d, i, n, "queued")
             /\ Enqueue(d, DispatchUnit(i, n, TRUE))
    <3>1. i \in Issues /\ n \in {NoRun} \cup Claims
      BY <1>16 DEF prepare_resume_lease, TypeInv, TodoOK, ItemType
    <3>2. lease[i].lease_id = n /\ lease[i].status = "ready_to_resume"
      BY <2>2 DEF cas_applies
    <3>3. n \in Claims
      BY <3>1, <3>2 DEF TypeInv, RowOK, NoLease, NoRun
    <3>4. \A e \in Daemons : stage[e][i][n] = "none"
      BY <1>a, <3>1, <3>2, <3>3 DEF HolderInv, Live, Offered
    <3>5. \A e \in Daemons : QueueOK(e)'
      BY <1>a, <2>2, <3>1, <3>3, <3>4, QueueAppend
    <3>6. row.lease_id = lease[i].lease_id /\ row.status = "running"
      BY <1>i, <2>2, <3>1 DEF update_lease_status_conditional, IssueLease
    <3>7. \A j \in Issues : /\ lease'[j].lease_id = lease[j].lease_id
                            /\ j # i => lease'[j] = lease[j]
                            /\ j = i => lease'[j].status = "running"
      BY <1>a, <2>2, <3>1, <3>6 DEF TypeOK, SetLease
    <3>8. \A e \in Daemons, j \in Issues, m \in Claims :
             stage'[e][j][m] = IF e = d /\ j = i /\ m = n THEN "queued" ELSE stage[e][j][m]
      BY <1>a, <2>2 DEF TypeOK, SetStage
    <3>9. HolderInv'
      <4>1. SingleExecutor'
        BY <1>a, <3>4, <3>8 DEF HolderInv, SingleExecutor, Live
      <4>2. ASSUME NEW e \in Daemons, NEW j \in Issues, NEW m \in Claims, Live(e, j, m)'
            PROVE  /\ m <= lease'[j].lease_id
                   /\ m = lease'[j].lease_id => lease'[j].status \notin Offered
        <5>1. CASE e = d /\ j = i /\ m = n
          BY <3>2, <3>3, <3>7, <5>1 DEF Offered, Claims
        <5>2. CASE ~(e = d /\ j = i /\ m = n)
          <6>1. Live(e, j, m)
            BY <3>8, <4>2, <5>2 DEF Live
          <6>. QED  BY <1>a, <3>7, <6>1 DEF HolderInv, Offered
        <5>. QED  BY <5>1, <5>2
      <4>. QED  BY <4>1, <4>2 DEF HolderInv
    <3>. QED  BY <3>5, <3>9 DEF ExecInv
  <2>. QED  BY <1>16, <2>1, <2>2 DEF prepare_resume_lease
<1>17. ASSUME NEW d \in Daemons, NEW w \in todo[d], claim_for_launch(d, w)
       PROVE  ExecInv'
  <2>. DEFINE i == w.issue
              n == lease[i].lease_id + 1
  <2>0. i \in Issues /\ lease[i].lease_id \in Nat
    BY <1>i, <1>17 DEF claim_for_launch, TypeInv, TodoOK, ItemType, IssueLease
  <2>1. CASE ~claim_wins(lease[i])
    <3>1. lease' = lease /\ stage' = stage /\ queue' = queue
      BY <1>a, <1>17, <2>0, <2>1 DEF claim_for_launch, SetLease, try_claim, TypeOK
    <3>. QED  BY <1>14, <3>1
  <2>2. CASE claim_wins(lease[i])
    <3>1. /\ n \in Claims
          /\ SetLease(i, try_claim(lease[i]))
          /\ SetStage(d, i, n, "claimed")
          /\ queue' = queue
      BY <1>17, <2>0, <2>2 DEF claim_for_launch, Claims
    <3>2. try_claim(lease[i]).lease_id = n /\ try_claim(lease[i]).status = "claimed"
      BY <2>2 DEF try_claim
    <3>3. \A e \in Daemons, m \in Claims : Live(e, i, m) => m < n
      BY <1>a, <2>0 DEF HolderInv, Claims
    <3>4. \A e \in Daemons, j \in Issues, m \in Claims :
             stage'[e][j][m] = IF e = d /\ j = i /\ m = n THEN "claimed" ELSE stage[e][j][m]
      BY <1>a, <3>1 DEF TypeOK, SetStage
    <3>5. stage[d][i][n] = "none"
      BY <2>0, <3>1, <3>3 DEF Live
    <3>6. KeepsQueued
      BY <3>4, <3>5 DEF KeepsQueued
    <3>7. \A j \in Issues : /\ j = i => lease'[j].lease_id = n /\ lease'[j].status = "claimed"
                            /\ j # i => lease'[j] = lease[j]
      BY <1>a, <3>1, <3>2 DEF TypeOK, SetLease
    <3>8. SingleExecutor'
      <4>1. \A e \in Daemons : ~Live(e, i, n)
        BY <2>0, <3>1, <3>3
      <4>. QED  BY <1>a, <3>4, <4>1 DEF HolderInv, SingleExecutor, Live
    <3>9. ASSUME NEW e \in Daemons, NEW j \in Issues, NEW m \in Claims, Live(e, j, m)'
          PROVE  /\ m <= lease'[j].lease_id
                 /\ m = lease'[j].lease_id => lease'[j].status \notin Offered
      <4>1. CASE j = i
        <5>1. lease'[j].lease_id = n /\ lease'[j].status = "claimed"
          BY <3>7, <4>1
        <5>2. m = n \/ m < n
          BY <3>3, <3>4, <3>9, <4>1 DEF Live
        <5>. QED  BY <2>0, <5>1, <5>2 DEF Offered, Claims
      <4>2. CASE j # i
        <5>1. Live(e, j, m)
          BY <3>4, <3>9, <4>2 DEF Live
        <5>. QED  BY <1>a, <3>7, <4>2, <5>1 DEF HolderInv
      <4>. QED  BY <4>1, <4>2
    <3>10. HolderInv'
      BY <3>8, <3>9 DEF HolderInv
    <3>. QED  BY <1>a, <3>1, <3>6, <3>10, QuietQueue DEF ExecInv
  <2>. QED  BY <2>1, <2>2
<1>18. ASSUME NEW d \in Daemons,
              \/ list_pending_claim_cleanups(d)
              \/ \E due \in SUBSET Issues : list_pollable_wait_states(d, due)
              \/ list_ready_to_resume_leases(d)
              \/ discover(d) \/ begin_dispatch(d) \/ end_pass(d)
       PROVE  ExecInv'
  <2>1. UNCHANGED <<dbVars, unitVars>>
    BY <1>18 DEF list_pending_claim_cleanups, list_pollable_wait_states, list_ready_to_resume_leases, discover,
                 begin_dispatch, end_pass
  <2>. QED  BY <1>14, <2>1 DEF dbVars, unitVars
<1>19. ASSUME NEW d \in Daemons, dispatch_unit_chunk(d)
       PROVE  ExecInv'
  <2>. DEFINE q == queue[d]
              k == Least(Len(q), GlobalLimit)
              spawned == {Item(q[j].issue, q[j].run) : j \in 1..k}
  <2>1. q \in Seq(Unit)
    BY <1>a DEF TypeOK
  <2>2. Len(q) \in Nat /\ k \in Nat /\ k <= Len(q)
    BY <2>1 DEF Least
  <2>3. /\ lease' = lease
        /\ queue' = [queue EXCEPT ![d] = SubSeq(q, k + 1, Len(q))]
        /\ stage' = [stage EXCEPT ![d] =
               [i \in Issues |-> [n \in Claims |->
                   IF Item(i, n) \in spawned THEN "starting" ELSE stage[d][i][n]]]]
    BY <1>19 DEF dispatch_unit_chunk, dbVars
  <2>4. \A i \in Issues, n \in Claims :
           stage'[d][i][n] = IF Item(i, n) \in spawned THEN "starting" ELSE stage[d][i][n]
    BY <1>a, <2>3 DEF TypeOK
  <2>5. \A e \in Daemons : e # d => stage'[e] = stage[e] /\ queue'[e] = queue[e]
    BY <1>a, <2>3 DEF TypeOK
  <2>6. queue'[d] = SubSeq(q, k + 1, Len(q))
    BY <1>a, <2>3 DEF TypeOK
  <2>7. \A a, b \in 1..Len(q) : /\ stage[d][q[a].issue][q[a].run] = "queued"
                                /\ (q[a].issue = q[b].issue /\ q[a].run = q[b].run) => a = b
    BY <1>a DEF QueueOK
  <2>8. \A a \in 1..Len(q) : q[a] \in Unit
    BY <2>1
  <2>9. \A a \in 1..Len(q) : q[a].issue \in Issues /\ q[a].run \in Claims
    BY <2>8 DEF Unit
  <2>. HIDE DEF q, k
  <2>10. NoNewUnit
    <3>1. ASSUME NEW i \in Issues, NEW n \in Claims, Item(i, n) \in spawned
          PROVE  stage[d][i][n] = "queued"
      <4>1. PICK j \in 1..k : Item(i, n) = Item(q[j].issue, q[j].run)
        BY <3>1
      <4>2. q[j].issue = i /\ q[j].run = n
        BY <4>1 DEF Item
      <4>. QED  BY <2>2, <2>7, <4>2
    <3>. HIDE DEF spawned
    <3>2. \A i \in Issues, n \in Claims : stage'[d][i][n] # "none" => stage[d][i][n] # "none"
      BY <2>4, <3>1
    <3>. QED  BY <2>5, <3>2 DEF NoNewUnit, Live
  <2>11. ASSUME NEW e \in Daemons PROVE QueueOK(e)'
    <3>1. CASE e # d
      BY <1>a, <2>5, <3>1 DEF QueueOK
    <3>2. CASE e = d
      <4>1. /\ Len(queue'[d]) = Len(q) - k
            /\ \A a \in 1..(Len(q) - k) : queue'[d][a] = q[k + a]
        BY <2>1, <2>2, <2>6
      <4>2. \A a \in 1..(Len(q) - k) : k + a \in 1..Len(q)
        BY <2>2
      <4>3. \A a, b \in 1..(Len(q) - k) :
                 (q[k + a].issue = q[k + b].issue /\ q[k + a].run = q[k + b].run) => a = b
        BY <2>2, <2>7, <4>2
      <4>4. \A a \in 1..(Len(q) - k) : Item(q[k + a].issue, q[k + a].run) \notin spawned
        <5>1. ASSUME NEW a \in 1..(Len(q) - k), NEW j \in 1..k
              PROVE  Item(q[k + a].issue, q[k + a].run) # Item(q[j].issue, q[j].run)
          <6>1. k + a \in 1..Len(q) /\ j \in 1..Len(q) /\ k + a # j
            BY <2>2, <4>2
          <6>2. ~(q[k + a].issue = q[j].issue /\ q[k + a].run = q[j].run)
            BY <2>7, <6>1
          <6>. QED  BY <6>2 DEF Item
        <5>. QED  BY <5>1
      <4>. HIDE DEF spawned
      <4>5. \A a \in 1..(Len(q) - k) : stage'[d][q[k + a].issue][q[k + a].run] = "queued"
        BY <2>4, <2>7, <2>9, <4>2, <4>4
      <4>6. \A a, b \in 1..(Len(q) - k) :
               /\ stage'[d][queue'[d][a].issue][queue'[d][a].run] = "queued"
               /\ (queue'[d][a].issue = queue'[d][b].issue /\ queue'[d][a].run = queue'[d][b].run)
                     => a = b
        BY <4>1, <4>3, <4>5
      <4>7. 1..Len(queue'[d]) = 1..(Len(q) - k)
        BY <4>1
      <4>. QED  BY <3>2, <4>6, <4>7 DEF QueueOK
    <3>. QED  BY <3>1, <3>2
  <2>12. NoNewOffer
    BY <2>3 DEF NoNewOffer
  <2>. QED  BY <1>a, <2>10, <2>11, <2>12, QuietHolders DEF ExecInv
<1>20. ASSUME NEW d \in Daemons, join_unit(d)
       PROVE  ExecInv'
  <2>1. PICK i \in Issues, n \in Claims : Head(chunk[d]).issue = i /\ Head(chunk[d]).run = n
    BY <1>a, <1>20, HeadUnit DEF join_unit
  <2>. DEFINE result == stage[d][i][n]
              row == finish_lease_after_result(i, n, result)
  <2>2. result \in Returned /\ result \notin {"none", "queued"}
    BY <1>20, <2>1 DEF join_unit, Returned
  <2>3. SetLease(i, row)
    BY <1>20, <2>1 DEF join_unit
  <2>4. \A s, expected : LET new == update_lease_status_conditional(lease[i], n, s, expected, n, {n})
                         IN  /\ new.lease_id = lease[i].lease_id
                             /\ lease[i].lease_id # n => new = lease[i]
                             /\ new.status = IF cas_applies(lease[i], n, expected, {n})
                                             THEN s ELSE lease[i].status
    BY <1>i DEF update_lease_status_conditional, cas_applies, IssueLease
  <2>5. row.lease_id = lease[i].lease_id /\ (lease[i].lease_id # n => row = lease[i])
    <3>. HIDE DEF result
    <3>. QED  BY <2>2, <2>4 DEF finish_lease_after_result, Returned
  <2>6. CASE launch_failed(i, n, result) /\ SetStage(d, i, n, "launch_failed") /\ queue' = queue
    <3>1. row.status \in Offered => lease[i].status \in Offered
      <4>. HIDE DEF result
      <4>1. CASE result = "failure"
        BY <2>4, <4>1 DEF finish_lease_after_result, Offered
      <4>2. CASE result = "denied"
        BY <2>4, <4>2 DEF finish_lease_after_result, Offered
      <4>3. CASE result = "cleanup"
        BY <2>4, <4>3 DEF finish_lease_after_result, Offered
      <4>4. CASE result = "error"
        <5>1. ~has_pollable_external_wait(i, n)
          BY <2>6, <4>4 DEF launch_failed
        <5>. QED  BY <2>4, <4>4, <5>1 DEF finish_lease_after_result, Offered
      <4>. QED  BY <2>6, <4>1, <4>2, <4>3, <4>4 DEF launch_failed
    <3>. HIDE DEF row
    <3>. QED  BY <1>a, <2>2, <2>3, <2>5, <2>6, <3>1, QuietUnit
  <2>7. CASE \E fails \in BOOLEAN : Retire(d, fails)
    <3>1. PICK fails \in BOOLEAN : Retire(d, fails)
      BY <2>7
    <3>. HIDE DEF row
    <3>. QED  BY <1>a, <2>1, <2>2, <2>3, <2>5, <3>1, RetireExec
  <2>8. (result = "denied" /\ denial_error(i, n)) \in BOOLEAN
    OBVIOUS
  <2>. QED  BY <1>20, <2>1, <2>6, <2>7, <2>8 DEF join_unit
<1>m. ASSUME NEW d \in Daemons, mark_claim_cleanup(d) \/ settle_claim_cleanup(d)
      PROVE  ExecInv'
  <2>1. PICK i \in Issues, n \in Claims : Head(chunk[d]).issue = i /\ Head(chunk[d]).run = n
    BY <1>a, <1>m, HeadUnit DEF mark_claim_cleanup, settle_claim_cleanup
  <2>2. stage[d][i][n] \notin {"none", "queued"}
    BY <1>m, <2>1 DEF mark_claim_cleanup, settle_claim_cleanup
  <2>3. PICK row : /\ SetLease(i, row)
                   /\ row.lease_id = lease[i].lease_id /\ row.status = lease[i].status
                   /\ lease[i].lease_id # n => row = lease[i]
    <3>1. \/ UNCHANGED lease
          \/ \E pending \in BOOLEAN : SetLease(i, upsert_claim_metadata(lease[i], n, pending))
      BY <1>m, <2>1 DEF mark_claim_cleanup, settle_claim_cleanup
    <3>2. CASE UNCHANGED lease
      <4>1. SetLease(i, lease[i])
        BY <1>a, <3>2 DEF SetLease, TypeOK
      <4>. QED  BY <4>1
    <3>. QED  BY <1>p, <3>1, <3>2
  <2>4. CASE SetStage(d, i, n, "releasing") /\ queue' = queue
    BY <1>a, <2>2, <2>3, <2>4, QuietUnit
  <2>5. CASE \E fails \in BOOLEAN : Retire(d, fails)
    <3>1. PICK fails \in BOOLEAN : Retire(d, fails)
      BY <2>5
    <3>. QED  BY <1>a, <2>1, <2>2, <2>3, <3>1, RetireExec
  <2>6. (lease[i].lease_id # n) \in BOOLEAN
    OBVIOUS
  <2>. QED  BY <1>m, <2>1, <2>4, <2>5, <2>6 DEF mark_claim_cleanup, settle_claim_cleanup
<1>21. ASSUME NEW d \in Daemons, Start(d)
       PROVE  ExecInv'
  <2>1. NoNewUnit /\ KeepsQueued /\ queue' = queue
    BY <1>21 DEF Start, unitVars, NoNewUnit, KeepsQueued, Live
  <2>2. NoNewOffer
    BY <1>a, <1>i, <1>21, OtherOffer DEF Start, NoNewOffer
  <2>. QED  BY <1>a, <2>1, <2>2, QuietHolders, QuietQueue DEF ExecInv
<1>22. ASSUME NEW d \in Daemons, Crash(d)
       PROVE  ExecInv'
  <2>1. NoNewOffer /\ DropUnits(d)
    BY <1>22 DEF Crash, NoNewOffer, dbVars
  <2>. QED  BY <1>a, <2>1, QuietDrop
<1>23. ASSUME NEW i \in Issues, Age(i)
       PROVE  ExecInv'
  <2>1. NoNewUnit /\ KeepsQueued /\ queue' = queue
    BY <1>23 DEF Age, unitVars, NoNewUnit, KeepsQueued, Live
  <2>2. NoNewOffer
    BY <1>a, <1>i, <1>23, OtherOffer, RowOffer DEF Age
  <2>. QED  BY <1>a, <2>1, <2>2, QuietHolders, QuietQueue DEF ExecInv
<1>24. CASE UNCHANGED vars
  BY <1>14, <1>24 DEF vars
<1>25. ASSUME NEW d \in Daemons, DaemonStep(d)
       PROVE  ExecInv'
  <2>1. CASE PassStep(d)
    BY <2>1, <1>18, <1>19, <1>20, <1>m DEF PassStep
  <2>2. CASE \E w \in todo[d] : ItemStep(d, w)
    BY <2>2, <1>13, <1>15, <1>16, <1>17, <1>w, <1>x, <1>y DEF ItemStep
  <2>3. CASE \E i \in Issues, n \in Claims : ClaimStep(d, i, n)
    BY <2>3, <1>10, <1>12, <1>c, <1>e, <1>f DEF ClaimStep
  <2>4. CASE \E i \in Issues, n \in Claims : ThreadStep(d, i, n)
    BY <2>4, <1>1, <1>r, <1>2, <1>3, <1>4, <1>5, <1>6, <1>7, <1>8, <1>9 DEF ThreadStep
  <2>. QED  BY <1>25, <2>1, <2>2, <2>3, <2>4 DEF DaemonStep
<1>. QED  BY <1>21, <1>22, <1>23, <1>24, <1>25 DEF Next

\* No run is ever executed by two daemons, nor resumed while the daemon that
\* suspended it still holds its unit: for every number of daemons, issues and
\* claims, with crashes, stale marking and stale polls at any point.
THEOREM ExecutorIsUnique == Spec => []SingleExecutor
<1>1. ExecInv => SingleExecutor
  BY DEF ExecInv, HolderInv
<1>. QED  BY <1>1, TypeInit, TypeNext, ExecInit, ExecNext, PTL DEF Spec

----------------------------------------------------------------------------
(* Leases, runs and waits.  The invariant relates the row of an issue to    *)
(* the run and the wait of each of its claims, and to the units at work.    *)

\* A row that names a run names the run of its own claim, and a ready lease
\* one that is ready and whose wait has been consumed.
LeaseRowInv(i) ==
    /\ lease[i].run_id \in {NoRun, lease[i].lease_id}
    /\ lease[i].status \in {"claimed", "pending"} => lease[i].run_id = NoRun
    /\ lease[i].status = "ready_to_resume" =>
          /\ lease[i].run_id = lease[i].lease_id
          /\ run[i][lease[i].lease_id] = "ready_to_resume"
          /\ wait[i][lease[i].lease_id].sid = 0

\* A claim that is not made yet has neither run nor wait.
FreshInv(i, n) ==
    n > lease[i].lease_id => run[i][n] = "none" /\ sids[i][n] = 0 /\ wait[i][n].sid = 0

\* No unit is at work on a run that has ended (s is the stage of a unit).
RunInv(i, n, s) ==
    /\ s \in Claiming => run[i][n] = "none"
    /\ s \in {"queued", "starting"} => run[i][n] \in {"none", "ready_to_resume"}
    /\ s \in {"executing", "cleaning"} => run[i][n] \in {"running", "ready_to_resume"}

\* While it is being made, a claim's lease is still claimed, or was taken away.
ClaimingInv(i, n, s) ==
    n = lease[i].lease_id /\ s \in Claiming \ {"marked"} =>
        lease[i].status \in {"claimed", "pending", "abandoned", "stale"}

\* A wait that was listed for polling is never the wait of a unit at work: its
\* suspension id is older than the one the unit writes.
PolledInv(i, n) ==
    /\ wait[i][n].sid <= sids[i][n]
    /\ \A d \in Daemons : pass[d] = "poll" =>
          \A w \in todo[d] : w.issue = i /\ w.run = n =>
              /\ w.row.sid # 0
              /\ w.row.sid <= sids[i][n]
              /\ w.row.sid = wait[i][n].sid => \A e \in Daemons : ~Live(e, i, n)

\* The run waits, or was told that it does by a replay.
Awaits(i, n) == run[i][n] = "waiting_external" \/ replayed(i, n)

\* A unit that returns suspended leaves a wait that is listed for polling.
SuspendInv(i, n, s) ==
    /\ s \in {"suspending", "suspended"} => Awaits(i, n)
    /\ s = "suspended" /\ n = lease[i].lease_id =>
           wait[i][n].sid # 0 /\ wait[i][n].lease_id = n

WaitingInv(i, n) ==
    n = lease[i].lease_id /\ lease[i].status = "waiting_external" =>
        Pollable(i, n) /\ Awaits(i, n)

\* Where holders heartbeat in time, the lease of a unit at work protects the
\* issue, and no startup marks it stale.
ProtectInv(i, n, s) ==
    ~LongSteps /\ s \in AtWork =>
        /\ lease[i].lease_id = n
        /\ lease[i].run_id = n
        /\ lease[i].status \in {"running", "cleanup_abandoned"}
        /\ lease[i].status = "running" => ~lease[i].overdue

UnitInv(i, n, s) ==
    RunInv(i, n, s) /\ ClaimingInv(i, n, s) /\ SuspendInv(i, n, s) /\ ProtectInv(i, n, s)

ClaimInv(i, n) ==
    /\ FreshInv(i, n)
    /\ PolledInv(i, n)
    /\ WaitingInv(i, n)
    /\ \A d \in Daemons : UnitInv(i, n, stage[d][i][n])

LifeInv == \A i \in Issues : LeaseRowInv(i) /\ \A n \in Claims : ClaimInv(i, n)

\* What LeaseMovesForward asks of a step, for one lease and for one run.
LeaseForward(i) ==
    \/ lease'[i].status = lease[i].status /\ lease'[i].lease_id = lease[i].lease_id
    \/ /\ lease'[i].lease_id = lease[i].lease_id
       /\ <<lease[i].status, lease'[i].status>> \in LeaseMoves
    \/ /\ lease'[i].lease_id = lease[i].lease_id + 1
       /\ claim_wins(lease[i]) /\ lease'[i].status = "claimed"

RunForward(i, n) == run[i][n] \in TerminalRun => run'[i][n] = run[i][n]

Forward == \A i \in Issues : LeaseForward(i) /\ \A n \in Claims : RunForward(i, n)

\* A step that leaves the lease as it is, its receipt apart.
SameRow(i) ==
    /\ lease'[i].lease_id = lease[i].lease_id
    /\ lease'[i].status = lease[i].status
    /\ lease'[i].run_id = lease[i].run_id
    /\ lease'[i].overdue = lease[i].overdue

\* A step that leaves the run and the wait of a claim alone, and starts no unit.
SameClaim(i, n) ==
    /\ run'[i][n] = run[i][n]
    /\ wait'[i][n] = wait[i][n]
    /\ sids'[i][n] = sids[i][n]
    /\ \A e \in Daemons : stage'[e][i][n] \in {stage[e][i][n], "none"}

\* A step that lists no wait for polling.
FewerPolls ==
    \A d \in Daemons : pass'[d] = "poll" => pass[d] = "poll" /\ todo'[d] \subseteq todo[d]

LEMMA SamePolls ==
    ASSUME NEW i \in Issues, NEW n \in Claims, PolledInv(i, n), SameClaim(i, n), FewerPolls
    PROVE  PolledInv(i, n)'
  BY DEF PolledInv, SameClaim, FewerPolls, Live

\* A claim that is not the lease's keeps its part of the invariant whatever
\* happens to the status of the lease.
LEMMA ClaimKept ==
    ASSUME NEW i \in Issues, NEW n \in Claims, ClaimInv(i, n), SameClaim(i, n), FewerPolls,
           SameRow(i) \/ (lease'[i].lease_id = lease[i].lease_id /\ n # lease[i].lease_id)
    PROVE  ClaimInv(i, n)'
<1>a. /\ FreshInv(i, n) /\ PolledInv(i, n) /\ WaitingInv(i, n)
      /\ \A d \in Daemons : UnitInv(i, n, stage[d][i][n])
  BY DEF ClaimInv
<1>l. lease'[i].lease_id = lease[i].lease_id
  BY DEF SameRow
<1>1. FreshInv(i, n)'
  BY <1>a, <1>l DEF FreshInv, SameClaim
<1>2. PolledInv(i, n)'
  BY <1>a, SamePolls
<1>3. WaitingInv(i, n)'
  BY <1>a, <1>l DEF WaitingInv, SameClaim, SameRow, Awaits, replayed, Pollable
<1>4. ASSUME NEW d \in Daemons PROVE UnitInv(i, n, stage[d][i][n])'
  <2>0. UnitInv(i, n, "none")'
    BY DEF UnitInv, RunInv, ClaimingInv, SuspendInv, Awaits, replayed, ProtectInv, Claiming, AtWork, InThread
  <2>1. CASE stage'[d][i][n] = "none"
    BY <2>0, <2>1
  <2>2. CASE stage'[d][i][n] = stage[d][i][n]
    <3>1. UnitInv(i, n, stage[d][i][n])
      BY <1>a
    <3>2. CASE SameRow(i)
      BY <2>2, <3>1, <3>2 DEF UnitInv, RunInv, ClaimingInv, SuspendInv, Awaits, replayed, ProtectInv, SameClaim, SameRow
    <3>3. CASE n # lease[i].lease_id
      BY <1>l, <2>2, <3>1, <3>3 DEF UnitInv, RunInv, ClaimingInv, SuspendInv, Awaits, replayed, ProtectInv, SameClaim
    <3>. QED  BY <3>2, <3>3
  <2>. QED  BY <2>1, <2>2 DEF SameClaim
<1>. QED  BY <1>1, <1>2, <1>3, <1>4 DEF ClaimInv

\* A step that only concerns one claim of one issue.
OnlyClaim(i, n) ==
    /\ \A j \in Issues, m \in Claims : ~(j = i /\ m = n) => SameClaim(j, m)
    /\ \A j \in Issues : j # i => SameRow(j)
    /\ lease'[i].lease_id = lease[i].lease_id
    /\ lease[i].lease_id # n => SameRow(i)
    /\ FewerPolls

\* It is enough to look at that claim.
LEMMA OneClaim ==
    ASSUME TypeInv, LifeInv, NEW i \in Issues, NEW n \in Claims, OnlyClaim(i, n),
           lease[i].lease_id = n => LeaseRowInv(i)' /\ LeaseForward(i),
           ClaimInv(i, n)', RunForward(i, n)
    PROVE  LifeInv' /\ Forward
<1>1. ASSUME NEW j \in Issues, NEW m \in Claims PROVE ClaimInv(j, m)'
  <2>1. CASE j = i /\ m = n
    BY <2>1
  <2>2. CASE ~(j = i /\ m = n)
    <3>1. ClaimInv(j, m) /\ SameClaim(j, m) /\ FewerPolls
      BY <2>2 DEF LifeInv, OnlyClaim
    <3>2. SameRow(j) \/ (lease'[j].lease_id = lease[j].lease_id /\ m # lease[j].lease_id)
      BY <2>2 DEF OnlyClaim
    <3>. QED  BY <3>1, <3>2, ClaimKept
  <2>. QED  BY <2>1, <2>2
<1>2. ASSUME NEW j \in Issues PROVE LeaseRowInv(j)' /\ LeaseForward(j)
  <2>1. CASE j = i /\ lease[i].lease_id = n
    BY <2>1
  <2>2. CASE ~(j = i /\ lease[i].lease_id = n)
    <3>1. SameRow(j) /\ LeaseRowInv(j) /\ RowOK(lease[j])
      BY <2>2 DEF OnlyClaim, LifeInv, TypeInv
    <3>2. lease[j].lease_id \in Claims => SameClaim(j, lease[j].lease_id)
      BY <2>2 DEF OnlyClaim
    <3>3. lease[j].status = "ready_to_resume" => lease[j].lease_id \in Claims
      BY <3>1, LifecycleAssumption DEF RowOK, IssueLease, Claims, NoLease
    <3>. QED  BY <3>1, <3>2, <3>3 DEF LeaseRowInv, LeaseForward, SameRow, SameClaim
  <2>. QED  BY <2>1, <2>2
<1>3. ASSUME NEW j \in Issues, NEW m \in Claims PROVE RunForward(j, m)
  BY DEF OnlyClaim, SameClaim, RunForward
<1>. QED  BY <1>1, <1>2, <1>3 DEF LifeInv, Forward

\* Everything but one claim of one issue is left alone.
Elsewhere(i, n) ==
    \A j \in Issues, m \in Claims : ~(j = i /\ m = n) =>
        run'[j][m] = run[j][m] /\ wait'[j][m] = wait[j][m] /\ sids'[j][m] = sids[j][m]

\* A step of a unit rewrites the unit's stage and, if its claim still has it,
\* the lease row.
UnitWrites(d, i, n, s, row) ==
    /\ SetStage(d, i, n, s)
    /\ SetLease(i, row)
    /\ row.lease_id = lease[i].lease_id
    /\ lease[i].lease_id # n => /\ row.status = lease[i].status
                                /\ row.run_id = lease[i].run_id
                                /\ row.overdue = lease[i].overdue

LEMMA UnitOnly ==
    ASSUME TypeOK, NEW d \in Daemons, NEW i \in Issues, NEW n \in Claims, NEW s, NEW row,
           UnitWrites(d, i, n, s, row), Elsewhere(i, n), FewerPolls
    PROVE  /\ OnlyClaim(i, n)
           /\ lease'[i] = row
           /\ \A e \in Daemons : stage'[e][i][n] = IF e = d THEN s ELSE stage[e][i][n]
<1>1. \A e \in Daemons, j \in Issues, m \in Claims :
         stage'[e][j][m] = IF e = d /\ j = i /\ m = n THEN s ELSE stage[e][j][m]
  BY DEF TypeOK, SetStage, UnitWrites
<1>2. \A j \in Issues : lease'[j] = IF j = i THEN row ELSE lease[j]
  BY DEF TypeOK, SetLease, UnitWrites
<1>3. \A j \in Issues, m \in Claims : ~(j = i /\ m = n) => SameClaim(j, m)
  BY <1>1 DEF SameClaim, Elsewhere
<1>4. \A j \in Issues : j # i => SameRow(j)
  BY <1>2 DEF SameRow
<1>5. /\ lease'[i].lease_id = lease[i].lease_id
      /\ lease[i].lease_id # n => SameRow(i)
  BY <1>2 DEF SameRow, UnitWrites
<1>. QED  BY <1>1, <1>2, <1>3, <1>4, <1>5 DEF OnlyClaim

\* The claim of a unit that had been alone with it.
LEMMA UnitClaim ==
    ASSUME TypeInv, ExecInv, NEW d \in Daemons, NEW i \in Issues, NEW n \in Claims,
           Live(d, i, n), NEW s, lease'[i].lease_id = lease[i].lease_id,
           \A e \in Daemons : stage'[e][i][n] = s \/ (e # d /\ stage'[e][i][n] = stage[e][i][n]),
           PolledInv(i, n)', WaitingInv(i, n)', UnitInv(i, n, s)'
    PROVE  ClaimInv(i, n)'
<1>1. FreshInv(i, n)'
  <2>1. n <= lease[i].lease_id /\ n \in Nat /\ lease[i].lease_id \in Nat
    BY DEF ExecInv, HolderInv, TypeInv, RowOK, IssueLease, Claims
  <2>. QED  BY <2>1 DEF FreshInv
<1>2. ASSUME NEW e \in Daemons PROVE UnitInv(i, n, stage[e][i][n])'
  <2>1. CASE stage'[e][i][n] = s
    BY <2>1
  <2>2. CASE e # d /\ stage'[e][i][n] = stage[e][i][n]
    <3>1. stage'[e][i][n] = "none"
      BY <2>2 DEF ExecInv, HolderInv, SingleExecutor, Live
    <3>2. UnitInv(i, n, "none")'
      BY DEF UnitInv, RunInv, ClaimingInv, SuspendInv, Awaits, replayed, ProtectInv, Claiming, AtWork, InThread
    <3>. QED  BY <3>1, <3>2
  <2>. QED  BY <2>1, <2>2
<1>. QED  BY <1>1, <1>2 DEF ClaimInv

\* What a unit may write into the lease of its own claim.
GoodRow(i, n, row) ==
    lease[i].lease_id = n =>
        /\ row.run_id \in {NoRun, n}
        /\ row.status \in {"claimed", "pending"} => row.run_id = NoRun
        /\ row.status \notin Offered
        /\ row.status = lease[i].status \/ <<lease[i].status, row.status>> \in LeaseMoves

\* A step of a unit that stays at work, or gives up.
LEMMA UnitLife ==
    ASSUME TypeInv, ExecInv, LifeInv, NEW d \in Daemons, NEW i \in Issues, NEW n \in Claims,
           Live(d, i, n), NEW s, NEW row, UnitWrites(d, i, n, s, row), GoodRow(i, n, row),
           Elsewhere(i, n), FewerPolls, PolledInv(i, n)', UnitInv(i, n, s)', RunForward(i, n)
    PROVE  LifeInv' /\ Forward
<1>1. /\ OnlyClaim(i, n)
      /\ lease'[i] = row
      /\ row.lease_id = lease[i].lease_id
      /\ \A e \in Daemons : stage'[e][i][n] = s \/ (e # d /\ stage'[e][i][n] = stage[e][i][n])
  BY UnitOnly DEF TypeInv, UnitWrites
<1>2. WaitingInv(i, n)'
  BY <1>1 DEF WaitingInv, GoodRow, Offered
<1>3. ClaimInv(i, n)'
  BY <1>1, <1>2, UnitClaim
<1>4. lease[i].lease_id = n => LeaseRowInv(i)' /\ LeaseForward(i)
  BY <1>1 DEF LeaseRowInv, LeaseForward, GoodRow, Offered
<1>. QED  BY <1>1, <1>3, <1>4, OneClaim

\* Steps that touch neither waits nor what is listed.
LEMMA LivePolls ==
    ASSUME LifeInv, TypeOK, NEW d \in Daemons, NEW i \in Issues, NEW n \in Claims, Live(d, i, n),
           NEW s, SetStage(d, i, n, s), UNCHANGED <<wait, sids, pass, todo>>
    PROVE  PolledInv(i, n)' /\ FewerPolls
<1>1. \A e \in Daemons : Live(e, i, n)' => Live(e, i, n)
  BY DEF TypeOK, SetStage, Live
<1>2. PolledInv(i, n)
  BY DEF LifeInv, ClaimInv
<1>3. PolledInv(i, n)'
  BY <1>1, <1>2 DEF PolledInv
<1>. QED  BY <1>3 DEF FewerPolls

\* The lease stays as it is, its receipt apart.
LEMMA SameGood ==
    ASSUME TypeInv, ExecInv, LifeInv, NEW d \in Daemons, NEW i \in Issues, NEW n \in Claims,
           Live(d, i, n), NEW row, row.lease_id = lease[i].lease_id, row.status = lease[i].status,
           row.run_id = lease[i].run_id
    PROVE  GoodRow(i, n, row)
  BY DEF GoodRow, LifeInv, LeaseRowInv, ExecInv, HolderInv

\* The statuses a conditional update may leave for another one.
MayMove(expected, s) ==
    /\ s \notin Offered \cup {"claimed", "pending"}
    /\ \A x \in expected : x = s \/ <<x, s>> \in LeaseMoves

CasWrites(i, n, id, r, s, expected, owners, row) ==
    /\ row.lease_id = lease[i].lease_id
    /\ lease[i].lease_id # n => row = lease[i]
    /\ GoodRow(i, n, row)
    /\ cas_applies(lease[i], id, expected, owners) =>
           row.status = s /\ row.run_id = n /\ row.overdue = FALSE /\ lease[i].lease_id = n
    /\ ~cas_applies(lease[i], id, expected, owners) => row = lease[i]

\* A conditional update that expects the run as owner is one of its own lease.
LEMMA CasGood ==
    ASSUME TypeInv, ExecInv, LifeInv, NEW d \in Daemons, NEW i \in Issues, NEW n \in Claims,
           Live(d, i, n)
    PROVE  \A id, r, s, expected, owners :
              r \in {NoRun, n} /\ owners = {n} /\ MayMove(expected, s) =>
                  CasWrites(i, n, id, r, s, expected, owners,
                      update_lease_status_conditional(lease[i], id, s, expected, r, owners))
<1>. SUFFICES ASSUME NEW id, NEW r, NEW s, NEW expected, NEW owners,
                     r \in {NoRun, n}, owners = {n}, MayMove(expected, s)
              PROVE  CasWrites(i, n, id, r, s, expected, owners,
                         update_lease_status_conditional(lease[i], id, s, expected, r, owners))
  OBVIOUS
<1>. DEFINE row == update_lease_status_conditional(lease[i], id, s, expected, r, owners)
<1>0. lease[i] \in IssueLease /\ n # NoRun
  BY DEF TypeInv, TypeOK, Claims, NoRun
<1>1. CASE ~cas_applies(lease[i], id, expected, owners)
  <2>1. row = lease[i]
    BY <1>1 DEF update_lease_status_conditional
  <2>. QED  BY <1>1, <2>1, SameGood DEF CasWrites
<1>2. CASE cas_applies(lease[i], id, expected, owners)
  <2>1. /\ row.lease_id = lease[i].lease_id /\ row.status = s /\ row.overdue = FALSE
        /\ row.run_id = n /\ lease[i].status \in expected /\ lease[i].run_id = n
    BY <1>0, <1>2 DEF update_lease_status_conditional, cas_applies, IssueLease
  <2>2. lease[i].lease_id = n
    BY <1>0, <2>1 DEF LifeInv, LeaseRowInv
  <2>3. GoodRow(i, n, row)
    BY <2>1, <2>2 DEF GoodRow, MayMove
  <2>. QED  BY <1>2, <2>1, <2>2, <2>3 DEF CasWrites
<1>. QED  BY <1>1, <1>2

\* The rows and units of the steps that leave the leases alone.
LEMMA SameLease ==
    ASSUME TypeOK, NEW i \in Issues, lease' = lease
    PROVE  SetLease(i, lease[i])
  BY DEF TypeOK, SetLease

LEMMA StageName ==
    /\ "none" \notin Claiming \cup AtWork
    /\ Claiming \cap AtWork = {"marked"}
    /\ Claiming \cap InThread = {} /\ Claiming \cap Returned = {} /\ Claiming \cap Releasing = {}
    /\ InThread \subseteq AtWork /\ Returned \cap AtWork = {} /\ Releasing \cap AtWork = {}
    /\ "marked" \in AtWork /\ "queued" \in AtWork /\ "queued" \notin Claiming
    /\ {"starting", "executing", "cleaning", "suspending"} = InThread
  BY DEF Claiming, AtWork, InThread, Returned, Releasing

LEMMA MoveList ==
    /\ <<"claimed", "running">> \in LeaseMoves /\ <<"claimed", "abandoned">> \in LeaseMoves
    /\ <<"claimed", "stale">> \in LeaseMoves /\ <<"claimed", "pending">> \in LeaseMoves
    /\ <<"pending", "abandoned">> \in LeaseMoves /\ <<"stale", "abandoned">> \in LeaseMoves
    /\ <<"running", "completed">> \in LeaseMoves /\ <<"running", "failed">> \in LeaseMoves
    /\ <<"running", "stale">> \in LeaseMoves /\ <<"running", "waiting_external">> \in LeaseMoves
    /\ <<"running", "cleanup_abandoned">> \in LeaseMoves
    /\ <<"waiting_external", "ready_to_resume">> \in LeaseMoves
    /\ <<"waiting_external", "failed">> \in LeaseMoves
    /\ <<"ready_to_resume", "running">> \in LeaseMoves /\ <<"ready_to_resume", "stale">> \in LeaseMoves
  BY DEF LeaseMoves

\* A step of an engine thread that writes neither waits nor lists.
LEMMA ThreadLife ==
    ASSUME TypeInv, ExecInv, LifeInv, NEW d \in Daemons, NEW i \in Issues, NEW n \in Claims,
           Live(d, i, n), NEW s, NEW row, UnitWrites(d, i, n, s, row), GoodRow(i, n, row),
           run' = run \/ \E r : SetRun(i, n, r), UNCHANGED <<wait, sids, pass, todo>>,
           UnitInv(i, n, s)', RunForward(i, n)
    PROVE  LifeInv' /\ Forward
<1>1. Elsewhere(i, n)
  <2>1. \A j \in Issues, m \in Claims : ~(j = i /\ m = n) => run'[j][m] = run[j][m]
    <3>1. CASE run' = run
      BY <3>1
    <3>2. CASE \E r : SetRun(i, n, r)
      BY <3>2 DEF SetRun, TypeInv, TypeOK
    <3>. QED  BY <3>1, <3>2
  <2>. QED  BY <2>1 DEF Elsewhere
<1>2. PolledInv(i, n)' /\ FewerPolls
  BY LivePolls DEF UnitWrites, TypeInv
<1>. QED  BY <1>1, <1>2, UnitLife

\* Every step of an engine thread keeps the invariant and moves forward.
LEMMA ThreadNext ==
    ASSUME TypeInv, ExecInv, LifeInv, NEW d \in Daemons, NEW i \in Issues, NEW n \in Claims,
           ThreadStep(d, i, n)
    PROVE  LifeInv' /\ Forward
<1>t. TypeOK /\ n \in Nat /\ n # NoRun /\ lease[i] \in IssueLease
  BY DEF TypeInv, TypeOK, Claims, NoRun
<1>c. ClaimInv(i, n) /\ UnitInv(i, n, stage[d][i][n]) /\ LeaseRowInv(i)
  BY DEF LifeInv, ClaimInv
<1>r. run \in [Issues -> [Claims -> RunStatus]]
  BY <1>t DEF TypeOK
<1>f. ASSUME run[i][n] \notin TerminalRun PROVE RunForward(i, n)
  BY <1>f DEF RunForward
<1>. DEFINE held == {"running", "cleanup_abandoned"}
            running == {"running"}
            own == {n}
            cleaned == update_lease_status_conditional(lease[i], lease[i].lease_id,
                           "cleanup_abandoned", held, NoRun, own)
            denied == update_lease_status_conditional(lease[i], lease[i].lease_id,
                           "failed", running, NoRun, own)
<1>k. ASSUME Live(d, i, n)
      PROVE  /\ cleaned.lease_id = lease[i].lease_id
             /\ lease[i].lease_id # n => cleaned = lease[i]
             /\ GoodRow(i, n, cleaned)
             /\ cas_applies(lease[i], lease[i].lease_id, held, own) =>
                    cleaned.status = "cleanup_abandoned" /\ cleaned.run_id = n /\ lease[i].lease_id = n
  <2>1. own = {n} /\ NoRun \in {NoRun, n}
    OBVIOUS
  <2>2. MayMove(held, "cleanup_abandoned")
    BY MoveList DEF MayMove, Offered
  <2>. HIDE DEF held, own
  <2>3. CasWrites(i, n, lease[i].lease_id, NoRun, "cleanup_abandoned", held, own, cleaned)
    BY <1>k, <2>1, <2>2, CasGood
  <2>. QED  BY <2>3 DEF CasWrites
<1>d. ASSUME Live(d, i, n)
      PROVE  /\ denied.lease_id = lease[i].lease_id
             /\ lease[i].lease_id # n => denied = lease[i]
             /\ GoodRow(i, n, denied)
  <2>1. own = {n} /\ NoRun \in {NoRun, n}
    OBVIOUS
  <2>2. MayMove(running, "failed")
    BY MoveList DEF MayMove, Offered
  <2>. HIDE DEF running, own
  <2>3. CasWrites(i, n, lease[i].lease_id, NoRun, "failed", running, own, denied)
    BY <1>d, <2>1, <2>2, CasGood
  <2>. QED  BY <2>3 DEF CasWrites
<1>. HIDE DEF cleaned, denied
<1>1. CASE start_run(d, i, n)
  <2>. DEFINE r == IF run[i][n] = "none" THEN "running" ELSE run[i][n]
  <2>1. stage[d][i][n] = "starting" /\ Live(d, i, n) /\ run[i][n] \in {"none", "ready_to_resume"}
    BY <1>1, <1>c DEF start_run, Live, UnitInv, RunInv
  <2>2. UnitWrites(d, i, n, "executing", lease[i]) /\ GoodRow(i, n, lease[i])
    BY <1>1, <1>t, <2>1, SameLease, SameGood DEF start_run, UnitWrites
  <2>3. run'[i][n] \in {"running", "ready_to_resume"} /\ SetRun(i, n, r)
    BY <1>1, <1>r, <2>1 DEF start_run, SetRun
  <2>4. UnitInv(i, n, "executing")'
    BY <1>1, <1>c, <2>1, <2>3, StageName
       DEF start_run, UnitInv, RunInv, ClaimingInv, SuspendInv, Awaits, replayed, ProtectInv
  <2>5. RunForward(i, n)
    BY <1>f, <2>1 DEF TerminalRun
  <2>6. UNCHANGED <<wait, sids, pass, todo>>
    BY <1>1 DEF start_run
  <2>. QED  BY <2>1, <2>2, <2>3, <2>4, <2>5, <2>6, ThreadLife
<1>2. CASE replay_recovery(d, i, n)
  <2>1. stage[d][i][n] = "starting" /\ Live(d, i, n) /\ WaitsAtNewSteps
    BY <1>2 DEF replay_recovery, Live
  <2>a. replayed(i, n)
    BY <1>2, <1>c, <2>1 DEF replay_recovery, replayed, UnitInv, RunInv
  <2>2. UnitWrites(d, i, n, "suspending", lease[i]) /\ GoodRow(i, n, lease[i])
    BY <1>2, <1>t, <2>1, SameLease, SameGood DEF replay_recovery, UnitWrites, dbVars
  <2>3. UNCHANGED <<lease, run, wait, sids, pass, todo>>
    BY <1>2 DEF replay_recovery, dbVars
  <2>4. UnitInv(i, n, "suspending")'
    BY <1>c, <2>1, <2>3, <2>a, StageName
       DEF UnitInv, RunInv, ClaimingInv, SuspendInv, Awaits, replayed, ProtectInv
  <2>5. RunForward(i, n)
    BY <2>3 DEF RunForward
  <2>. QED  BY <2>1, <2>2, <2>3, <2>4, <2>5, ThreadLife
<1>3. CASE heartbeat_owned_lease(d, i, n)
  <2>. DEFINE row == touch_owned_running_lease_heartbeat(lease[i], lease[i].lease_id, n)
  <2>1. stage[d][i][n] = "executing" /\ Live(d, i, n)
    BY <1>3 DEF heartbeat_owned_lease, Live
  <2>2. /\ row.lease_id = lease[i].lease_id /\ row.status = lease[i].status
        /\ row.run_id = lease[i].run_id /\ row.overdue \in {lease[i].overdue, FALSE}
        /\ lease[i].run_id # n => row = lease[i]
    BY <1>t DEF touch_owned_running_lease_heartbeat, cas_applies, IssueLease
  <2>3. GoodRow(i, n, row)
    BY <2>1, <2>2, SameGood
  <2>4. lease[i].lease_id # n => row = lease[i]
    BY <1>c, <1>t, <2>2 DEF LeaseRowInv
  <2>5. SetStage(d, i, n, "executing") /\ SetLease(i, row)
    BY <1>3, <1>t, <2>1 DEF heartbeat_owned_lease, SetStage, unitVars, TypeOK
  <2>. HIDE DEF row
  <2>6. UnitWrites(d, i, n, "executing", row)
    BY <2>2, <2>4, <2>5 DEF UnitWrites
  <2>7. UNCHANGED <<run, wait, sids, pass, todo>>
    BY <1>3 DEF heartbeat_owned_lease
  <2>8. lease'[i] = row
    BY <1>t, <2>5 DEF SetLease, TypeOK
  <2>9. UnitInv(i, n, "executing")'
    BY <1>c, <2>1, <2>2, <2>7, <2>8, StageName
       DEF UnitInv, RunInv, ClaimingInv, SuspendInv, Awaits, replayed, ProtectInv
  <2>10. RunForward(i, n)
    BY <2>7 DEF RunForward
  <2>. QED  BY <2>1, <2>3, <2>6, <2>7, <2>9, <2>10, ThreadLife
<1>4. CASE finish_run(d, i, n)
  <2>1. stage[d][i][n] = "executing" /\ Live(d, i, n) /\ run[i][n] \in {"running", "ready_to_resume"}
    BY <1>4, <1>c DEF finish_run, Live, UnitInv, RunInv
  <2>2. PICK o \in {<<"completed", "success">>, <<"failed", "failure">>,
                    <<"abandoned", "failure">>, <<"paused", "failure">>} :
                SetRun(i, n, o[1]) /\ SetStage(d, i, n, o[2])
    BY <1>4 DEF finish_run
  <2>3. o[2] \in {"success", "failure"}
    OBVIOUS
  <2>4. UnitWrites(d, i, n, o[2], lease[i]) /\ GoodRow(i, n, lease[i])
    BY <1>4, <1>t, <2>1, <2>2, SameLease, SameGood DEF finish_run, UnitWrites
  <2>5. UnitInv(i, n, o[2])'
    BY <2>3 DEF UnitInv, RunInv, ClaimingInv, SuspendInv, Awaits, replayed, ProtectInv, Claiming, AtWork, InThread
  <2>6. RunForward(i, n)
    BY <1>f, <2>1 DEF TerminalRun
  <2>7. UNCHANGED <<wait, sids, pass, todo>>
    BY <1>4 DEF finish_run
  <2>. QED  BY <2>1, <2>2, <2>4, <2>5, <2>6, <2>7, ThreadLife
<1>5. CASE enter_cleanup(d, i, n)
  <2>. DEFINE cas == cas_applies(lease[i], lease[i].lease_id, held, own)
  <2>1. stage[d][i][n] = "executing" /\ Live(d, i, n) /\ run[i][n] \in {"running", "ready_to_resume"}
    BY <1>5, <1>c DEF enter_cleanup, Live, UnitInv, RunInv
  <2>2. SetLease(i, cleaned) /\ UNCHANGED <<run, wait, sids, pass, todo>>
    BY <1>5 DEF enter_cleanup, cleaned
  <2>4. PICK s \in {"cleaning", "error"} : SetStage(d, i, n, s) /\ (s = "cleaning" => cas)
    BY <1>5 DEF enter_cleanup
  <2>3. /\ cleaned.lease_id = lease[i].lease_id
        /\ lease[i].lease_id # n => cleaned = lease[i]
        /\ GoodRow(i, n, cleaned)
        /\ cas => cleaned.status = "cleanup_abandoned" /\ cleaned.run_id = n /\ lease[i].lease_id = n
    BY <2>1, <1>k
  <2>. HIDE DEF cas
  <2>5. lease'[i] = cleaned
    BY <1>t, <2>2 DEF SetLease, TypeOK
  <2>6. UnitInv(i, n, s)'
    <3>1. CASE s = "error"
      BY <3>1 DEF UnitInv, RunInv, ClaimingInv, SuspendInv, Awaits, replayed, ProtectInv, Claiming, AtWork, InThread
    <3>2. CASE s = "cleaning"
      BY <2>1, <2>2, <2>3, <2>4, <2>5, <3>2, StageName
         DEF UnitInv, RunInv, ClaimingInv, SuspendInv, Awaits, replayed, ProtectInv
    <3>. QED  BY <2>4, <3>1, <3>2
  <2>7. UnitWrites(d, i, n, s, cleaned)
    BY <2>2, <2>3, <2>4 DEF UnitWrites
  <2>8. RunForward(i, n)
    BY <2>2 DEF RunForward
  <2>. QED  BY <2>1, <2>2, <2>3, <2>6, <2>7, <2>8, ThreadLife
<1>6. CASE finish_cleanup(d, i, n)
  <2>1. stage[d][i][n] = "cleaning" /\ Live(d, i, n) /\ run[i][n] \in {"running", "ready_to_resume"}
    BY <1>6, <1>c DEF finish_cleanup, Live, UnitInv, RunInv
  <2>2. SetLease(i, cleaned) /\ UNCHANGED <<wait, sids, pass, todo>>
    BY <1>6 DEF finish_cleanup, cleaned
  <2>3. PICK s \in {"cleanup", "error"} : SetStage(d, i, n, s)
    BY <1>6 DEF finish_cleanup
  <2>4. run' = run \/ \E r : SetRun(i, n, r)
    BY <1>6 DEF finish_cleanup
  <2>5. /\ cleaned.lease_id = lease[i].lease_id
        /\ lease[i].lease_id # n => cleaned = lease[i]
        /\ GoodRow(i, n, cleaned)
    BY <2>1, <1>k
  <2>6. UnitInv(i, n, s)'
    BY <2>3 DEF UnitInv, RunInv, ClaimingInv, SuspendInv, Awaits, replayed, ProtectInv, Claiming, AtWork, InThread
  <2>7. UnitWrites(d, i, n, s, cleaned)
    BY <2>2, <2>3, <2>5 DEF UnitWrites
  <2>8. RunForward(i, n)
    BY <1>f, <2>1 DEF TerminalRun
  <2>. QED  BY <2>1, <2>2, <2>4, <2>5, <2>6, <2>7, <2>8, ThreadLife
<1>7. CASE deny_ownership(d, i, n)
  <2>1. stage[d][i][n] = "executing" /\ Live(d, i, n) /\ run[i][n] \in {"running", "ready_to_resume"}
    BY <1>7, <1>c DEF deny_ownership, Live, UnitInv, RunInv
  <2>2. /\ SetStage(d, i, n, "denied") /\ SetLease(i, denied) /\ SetRun(i, n, "failed")
        /\ UNCHANGED <<wait, sids, pass, todo>>
    BY <1>7 DEF deny_ownership, denied
  <2>3. /\ denied.lease_id = lease[i].lease_id
        /\ lease[i].lease_id # n => denied = lease[i]
        /\ GoodRow(i, n, denied)
    BY <2>1, <1>d
  <2>4. UnitInv(i, n, "denied")'
    BY DEF UnitInv, RunInv, ClaimingInv, SuspendInv, Awaits, replayed, ProtectInv, Claiming, AtWork, InThread
  <2>5. UnitWrites(d, i, n, "denied", denied)
    BY <2>2, <2>3 DEF UnitWrites
  <2>6. RunForward(i, n)
    BY <1>f, <2>1 DEF TerminalRun
  <2>. QED  BY <2>1, <2>2, <2>3, <2>4, <2>5, <2>6, ThreadLife
<1>8. CASE pause_for_external_wait(d, i, n)
  <2>1. stage[d][i][n] = "executing" /\ Live(d, i, n) /\ run[i][n] \in {"running", "ready_to_resume"}
    BY <1>8, <1>c DEF pause_for_external_wait, Live, UnitInv, RunInv
  <2>2. UnitWrites(d, i, n, "suspending", lease[i]) /\ GoodRow(i, n, lease[i])
    BY <1>8, <1>t, <2>1, SameLease, SameGood DEF pause_for_external_wait, UnitWrites
  <2>3. SetRun(i, n, "waiting_external") /\ UNCHANGED <<lease, wait, sids, pass, todo>>
    BY <1>8 DEF pause_for_external_wait
  <2>4. run'[i][n] = "waiting_external"
    BY <1>r, <2>3 DEF SetRun
  <2>5. UnitInv(i, n, "suspending")'
    BY <1>c, <2>1, <2>3, <2>4, StageName
       DEF UnitInv, RunInv, ClaimingInv, SuspendInv, Awaits, replayed, ProtectInv
  <2>6. RunForward(i, n)
    BY <1>f, <2>1 DEF TerminalRun
  <2>. QED  BY <2>1, <2>2, <2>3, <2>5, <2>6, ThreadLife
<1>9. CASE persist_external_wait_state(d, i, n)
  <2>1. stage[d][i][n] = "suspending" /\ Live(d, i, n)
    BY <1>9 DEF persist_external_wait_state, Live
  <2>2. UnitWrites(d, i, n, "suspended", lease[i]) /\ GoodRow(i, n, lease[i])
    BY <1>9, <1>t, <2>1, SameLease, SameGood DEF persist_external_wait_state, UnitWrites
  <2>3. UNCHANGED <<lease, run, pass, todo>>
    BY <1>9 DEF persist_external_wait_state
  <2>. DEFINE fresh == wait[i][n].sid = 0
  <2>4. /\ wait'[i][n].sid = IF fresh THEN sids[i][n] + 1 ELSE wait[i][n].sid
        /\ wait'[i][n].lease_id = lease[i].lease_id
        /\ sids'[i][n] = IF fresh THEN sids[i][n] + 1 ELSE sids[i][n]
        /\ sids[i][n] \in Nat /\ wait[i][n].sid \in Nat
    BY <1>9, <1>t DEF persist_external_wait_state, TypeOK
  <2>5. Elsewhere(i, n) /\ FewerPolls
    BY <1>9, <1>t DEF persist_external_wait_state, TypeOK, Elsewhere, FewerPolls
  <2>6. PolledInv(i, n)'
    <3>1. PolledInv(i, n)
      BY <1>c DEF ClaimInv
    <3>2. wait'[i][n].sid <= sids'[i][n]
      BY <2>4, <3>1 DEF PolledInv
    <3>3. ASSUME NEW e \in Daemons, pass'[e] = "poll", NEW w \in todo'[e], w.issue = i, w.run = n
          PROVE  /\ w.row.sid # 0
                 /\ w.row.sid <= sids'[i][n]
                 /\ w.row.sid # wait'[i][n].sid
      <4>1. /\ w.row.sid # 0 /\ w.row.sid <= sids[i][n]
            /\ w.row.sid # wait[i][n].sid
        BY <2>1, <2>3, <3>1, <3>3 DEF PolledInv
      <4>2. w.row.sid \in Nat
        BY <2>3, <3>3 DEF TypeInv, TodoOK, PollItemType
      <4>. QED  BY <2>4, <4>1, <4>2
    <3>. QED  BY <3>2, <3>3 DEF PolledInv
  <2>7. UnitInv(i, n, "suspended")'
    <3>1. Awaits(i, n)'
      BY <1>c, <2>1, <2>3, <2>4 DEF UnitInv, SuspendInv, Awaits, replayed
    <3>2. n = lease'[i].lease_id => wait'[i][n].sid # 0 /\ wait'[i][n].lease_id = n
      BY <2>3, <2>4
    <3>. QED  BY <3>1, <3>2 DEF UnitInv, RunInv, ClaimingInv, SuspendInv, Awaits, replayed, ProtectInv, Claiming, AtWork, InThread
  <2>8. RunForward(i, n)
    BY <2>3 DEF RunForward
  <2>. QED  BY <2>1, <2>2, <2>5, <2>6, <2>7, <2>8, UnitLife
<1>10. CASE thread_error(d, i, n)
  <2>1. stage[d][i][n] \in InThread /\ Live(d, i, n)
    BY <1>10 DEF thread_error, Live, InThread
  <2>2. UnitWrites(d, i, n, "error", lease[i]) /\ GoodRow(i, n, lease[i])
    BY <1>10, <1>t, <2>1, SameLease, SameGood DEF thread_error, UnitWrites, dbVars
  <2>3. UNCHANGED <<lease, run, wait, sids, pass, todo>>
    BY <1>10 DEF thread_error, dbVars
  <2>4. UnitInv(i, n, "error")'
    BY DEF UnitInv, RunInv, ClaimingInv, SuspendInv, Awaits, replayed, ProtectInv, Claiming, AtWork, InThread
  <2>5. RunForward(i, n)
    BY <2>3 DEF RunForward
  <2>. QED  BY <2>1, <2>2, <2>3, <2>4, <2>5, ThreadLife
<1>. QED
  BY <1>1, <1>2, <1>3, <1>4, <1>5, <1>6, <1>7, <1>8, <1>9, <1>10 DEF ThreadStep

\* A step that changes neither leases, runs nor waits, and starts no unit.
LEMMA QuietLife ==
    ASSUME TypeInv, LifeInv, FewerPolls, \A i \in Issues : SameRow(i),
           \A i \in Issues, n \in Claims : SameClaim(i, n)
    PROVE  LifeInv' /\ Forward
<1>1. ASSUME NEW j \in Issues, NEW m \in Claims PROVE ClaimInv(j, m)' /\ RunForward(j, m)
  <2>1. ClaimInv(j, m) /\ SameClaim(j, m) /\ SameRow(j)
    BY DEF LifeInv
  <2>2. ClaimInv(j, m)'
    BY <2>1, ClaimKept
  <2>. QED  BY <2>1, <2>2 DEF RunForward, SameClaim
<1>2. ASSUME NEW j \in Issues PROVE LeaseRowInv(j)' /\ LeaseForward(j)
  <2>1. SameRow(j) /\ LeaseRowInv(j) /\ RowOK(lease[j])
    BY DEF LifeInv, TypeInv
  <2>2. lease[j].status = "ready_to_resume" =>
            lease[j].lease_id \in Claims /\ SameClaim(j, lease[j].lease_id)
    BY <2>1, LifecycleAssumption DEF RowOK, IssueLease, Claims, NoLease
  <2>. QED  BY <2>1, <2>2 DEF LeaseRowInv, LeaseForward, SameRow, SameClaim
<1>. QED  BY <1>1, <1>2 DEF LifeInv, Forward

\* A pass that ends in an error, and a process that dies.
LEMMA DropLife ==
    ASSUME TypeInv, LifeInv, NEW d \in Daemons, DropUnits(d), UNCHANGED <<run, wait, sids>>,
           NEW p \in {"idle", "down"}, pass' = [pass EXCEPT ![d] = p], \A i \in Issues : SameRow(i)
    PROVE  LifeInv' /\ Forward
<1>t. TypeOK
  BY DEF TypeInv
<1>1. \A i \in Issues, n \in Claims : SameClaim(i, n)
  <2>1. \A e \in Daemons, i \in Issues, n \in Claims :
           stage'[e][i][n] = IF e = d THEN "none" ELSE stage[e][i][n]
    BY <1>t DEF TypeOK, DropUnits
  <2>. QED  BY <2>1 DEF SameClaim
<1>2. FewerPolls
  <2>1. \A e \in Daemons : e # d => pass'[e] = pass[e] /\ todo'[e] = todo[e]
    BY <1>t DEF TypeOK, DropUnits
  <2>2. pass'[d] # "poll"
    BY <1>t DEF TypeOK
  <2>. QED  BY <2>1, <2>2 DEF FewerPolls
<1>. QED  BY <1>1, <1>2, QuietLife

\* Every step of a claim keeps the invariant and moves forward.
LEMMA ClaimNext ==
    ASSUME TypeInv, ExecInv, LifeInv, NEW d \in Daemons, NEW i \in Issues, NEW n \in Claims,
           ClaimStep(d, i, n)
    PROVE  LifeInv' /\ Forward
<1>t. TypeOK /\ n \in Nat /\ n # NoRun /\ lease[i] \in IssueLease
  BY DEF TypeInv, TypeOK, Claims, NoRun
<1>c. ClaimInv(i, n) /\ UnitInv(i, n, stage[d][i][n]) /\ LeaseRowInv(i)
  BY DEF LifeInv, ClaimInv
<1>a. ASSUME NEW row, row.lease_id = lease[i].lease_id, row.status = lease[i].status,
             row.run_id = lease[i].run_id, row.overdue = lease[i].overdue, SetLease(i, row)
      PROVE  (\A j \in Issues : SameRow(j)) /\ lease'[i] = row
  BY <1>a, <1>t DEF SetLease, SameRow, TypeOK
<1>p. ASSUME NEW pending \in BOOLEAN
      PROVE  LET row == upsert_claim_metadata(lease[i], n, pending) IN
             /\ row.lease_id = lease[i].lease_id /\ row.status = lease[i].status
             /\ row.run_id = lease[i].run_id /\ row.overdue = lease[i].overdue
  BY <1>t DEF upsert_claim_metadata, IssueLease
<1>u. ASSUME Live(d, i, n), NEW pending \in BOOLEAN, NEW s,
             SetLease(i, upsert_claim_metadata(lease[i], n, pending)), SetStage(d, i, n, s),
             UNCHANGED <<run, wait, sids, pass, todo>>, UnitInv(i, n, s)'
      PROVE  LifeInv' /\ Forward
  <2>. DEFINE row == upsert_claim_metadata(lease[i], n, pending)
  <2>1. /\ row.lease_id = lease[i].lease_id /\ row.status = lease[i].status
        /\ row.run_id = lease[i].run_id /\ row.overdue = lease[i].overdue
    BY <1>p
  <2>2. SetLease(i, row)
    BY <1>u
  <2>. HIDE DEF row
  <2>3. UnitWrites(d, i, n, s, row) /\ GoodRow(i, n, row)
    BY <1>u, <2>1, <2>2, SameGood DEF UnitWrites
  <2>4. RunForward(i, n)
    BY <1>u DEF RunForward
  <2>. QED  BY <1>u, <2>3, <2>4, ThreadLife
<1>b. ASSUME AbortPass(d), NEW pending \in BOOLEAN,
             SetLease(i, upsert_claim_metadata(lease[i], n, pending)), UNCHANGED <<run, wait, sids>>
      PROVE  LifeInv' /\ Forward
  <2>1. \A j \in Issues : SameRow(j)
    BY <1>a, <1>p, <1>b
  <2>. QED  BY <1>b, <2>1, DropLife DEF AbortPass
<1>l. ASSUME Live(d, i, n), NEW pending \in BOOLEAN,
             SetLease(i, upsert_claim_metadata(lease[i], n, pending)), run' = run
      PROVE  /\ lease'[i].lease_id = lease[i].lease_id /\ lease'[i].status = lease[i].status
             /\ lease'[i].run_id = lease[i].run_id /\ lease'[i].overdue = lease[i].overdue
  BY <1>a, <1>p, <1>l
<1>1. CASE recheck_capacity(d, i, n)
  <2>1. stage[d][i][n] = "claimed" /\ Live(d, i, n)
    BY <1>1 DEF recheck_capacity, Live
  <2>2. UNCHANGED <<run, wait, sids, pass, todo>> /\ RunForward(i, n)
    BY <1>1 DEF recheck_capacity, RunForward
  <2>3. CASE SetStage(d, i, n, "cleared") /\ UNCHANGED lease
    <3>1. UnitWrites(d, i, n, "cleared", lease[i]) /\ GoodRow(i, n, lease[i])
      BY <1>t, <2>1, <2>3, SameLease, SameGood DEF UnitWrites
    <3>2. UnitInv(i, n, "cleared")'
      BY <1>c, <2>1, <2>2, <2>3
         DEF UnitInv, RunInv, ClaimingInv, SuspendInv, Awaits, replayed, ProtectInv, Claiming, AtWork, InThread
    <3>. QED  BY <2>1, <2>2, <3>1, <3>2, ThreadLife
  <2>4. CASE SetStage(d, i, n, "none") /\ SetLease(i, update_lease_status(lease[i], n, "abandoned"))
    <3>. DEFINE row == update_lease_status(lease[i], n, "abandoned")
    <3>1. /\ row.lease_id = lease[i].lease_id /\ row.run_id = lease[i].run_id
          /\ lease[i].lease_id # n => row = lease[i]
          /\ lease[i].lease_id = n => row.status = "abandoned"
      BY <1>t DEF update_lease_status, IssueLease
    <3>2. lease[i].lease_id = n => lease[i].status \in {"claimed", "pending", "abandoned", "stale"}
      BY <1>c, <2>1 DEF UnitInv, ClaimingInv, Claiming
    <3>. HIDE DEF row
    <3>3. GoodRow(i, n, row)
      BY <1>c, <3>1, <3>2, MoveList DEF GoodRow, LeaseRowInv, Offered
    <3>4. UnitWrites(d, i, n, "none", row)
      BY <2>4, <3>1 DEF UnitWrites, row
    <3>5. UnitInv(i, n, "none")'
      BY DEF UnitInv, RunInv, ClaimingInv, SuspendInv, Awaits, replayed, ProtectInv, Claiming, AtWork, InThread
    <3>. QED  BY <2>1, <2>2, <3>3, <3>4, <3>5, ThreadLife
  <2>. QED  BY <1>1, <2>3, <2>4 DEF recheck_capacity
<1>2. CASE announce_claim(d, i, n)
  <2>1. /\ stage[d][i][n] = "cleared" /\ Live(d, i, n)
        /\ SetLease(i, upsert_claim_metadata(lease[i], n, TRUE)) /\ UNCHANGED <<run, wait, sids>>
    BY <1>2 DEF announce_claim, Live
  <2>2. CASE AbortPass(d)
    BY <1>b, <2>1, <2>2
  <2>3. CASE SetStage(d, i, n, "announced") /\ UNCHANGED <<pass, todo>>
    <3>1. UnitInv(i, n, "announced")'
      BY <1>c, <1>l, <2>1
         DEF UnitInv, RunInv, ClaimingInv, SuspendInv, Awaits, replayed, ProtectInv, Claiming, AtWork, InThread
    <3>. QED  BY <1>u, <2>1, <2>3, <3>1
  <2>. QED  BY <1>2, <2>2, <2>3 DEF announce_claim
<1>3. CASE mark_running(d, i, n)
  <2>. DEFINE row == update_lease_status_conditional(lease[i], n, "running", {"claimed"}, n, AnyOwner)
  <2>1. /\ stage[d][i][n] = "announced" /\ Live(d, i, n) /\ SetLease(i, row)
        /\ SetStage(d, i, n, "marked") /\ UNCHANGED <<run, wait, sids, pass, todo>>
    BY <1>3 DEF mark_running, Live
  <2>2. cas_applies(lease[i], n, {"claimed"}, AnyOwner)
    BY <1>3 DEF mark_running
  <2>3. /\ lease[i].lease_id = n /\ lease[i].status = "claimed"
        /\ row.lease_id = n /\ row.status = "running" /\ row.run_id = n /\ row.overdue = FALSE
    BY <1>t, <2>2 DEF update_lease_status_conditional, cas_applies, IssueLease
  <2>. HIDE DEF row
  <2>4. GoodRow(i, n, row) /\ UnitWrites(d, i, n, "marked", row) /\ RunForward(i, n)
    BY <2>1, <2>3, MoveList DEF GoodRow, UnitWrites, RunForward, Offered
  <2>5. lease'[i] = row
    BY <1>t, <2>1 DEF SetLease, TypeOK
  <2>6. UnitInv(i, n, "marked")'
    BY <1>c, <2>1, <2>3, <2>5
       DEF UnitInv, RunInv, ClaimingInv, SuspendInv, Awaits, replayed, ProtectInv, Claiming, AtWork, InThread
  <2>. QED  BY <2>1, <2>4, <2>6, ThreadLife
<1>4. CASE settle_claim(d, i, n)
  <2>1. /\ stage[d][i][n] = "marked" /\ Live(d, i, n)
        /\ SetLease(i, upsert_claim_metadata(lease[i], n, FALSE)) /\ UNCHANGED <<run, wait, sids>>
    BY <1>4 DEF settle_claim, Live
  <2>2. CASE AbortPass(d)
    BY <1>b, <2>1, <2>2
  <2>3. CASE SetStage(d, i, n, "queued") /\ UNCHANGED <<pass, todo>>
    <3>1. UnitInv(i, n, "queued")'
      BY <1>c, <1>l, <2>1
         DEF UnitInv, RunInv, ClaimingInv, SuspendInv, Awaits, replayed, ProtectInv, Claiming, AtWork, InThread
    <3>. QED  BY <1>u, <2>1, <2>3, <3>1
  <2>. QED  BY <1>4, <2>2, <2>3 DEF settle_claim
<1>5. CASE abandon_failed_claim(d, i, n)
  <2>1. /\ stage[d][i][n] \in {"cleared", "announced"} /\ Live(d, i, n) /\ UNCHANGED <<run, wait, sids>>
    BY <1>5 DEF abandon_failed_claim, Live
  <2>2. PICK pending \in BOOLEAN : SetLease(i, upsert_claim_metadata(lease[i], n, pending))
    BY <1>5 DEF abandon_failed_claim
  <2>3. CASE AbortPass(d)
    BY <1>b, <2>1, <2>2, <2>3
  <2>4. CASE SetStage(d, i, n, "abandoning") /\ UNCHANGED <<pass, todo>>
    <3>1. UnitInv(i, n, "abandoning")'
      BY <1>c, <1>l, <2>1, <2>2
         DEF UnitInv, RunInv, ClaimingInv, SuspendInv, Awaits, replayed, ProtectInv, Claiming, AtWork, InThread
    <3>. QED  BY <1>u, <2>1, <2>2, <2>4, <3>1
  <2>. QED  BY <1>5, <2>3, <2>4 DEF abandon_failed_claim
<1>6. CASE abandon_lease(d, i, n)
  <2>. DEFINE row == update_lease_status_conditional(lease[i], n, "abandoned",
                         {"claimed", "pending"}, n, AnyOwner)
  <2>1. /\ stage[d][i][n] = "abandoning" /\ Live(d, i, n) /\ SetLease(i, row)
        /\ SetStage(d, i, n, "none") /\ UNCHANGED <<run, wait, sids, pass, todo>>
    BY <1>6 DEF abandon_lease, Live
  <2>2. /\ row.lease_id = lease[i].lease_id
        /\ \/ row = lease[i]
           \/ /\ lease[i].lease_id = n /\ lease[i].status \in {"claimed", "pending"}
              /\ row.status = "abandoned" /\ row.run_id = n
    BY <1>t DEF update_lease_status_conditional, cas_applies, IssueLease
  <2>. HIDE DEF row
  <2>3. GoodRow(i, n, row)
    <3>1. CASE row = lease[i]
      BY <2>1, <3>1, SameGood
    <3>2. CASE row # lease[i]
      BY <2>2, <3>2, MoveList DEF GoodRow, Offered
    <3>. QED  BY <3>1, <3>2
  <2>4. UnitWrites(d, i, n, "none", row) /\ RunForward(i, n)
    BY <2>1, <2>2 DEF UnitWrites, RunForward
  <2>5. UnitInv(i, n, "none")'
    BY DEF UnitInv, RunInv, ClaimingInv, SuspendInv, Awaits, replayed, ProtectInv, Claiming, AtWork, InThread
  <2>. QED  BY <2>1, <2>3, <2>4, <2>5, ThreadLife
<1>. QED  BY <1>1, <1>2, <1>3, <1>4, <1>5, <1>6 DEF ClaimStep

\* What is listed of a daemon's own items is never a wait, except while it polls.
LEMMA ItemPolls ==
    ASSUME TypeOK, NEW d \in Daemons, pass' = pass, NEW items, todo' = [todo EXCEPT ![d] = items],
           pass[d] # "poll" \/ items \subseteq todo[d]
    PROVE  FewerPolls
  BY DEF TypeOK, FewerPolls

LEMMA PhasePolls ==
    ASSUME TypeOK, NEW d \in Daemons, NEW p, p # "poll", pass' = [pass EXCEPT ![d] = p],
           \A e \in Daemons : e # d => todo'[e] = todo[e]
    PROVE  FewerPolls
<1>1. \A e \in Daemons : pass'[e] = IF e = d THEN p ELSE pass[e]
  BY DEF TypeOK
<1>. QED  BY <1>1 DEF FewerPolls

\* A lease that is withdrawn, released or marked stale, and one that only ages.
TakenAway(i) ==
    /\ lease'[i].lease_id = lease[i].lease_id
    /\ lease'[i].run_id = lease[i].run_id
    /\ lease'[i].status \in {"pending", "abandoned", "stale"}
    /\ lease'[i].status = "pending" => lease[i].status = "claimed"
    /\ <<lease[i].status, lease'[i].status>> \in LeaseMoves
    /\ \/ lease[i].status \in {"claimed", "pending"}
       \/ lease[i].status \in {"running", "ready_to_resume"} /\ lease[i].overdue

Aged(i) ==
    /\ lease'[i].lease_id = lease[i].lease_id
    /\ lease'[i].status = lease[i].status
    /\ lease'[i].run_id = lease[i].run_id
    /\ ~LongSteps => \A d \in Daemons, n \in Claims : n = lease[i].lease_id => ~Live(d, i, n)

\* Such a step, and one that leaves the row alone, is harmless for every claim.
LEMMA RowLife ==
    ASSUME TypeInv, LifeInv, NEW i \in Issues, FewerPolls, \A n \in Claims : SameClaim(i, n),
           SameRow(i) \/ TakenAway(i) \/ Aged(i)
    PROVE  /\ LeaseRowInv(i)' /\ LeaseForward(i)
           /\ \A n \in Claims : ClaimInv(i, n)' /\ RunForward(i, n)
<1>a. LeaseRowInv(i) /\ RowOK(lease[i]) /\ \A n \in Claims : ClaimInv(i, n)
  BY DEF LifeInv, TypeInv
<1>1. \A n \in Claims : RunForward(i, n)
  BY DEF RunForward, SameClaim
<1>2. LeaseForward(i)
  BY DEF LeaseForward, SameRow, TakenAway, Aged
<1>3. LeaseRowInv(i)'
  <2>1. CASE TakenAway(i)
    BY <1>a, <2>1 DEF LeaseRowInv, TakenAway
  <2>2. CASE SameRow(i) \/ Aged(i)
    <3>1. /\ lease'[i].lease_id = lease[i].lease_id /\ lease'[i].status = lease[i].status
          /\ lease'[i].run_id = lease[i].run_id
      BY <2>2 DEF SameRow, Aged
    <3>2. lease[i].status = "ready_to_resume" =>
              lease[i].lease_id \in Claims /\ SameClaim(i, lease[i].lease_id)
      BY <1>a, LifecycleAssumption DEF RowOK, IssueLease, Claims, NoLease
    <3>. QED  BY <1>a, <3>1, <3>2 DEF LeaseRowInv, SameClaim
  <2>. QED  BY <2>1, <2>2
<1>4. ASSUME NEW n \in Claims PROVE ClaimInv(i, n)'
  <2>1. CASE SameRow(i) \/ n # lease[i].lease_id
    <3>1. SameRow(i) \/ (lease'[i].lease_id = lease[i].lease_id /\ n # lease[i].lease_id)
      BY <2>1 DEF TakenAway, Aged
    <3>. QED  BY <1>a, <3>1, ClaimKept
  <2>2. CASE n = lease[i].lease_id /\ (TakenAway(i) \/ Aged(i))
    <3>a. ClaimInv(i, n) /\ SameClaim(i, n) /\ lease'[i].lease_id = n
      BY <1>a, <2>2 DEF TakenAway, Aged
    <3>1. FreshInv(i, n)'
      BY <2>2, <3>a DEF ClaimInv, FreshInv, SameClaim
    <3>2. PolledInv(i, n)'
      BY <3>a, SamePolls DEF ClaimInv
    <3>3. WaitingInv(i, n)'
      BY <2>2, <3>a DEF ClaimInv, WaitingInv, SameClaim, TakenAway, Aged,
                        Awaits, replayed, Pollable
    <3>4. ASSUME NEW d \in Daemons PROVE UnitInv(i, n, stage[d][i][n])'
      <4>0. UnitInv(i, n, "none")'
        BY DEF UnitInv, RunInv, ClaimingInv, SuspendInv, Awaits, replayed, ProtectInv, Claiming, AtWork, InThread
      <4>1. CASE stage'[d][i][n] = "none"
        BY <4>0, <4>1
      <4>2. CASE stage'[d][i][n] = stage[d][i][n] /\ stage[d][i][n] # "none"
        <5>1. UnitInv(i, n, stage[d][i][n])
          BY <3>a DEF ClaimInv
        <5>2. RunInv(i, n, stage[d][i][n])' /\ SuspendInv(i, n, stage[d][i][n])'
          BY <2>2, <3>a, <4>2, <5>1 DEF UnitInv, RunInv, SuspendInv, Awaits, replayed, SameClaim
        <5>3. ClaimingInv(i, n, stage[d][i][n])'
          BY <2>2, <3>a, <4>2, <5>1 DEF UnitInv, ClaimingInv, TakenAway, Aged
        <5>4. ProtectInv(i, n, stage[d][i][n])'
          <6>1. CASE TakenAway(i)
            BY <2>2, <3>a, <4>2, <5>1, <6>1 DEF UnitInv, ProtectInv, TakenAway
          <6>2. CASE Aged(i)
            BY <2>2, <3>a, <4>2, <6>2 DEF ProtectInv, Aged, Live
          <6>. QED  BY <2>2, <6>1, <6>2
        <5>. QED  BY <5>2, <5>3, <5>4 DEF UnitInv
      <4>. QED  BY <3>a, <4>1, <4>2 DEF SameClaim
    <3>. QED  BY <3>1, <3>2, <3>3, <3>4 DEF ClaimInv
  <2>. QED  BY <2>1, <2>2
<1>. QED  BY <1>1, <1>2, <1>3, <1>4

\* The same for a step that rewrites the row of one issue.
LEMMA OneRow ==
    ASSUME TypeInv, LifeInv, NEW i \in Issues, NEW row, SetLease(i, row), FewerPolls,
           UNCHANGED <<run, wait, sids, stage>>, SameRow(i) \/ TakenAway(i) \/ Aged(i)
    PROVE  LifeInv' /\ Forward
<1>1. \A j \in Issues : j # i => SameRow(j)
  BY DEF SetLease, SameRow, TypeInv, TypeOK
<1>2. \A j \in Issues, n \in Claims : SameClaim(j, n)
  BY DEF SameClaim
<1>3. \A j \in Issues : /\ LeaseRowInv(j)' /\ LeaseForward(j)
                        /\ \A n \in Claims : ClaimInv(j, n)' /\ RunForward(j, n)
  BY <1>1, <1>2, RowLife
<1>. QED  BY <1>3 DEF LifeInv, Forward

\* The steps of the reconcile phase.
LEMMA ReconcileNext ==
    ASSUME TypeInv, LifeInv, NEW d \in Daemons, NEW w \in todo[d],
           withdraw_claim(d, w) \/ reconcile_pending_cleanup(d, w) \/ release_withdrawn_claim(d, w)
    PROVE  LifeInv' /\ Forward
<1>t. TypeOK /\ pass[d] = "reconcile" /\ w.issue \in Issues /\ lease[w.issue] \in IssueLease
  BY DEF TypeInv, TypeOK, TodoOK, CleanupItemType, Reconciling,
         withdraw_claim, reconcile_pending_cleanup, release_withdrawn_claim
<1>. DEFINE i == w.issue
<1>i. i \in Issues /\ lease[i] \in IssueLease
  BY <1>t
<1>m. ASSUME NEW x \in {"claimed", "pending"}, NEW s \in {"pending", "abandoned"},
             <<x, s>> \in LeaseMoves, s = "pending" => x = "claimed",
             SetLease(i, update_lease_status_conditional(lease[i], w.lease_id, s, {x}, NoRun, AnyOwner)),
             NEW items, todo' = [todo EXCEPT ![d] = items],
             UNCHANGED <<run, wait, sids, stage, pass>>
      PROVE  LifeInv' /\ Forward
  <2>. DEFINE row == update_lease_status_conditional(lease[i], w.lease_id, s, {x}, NoRun, AnyOwner)
  <2>1. /\ row.lease_id = lease[i].lease_id /\ row.run_id = lease[i].run_id
        /\ row = lease[i] \/ (row.status = s /\ lease[i].status = x)
    BY <1>i DEF update_lease_status_conditional, cas_applies, IssueLease
  <2>2. SetLease(i, row)
    BY <1>m
  <2>. HIDE DEF row
  <2>3. lease'[i] = row
    BY <1>t, <2>2 DEF SetLease, TypeOK
  <2>4. SameRow(i) \/ TakenAway(i)
    BY <1>m, <2>1, <2>3 DEF SameRow, TakenAway
  <2>5. FewerPolls
    BY <1>m, <1>t, ItemPolls
  <2>. HIDE DEF i
  <2>. QED  BY <1>i, <1>m, <2>2, <2>4, <2>5, OneRow
<1>1. CASE withdraw_claim(d, w)
  <2>1. SetLease(i, update_lease_status_conditional(lease[i], w.lease_id, "pending",
                        {"claimed"}, NoRun, AnyOwner)) /\ UNCHANGED <<run, wait, sids, stage, pass>>
    BY <1>1 DEF withdraw_claim, unitVars
  <2>2. PICK items : todo' = [todo EXCEPT ![d] = items]
    BY <1>1 DEF withdraw_claim
  <2>. QED  BY <1>m, <2>1, <2>2, MoveList
<1>2. CASE release_withdrawn_claim(d, w)
  <2>1. SetLease(i, update_lease_status_conditional(lease[i], w.lease_id, "abandoned",
                        {"pending"}, NoRun, AnyOwner)) /\ UNCHANGED <<run, wait, sids, stage, pass>>
    BY <1>2 DEF release_withdrawn_claim, unitVars
  <2>2. PICK items : todo' = [todo EXCEPT ![d] = items]
    BY <1>2 DEF release_withdrawn_claim
  <2>. QED  BY <1>m, <2>1, <2>2, MoveList
<1>3. CASE reconcile_pending_cleanup(d, w)
  <2>1. UNCHANGED <<run, wait, sids>>
    BY <1>3 DEF reconcile_pending_cleanup
  <2>2. CASE AbortPass(d) /\ UNCHANGED lease
    <3>1. \A j \in Issues : SameRow(j)
      BY <2>2 DEF SameRow
    <3>. QED  BY <2>1, <2>2, <3>1, DropLife DEF AbortPass
  <2>3. CASE ~AbortPass(d)
    <3>1. UNCHANGED <<pass, stage>> /\ \E items : todo' = [todo EXCEPT ![d] = items]
      BY <1>3, <2>3 DEF reconcile_pending_cleanup, unitVars
    <3>2. FewerPolls
      BY <1>t, <3>1, ItemPolls
    <3>3. \A j \in Issues : SameRow(j)
      <4>1. \/ UNCHANGED lease
            \/ SetLease(i, upsert_claim_metadata(lease[i], w.lease_id, FALSE))
        BY <1>3, <2>3 DEF reconcile_pending_cleanup
      <4>2. CASE UNCHANGED lease
        BY <4>2 DEF SameRow
      <4>3. CASE SetLease(i, upsert_claim_metadata(lease[i], w.lease_id, FALSE))
        <5>. DEFINE row == upsert_claim_metadata(lease[i], w.lease_id, FALSE)
        <5>1. /\ row.lease_id = lease[i].lease_id /\ row.status = lease[i].status
              /\ row.run_id = lease[i].run_id /\ row.overdue = lease[i].overdue
          BY <1>i DEF upsert_claim_metadata, IssueLease
        <5>2. SetLease(i, row)
          BY <4>3
        <5>. HIDE DEF row
        <5>. QED  BY <1>t, <5>1, <5>2 DEF SetLease, SameRow, TypeOK
      <4>. QED  BY <4>1, <4>2, <4>3
    <3>4. \A j \in Issues, n \in Claims : SameClaim(j, n)
      BY <2>1, <3>1 DEF SameClaim
    <3>. QED  BY <3>2, <3>3, <3>4, QuietLife
  <2>4. AbortPass(d) => pass'[d] # pass[d]
    BY <1>t DEF AbortPass, TypeOK
  <2>. QED  BY <1>3, <2>2, <2>3, <2>4 DEF reconcile_pending_cleanup
<1>. QED  BY <1>1, <1>2, <1>3

\* A decision of the poller about a wait that is still the listed one.
LEMMA PollLife ==
    ASSUME TypeInv, LifeInv, NEW i \in Issues, NEW n \in Claims, NEW row, SetLease(i, row),
           Elsewhere(i, n), FewerPolls, UNCHANGED <<sids, stage>>, \A e \in Daemons : ~Live(e, i, n),
           lease[i].lease_id = n, row.lease_id = n, row.run_id = n,
           row.status \in {"waiting_external", "ready_to_resume", "failed"},
           row.status = lease[i].status \/ <<lease[i].status, row.status>> \in LeaseMoves,
           run[i][n] = "waiting_external", wait'[i][n].sid \in {0, wait[i][n].sid},
           row.status = "ready_to_resume" => run'[i][n] = "ready_to_resume" /\ wait'[i][n].sid = 0,
           row.status = "waiting_external" => WaitingInv(i, n)'
    PROVE  LifeInv' /\ Forward
<1>1. lease'[i] = row /\ \A j \in Issues : j # i => lease'[j] = lease[j]
  BY DEF SetLease, TypeInv, TypeOK
<1>2. OnlyClaim(i, n)
  BY <1>1 DEF OnlyClaim, SameClaim, SameRow, Elsewhere
<1>3. LeaseRowInv(i)' /\ LeaseForward(i) /\ RunForward(i, n)
  BY <1>1 DEF LeaseRowInv, LeaseForward, RunForward, TerminalRun
<1>4. ClaimInv(i, n) /\ sids[i][n] \in Nat
  BY DEF LifeInv, TypeInv, TypeOK
<1>5. FreshInv(i, n)'
  BY <1>1 DEF FreshInv, Claims
<1>6. PolledInv(i, n)'
  BY <1>4 DEF ClaimInv, PolledInv, FewerPolls, Live
<1>7. WaitingInv(i, n)'
  BY <1>1 DEF WaitingInv
<1>8. ASSUME NEW d \in Daemons PROVE UnitInv(i, n, stage[d][i][n])'
  <2>1. stage'[d][i][n] = "none"
    BY DEF Live
  <2>2. UnitInv(i, n, "none")'
    BY DEF UnitInv, RunInv, ClaimingInv, SuspendInv, Awaits, replayed, ProtectInv, Claiming, AtWork, InThread
  <2>. QED  BY <2>1, <2>2
<1>9. ClaimInv(i, n)'
  BY <1>5, <1>6, <1>7, <1>8 DEF ClaimInv
<1>. QED  BY <1>2, <1>3, <1>9, OneClaim

\* The poller's transaction, whatever it decides.
LEMMA PollNext ==
    ASSUME TypeInv, LifeInv, NEW d \in Daemons, NEW w \in todo[d], ApplyPoll(d, w)
    PROVE  LifeInv' /\ Forward
<1>t. TypeOK /\ pass[d] = "poll" /\ w \in PollItemType
  BY DEF TypeInv, TodoOK, ApplyPoll
<1>1. PICK i \in Issues, n \in Claims : w.issue = i /\ w.run = n
  BY <1>t DEF PollItemType
<1>2. n \in Nat /\ n # NoRun /\ lease[i] \in IssueLease /\ LeaseRowInv(i) /\ ClaimInv(i, n)
  BY <1>t DEF TypeOK, Claims, NoRun, LifeInv
<1>3. FewerPolls
  <2>1. pass' = pass /\ todo' = [todo EXCEPT ![d] = todo[d] \ {w}]
    BY DEF ApplyPoll
  <2>. QED  BY <1>t, <2>1, ItemPolls
<1>4. UNCHANGED <<sids, stage>>
  BY DEF ApplyPoll, unitVars
<1>c. ASSUME wait[i][n].sid = w.row.sid PROVE \A e \in Daemons : ~Live(e, i, n)
  BY <1>c, <1>1, <1>2, <1>t DEF ClaimInv, PolledInv
<1>o. ASSUME lease[i].run_id = n, run[i][n] = "waiting_external"
      PROVE  lease[i].lease_id = n /\ lease[i].status \notin {"ready_to_resume", "claimed"}
  BY <1>o, <1>2 DEF LeaseRowInv
<1>5. CASE apply_ready_to_resume(i, n, w)
  <2>. DEFINE expected == {"waiting_external", "ready_to_resume"}
              own == {n}
              row == update_lease_status_conditional(lease[i], w.row.lease_id,
                         "ready_to_resume", expected, NoRun, own)
  <2>1. /\ wait[i][n].sid = w.row.sid /\ run[i][n] = "waiting_external" /\ SetLease(i, row)
        /\ cas_applies(lease[i], w.row.lease_id, expected, own)
        /\ wait' = [wait EXCEPT ![i][n] = NoWait] /\ SetRun(i, n, "ready_to_resume")
    BY <1>5 DEF apply_ready_to_resume, ready_applies
  <2>2. lease[i].run_id = n /\ lease[i].status = "waiting_external" /\ lease[i].lease_id = n
    BY <1>o, <2>1 DEF cas_applies
  <2>3. /\ row.lease_id = n /\ row.run_id = n /\ row.status = "ready_to_resume"
    BY <1>2, <2>1, <2>2 DEF update_lease_status_conditional, IssueLease
  <2>4. wait'[i][n].sid = 0 /\ run'[i][n] = "ready_to_resume" /\ Elsewhere(i, n)
    BY <1>t, <1>4, <2>1 DEF TypeOK, SetRun, NoWait, Elsewhere
  <2>5. \A e \in Daemons : ~Live(e, i, n)
    BY <1>c, <2>1
  <2>. HIDE DEF row
  <2>. QED  BY <1>3, <1>4, <2>1, <2>2, <2>3, <2>4, <2>5, MoveList, PollLife
<1>6. CASE apply_terminal_failure(i, n, w)
  <2>. DEFINE expected == {"waiting_external", "ready_to_resume", "running", "claimed"}
              own == {n}
              row == update_lease_status_conditional(lease[i], w.row.lease_id,
                         "failed", expected, NoRun, own)
  <2>1. /\ wait[i][n].sid = w.row.sid /\ run[i][n] = "waiting_external" /\ SetLease(i, row)
        /\ cas_applies(lease[i], w.row.lease_id, expected, own)
        /\ wait' = [wait EXCEPT ![i][n] = NoWait] /\ SetRun(i, n, "failed")
    BY <1>6 DEF apply_terminal_failure, terminal_applies
  <2>2. lease[i].run_id = n /\ lease[i].status \in {"waiting_external", "running"} /\ lease[i].lease_id = n
    BY <1>o, <2>1 DEF cas_applies
  <2>3. /\ row.lease_id = n /\ row.run_id = n /\ row.status = "failed"
    BY <1>2, <2>1, <2>2 DEF update_lease_status_conditional, IssueLease
  <2>4. wait'[i][n].sid = 0 /\ Elsewhere(i, n)
    BY <1>t, <1>4, <2>1 DEF TypeOK, SetRun, NoWait, Elsewhere
  <2>5. \A e \in Daemons : ~Live(e, i, n)
    BY <1>c, <2>1
  <2>. HIDE DEF row
  <2>. QED  BY <1>3, <1>4, <2>1, <2>2, <2>3, <2>4, <2>5, MoveList, PollLife
<1>7. CASE apply_still_waiting(i, n, w)
  <2>. DEFINE expected == {"waiting_external"}
              own == {n}
              row == update_lease_status_conditional(lease[i], w.row.lease_id,
                         "waiting_external", expected, NoRun, own)
  <2>1. /\ wait[i][n].sid = w.row.sid /\ run[i][n] = "waiting_external" /\ SetLease(i, row)
        /\ cas_applies(lease[i], w.row.lease_id, expected, own)
        /\ wait' = [wait EXCEPT ![i][n].polls = @ + 1] /\ run' = run
    BY <1>7 DEF apply_still_waiting, still_waiting_applies
  <2>2. lease[i].run_id = n /\ lease[i].status = "waiting_external" /\ lease[i].lease_id = n
        /\ w.row.lease_id = n
    BY <1>o, <2>1 DEF cas_applies
  <2>3. /\ row.lease_id = n /\ row.run_id = n /\ row.status = "waiting_external"
    BY <1>2, <2>1, <2>2 DEF update_lease_status_conditional, IssueLease
  <2>4. /\ wait'[i][n].sid = wait[i][n].sid /\ wait'[i][n].lease_id = wait[i][n].lease_id
        /\ Elsewhere(i, n)
    BY <1>t, <1>4, <2>1 DEF TypeOK, Elsewhere
  <2>5. \A e \in Daemons : ~Live(e, i, n)
    BY <1>c, <2>1
  <2>. HIDE DEF row
  <2>6. lease'[i] = row
    BY <1>t, <2>1 DEF TypeOK, SetLease
  <2>7. WaitingInv(i, n)'
    BY <1>2, <2>1, <2>2, <2>3, <2>4, <2>6
       DEF ClaimInv, WaitingInv, Awaits, replayed, Pollable
  <2>. QED  BY <1>3, <1>4, <2>1, <2>2, <2>3, <2>4, <2>5, <2>7, MoveList, PollLife
<1>8. CASE skipped_poll(i, n, w)
  <2>1. UNCHANGED <<lease, run, wait>>
    BY <1>8 DEF skipped_poll
  <2>2. (\A j \in Issues : SameRow(j)) /\ \A j \in Issues, m \in Claims : SameClaim(j, m)
    BY <1>4, <2>1 DEF SameRow, SameClaim
  <2>. QED  BY <1>3, <2>2, QuietLife
<1>. QED  BY <1>1, <1>5, <1>6, <1>7, <1>8 DEF ApplyPoll

\* Looking for capacity, and passing over a listed row.
LEMMA SkipNext ==
    ASSUME TypeInv, LifeInv, NEW d \in Daemons, NEW w \in todo[d],
           Admit(d, w) \/ Skip(d, w) \/ claim_bound(d, w)
    PROVE  LifeInv' /\ Forward
<1>1. UNCHANGED <<lease, run, wait, sids, stage>>
  BY DEF Admit, Skip, claim_bound, dbVars, unitVars
<1>2. /\ pass' = pass /\ pass[d] # "poll"
      /\ todo' = todo \/ todo' = [todo EXCEPT ![d] = todo[d] \ {w}]
  BY DEF Admit, Skip, claim_bound
<1>3. FewerPolls
  <2>1. CASE todo' = todo
    BY <1>2, <2>1 DEF FewerPolls
  <2>2. CASE todo' = [todo EXCEPT ![d] = todo[d] \ {w}]
    BY <1>2, <2>2, ItemPolls DEF TypeInv
  <2>. QED  BY <1>2, <2>1, <2>2
<1>4. (\A j \in Issues : SameRow(j)) /\ \A j \in Issues, m \in Claims : SameClaim(j, m)
  BY <1>1 DEF SameRow, SameClaim
<1>. QED  BY <1>3, <1>4, QuietLife

\* The lease of a ready run is taken back: nobody else is at work on it.
LEMMA ResumeNext ==
    ASSUME TypeInv, ExecInv, LifeInv, NEW d \in Daemons, NEW w \in todo[d], prepare_resume_lease(d, w)
    PROVE  LifeInv' /\ Forward
<1>t. TypeOK
  BY DEF TypeInv
<1>1. w \in ItemType
  BY <1>t DEF TypeOK, prepare_resume_lease
<1>2. PICK i \in Issues, n \in {NoRun} \cup Claims : w.issue = i /\ w.run = n
  BY <1>1 DEF ItemType
<1>. DEFINE expected == {"ready_to_resume"}
            own == {n}
            row == update_lease_status_conditional(lease[i], n, "running", expected, n, own)
<1>3. /\ pass[d] = "resume" /\ UNCHANGED <<run, wait, sids, pass>>
      /\ todo' = [todo EXCEPT ![d] = todo[d] \ {w}]
  BY DEF prepare_resume_lease
<1>4. FewerPolls
  BY <1>t, <1>3, ItemPolls
<1>5. CASE UNCHANGED <<lease, stage>>
  <2>1. (\A j \in Issues : SameRow(j)) /\ \A j \in Issues, m \in Claims : SameClaim(j, m)
    BY <1>3, <1>5 DEF SameRow, SameClaim
  <2>. QED  BY <1>4, <2>1, QuietLife
<1>6. CASE cas_applies(lease[i], n, expected, own) /\ SetLease(i, row) /\ SetStage(d, i, n, "queued")
  <2>1. lease[i].lease_id = n /\ lease[i].status = "ready_to_resume" /\ RowOK(lease[i])
    BY <1>6 DEF cas_applies, TypeInv
  <2>2. n \in Claims /\ n \in Nat /\ n # NoRun
    BY <2>1 DEF RowOK, Claims, NoLease, NoRun
  <2>3. ClaimInv(i, n) /\ run[i][n] = "ready_to_resume" /\ wait[i][n].sid = 0
    BY <2>1, <2>2 DEF LifeInv, LeaseRowInv
  <2>4. \A e \in Daemons : ~Live(e, i, n)
    BY <2>1, <2>2 DEF ExecInv, HolderInv, Offered
  <2>5. row.lease_id = n /\ row.status = "running" /\ row.run_id = n /\ row.overdue = FALSE
    BY <1>6, <2>1, <2>2 DEF update_lease_status_conditional, RowOK, IssueLease
  <2>. HIDE DEF row
  <2>6. UnitWrites(d, i, n, "queued", row) /\ Elsewhere(i, n)
    BY <1>3, <1>6, <2>1, <2>5 DEF UnitWrites, Elsewhere
  <2>7. /\ OnlyClaim(i, n)
        /\ lease'[i] = row
        /\ \A e \in Daemons : stage'[e][i][n] = IF e = d THEN "queued" ELSE stage[e][i][n]
    BY <1>t, <1>4, <2>2, <2>6, UnitOnly
  <2>8. LeaseRowInv(i)' /\ LeaseForward(i) /\ RunForward(i, n)
    BY <1>3, <2>1, <2>5, <2>7, MoveList DEF LeaseRowInv, LeaseForward, RunForward
  <2>9. FreshInv(i, n)' /\ WaitingInv(i, n)'
    BY <2>2, <2>5, <2>7 DEF FreshInv, WaitingInv
  <2>10. PolledInv(i, n)'
    BY <1>3, <1>4, <2>3 DEF ClaimInv, PolledInv, FewerPolls
  <2>11. ASSUME NEW e \in Daemons PROVE UnitInv(i, n, stage[e][i][n])'
    <3>1. UnitInv(i, n, "none")'
      BY DEF UnitInv, RunInv, ClaimingInv, SuspendInv, Awaits, replayed, ProtectInv, Claiming, AtWork, InThread
    <3>2. UnitInv(i, n, "queued")'
      BY <1>3, <2>3, <2>5, <2>7
         DEF UnitInv, RunInv, ClaimingInv, SuspendInv, Awaits, replayed, ProtectInv, Claiming, AtWork, InThread
    <3>3. stage'[e][i][n] \in {"none", "queued"}
      BY <2>4, <2>7 DEF Live
    <3>. QED  BY <3>1, <3>2, <3>3
  <2>12. ClaimInv(i, n)'
    BY <2>9, <2>10, <2>11 DEF ClaimInv
  <2>. QED  BY <2>2, <2>7, <2>8, <2>12, OneClaim
<1>. QED  BY <1>2, <1>5, <1>6 DEF prepare_resume_lease

\* A new claim: its predecessors are released, and it has no run yet.
LEMMA LaunchNext ==
    ASSUME TypeInv, ExecInv, LifeInv, NEW d \in Daemons, NEW w \in todo[d], claim_for_launch(d, w)
    PROVE  LifeInv' /\ Forward
<1>t. TypeOK
  BY DEF TypeInv
<1>1. w \in ItemType
  BY <1>t DEF TypeOK, claim_for_launch
<1>2. PICK i \in Issues : w.issue = i
  BY <1>1 DEF ItemType
<1>3. PICK n : n = lease[i].lease_id + 1
  OBVIOUS
<1>4. /\ pass[d] = "launch" /\ UNCHANGED <<run, wait, sids, pass>> /\ n <= MaxClaims
      /\ todo' = [todo EXCEPT ![d] = todo[d] \ {w}]
      /\ SetLease(i, try_claim(lease[i]))
      /\ IF claim_wins(lease[i]) THEN SetStage(d, i, n, "claimed") ELSE UNCHANGED stage
  BY <1>2, <1>3 DEF claim_for_launch
<1>5. FewerPolls
  BY <1>t, <1>4, ItemPolls
<1>6. lease[i].lease_id \in Nat /\ n \in Claims /\ n \in Nat
  <2>1. lease[i].lease_id \in Nat
    BY <1>t DEF TypeOK, IssueLease
  <2>. QED  BY <1>3, <1>4, <2>1, LifecycleAssumption DEF Claims
<1>7. lease'[i] = try_claim(lease[i]) /\ \A j \in Issues : j # i => lease'[j] = lease[j]
  BY <1>t, <1>4 DEF SetLease, TypeOK
<1>8. CASE ~claim_wins(lease[i])
  <2>1. (\A j \in Issues : SameRow(j)) /\ \A j \in Issues, m \in Claims : SameClaim(j, m)
    BY <1>4, <1>7, <1>8 DEF SameRow, SameClaim, try_claim
  <2>. QED  BY <1>5, <2>1, QuietLife
<1>9. CASE claim_wins(lease[i])
  <2>1. /\ lease'[i].lease_id = n /\ lease'[i].status = "claimed" /\ lease'[i].run_id = NoRun
        /\ lease'[i].overdue = FALSE
    BY <1>3, <1>7, <1>9 DEF try_claim
  <2>2. \A e \in Daemons, j \in Issues, m \in Claims :
           stage'[e][j][m] = IF e = d /\ j = i /\ m = n THEN "claimed" ELSE stage[e][j][m]
    <3>1. SetStage(d, i, n, "claimed")
      BY <1>4, <1>9
    <3>2. stage \in [Daemons -> [Issues -> [Claims -> Stage]]] /\ n \in Claims
      BY <1>t, <1>6 DEF TypeOK
    <3>. QED  BY <3>1, <3>2 DEF SetStage
  <2>3. \A j \in Issues, m \in Claims : ~(j = i /\ m = n) => SameClaim(j, m)
    BY <1>4, <2>2 DEF SameClaim
  <2>4. ASSUME NEW j \in Issues, j # i
        PROVE  /\ LeaseRowInv(j)' /\ LeaseForward(j)
               /\ \A m \in Claims : ClaimInv(j, m)' /\ RunForward(j, m)
    <3>1. SameRow(j) /\ \A m \in Claims : SameClaim(j, m)
      BY <1>7, <2>3, <2>4 DEF SameRow
    <3>. QED  BY <1>5, <3>1, RowLife
  <2>5. LeaseRowInv(i)' /\ LeaseForward(i) /\ \A m \in Claims : RunForward(i, m)
    BY <1>3, <1>4, <1>9, <2>1 DEF LeaseRowInv, LeaseForward, RunForward
  <2>6. ASSUME NEW m \in Claims PROVE ClaimInv(i, m)'
    <3>a. ClaimInv(i, m) /\ m \in Nat
      BY DEF LifeInv, Claims
    <3>1. WaitingInv(i, m)'
      BY <2>1 DEF WaitingInv
    <3>2. CASE m = n
      <4>1. run[i][n] = "none" /\ sids[i][n] = 0 /\ wait[i][n].sid = 0
        BY <1>3, <1>6, <3>a, <3>2 DEF ClaimInv, FreshInv
      <4>2. \A e \in Daemons : ~Live(e, i, n)
        BY <1>3, <1>6 DEF ExecInv, HolderInv
      <4>3. FreshInv(i, m)'
        BY <1>6, <2>1, <3>2 DEF FreshInv
      <4>4. PolledInv(i, m)'
        BY <1>4, <1>5, <3>a, <3>2, <4>1 DEF ClaimInv, PolledInv, FewerPolls
      <4>5. ASSUME NEW e \in Daemons PROVE UnitInv(i, m, stage[e][i][m])'
        <5>1. UnitInv(i, m, "none")'
          BY DEF UnitInv, RunInv, ClaimingInv, SuspendInv, Awaits, replayed, ProtectInv, Claiming, AtWork, InThread
        <5>2. UnitInv(i, m, "claimed")'
          BY <1>4, <2>1, <3>2, <4>1
             DEF UnitInv, RunInv, ClaimingInv, SuspendInv, Awaits, replayed, ProtectInv, Claiming, AtWork, InThread
        <5>3. stage'[e][i][m] \in {"none", "claimed"}
          BY <2>2, <3>2, <4>2 DEF Live
        <5>. QED  BY <5>1, <5>2, <5>3
      <4>. QED  BY <3>1, <4>3, <4>4, <4>5 DEF ClaimInv
    <3>3. CASE m # n
      <4>1. FreshInv(i, m)'
        BY <1>3, <1>4, <1>6, <2>1, <3>a DEF ClaimInv, FreshInv
      <4>2. SameClaim(i, m)
        BY <2>3, <3>3
      <4>3. PolledInv(i, m)'
        BY <1>5, <3>a, <4>2, SamePolls DEF ClaimInv
      <4>4. ASSUME NEW e \in Daemons PROVE UnitInv(i, m, stage[e][i][m])'
        <5>1. UnitInv(i, m, stage[e][i][m]) /\ stage'[e][i][m] = stage[e][i][m]
          BY <2>2, <3>a, <3>3 DEF ClaimInv
        <5>2. RunInv(i, m, stage[e][i][m])' /\ ClaimingInv(i, m, stage[e][i][m])'
          BY <1>4, <2>1, <3>3, <5>1 DEF UnitInv, RunInv, ClaimingInv
        <5>3. SuspendInv(i, m, stage[e][i][m])'
          BY <1>4, <2>1, <3>3, <5>1 DEF UnitInv, SuspendInv, Awaits, replayed
        <5>4. ProtectInv(i, m, stage[e][i][m])'
          <6>1. lease[i].status \notin {"running", "cleanup_abandoned"}
            BY <1>9 DEF claim_wins, RECLAIMABLE
          <6>. QED  BY <5>1, <6>1 DEF UnitInv, ProtectInv
        <5>. QED  BY <5>2, <5>3, <5>4 DEF UnitInv
      <4>. QED  BY <3>1, <4>1, <4>3, <4>4 DEF ClaimInv
    <3>. QED  BY <3>2, <3>3
  <2>. QED  BY <2>4, <2>5, <2>6 DEF LifeInv, Forward
<1>. QED  BY <1>8, <1>9

\* The waits that are listed for polling are waits no unit is at work on.
LEMMA PollListNext ==
    ASSUME TypeInv, ExecInv, LifeInv, NEW d \in Daemons, NEW due \in SUBSET Issues,
           list_pollable_wait_states(d, due)
    PROVE  LifeInv' /\ Forward
<1>1. UNCHANGED <<lease, run, wait, sids, stage>>
  BY DEF list_pollable_wait_states, dbVars, unitVars
<1>2. /\ \A e \in Daemons : e # d => pass'[e] = pass[e] /\ todo'[e] = todo[e]
      /\ todo'[d] = {w \in {PollItem(i, n) : i \in due, n \in Claims} : Pollable(w.issue, w.run)}
  BY DEF list_pollable_wait_states, TypeInv, TypeOK
<1>3. ASSUME NEW i \in Issues PROVE LeaseRowInv(i)' /\ LeaseForward(i)
  <2>1. LeaseRowInv(i)
    BY DEF LifeInv
  <2>. QED  BY <1>1, <2>1 DEF LeaseRowInv, LeaseForward
<1>4. ASSUME NEW i \in Issues, NEW n \in Claims PROVE ClaimInv(i, n)' /\ RunForward(i, n)
  <2>1. ClaimInv(i, n) /\ LeaseRowInv(i) /\ n # NoRun
    BY DEF LifeInv, Claims, NoRun
  <2>2. ASSUME NEW w \in todo'[d], w.issue = i, w.run = n
        PROVE  /\ w.row.sid # 0
               /\ w.row.sid <= sids[i][n]
               /\ \A e \in Daemons : ~Live(e, i, n)
    <3>1. Pollable(i, n) /\ w.row = wait[i][n]
      BY <1>2, <2>2 DEF PollItem
    <3>2. lease[i].lease_id = n /\ lease[i].status = "waiting_external"
      BY <2>1, <3>1 DEF Pollable, LeaseRowInv
    <3>3. \A e \in Daemons : ~Live(e, i, n)
      BY <3>2 DEF ExecInv, HolderInv, Offered
    <3>. QED  BY <2>1, <3>1, <3>3 DEF Pollable, ClaimInv, PolledInv
  <2>3. PolledInv(i, n)'
    <3>1. PolledInv(i, n)
      BY <2>1 DEF ClaimInv
    <3>2. ASSUME NEW e \in Daemons, pass'[e] = "poll", NEW w \in todo'[e], w.issue = i, w.run = n
          PROVE  /\ w.row.sid # 0
                 /\ w.row.sid <= sids[i][n]
                 /\ w.row.sid = wait[i][n].sid => \A f \in Daemons : ~Live(f, i, n)
      BY <1>2, <2>2, <3>1, <3>2 DEF PolledInv
    <3>. QED  BY <1>1, <3>1, <3>2 DEF PolledInv, Live
  <2>4. FreshInv(i, n)' /\ WaitingInv(i, n)'
    BY <1>1, <2>1 DEF ClaimInv, FreshInv, WaitingInv, Awaits, replayed, Pollable
  <2>5. ASSUME NEW e \in Daemons PROVE UnitInv(i, n, stage[e][i][n])'
    <3>1. UnitInv(i, n, stage[e][i][n])
      BY <2>1 DEF ClaimInv
    <3>. QED  BY <1>1, <3>1 DEF UnitInv, RunInv, ClaimingInv, SuspendInv, Awaits, replayed, ProtectInv
  <2>. QED  BY <1>1, <2>3, <2>4, <2>5 DEF ClaimInv, RunForward
<1>. QED  BY <1>3, <1>4 DEF LifeInv, Forward

\* A chunk of queued units is spawned.
LEMMA DispatchNext ==
    ASSUME TypeInv, ExecInv, LifeInv, NEW d \in Daemons, dispatch_unit_chunk(d)
    PROVE  LifeInv' /\ Forward
<1>t. TypeOK /\ QueueOK(d)
  BY DEF TypeInv, ExecInv
<1>. DEFINE q == queue[d]
            k == Least(Len(q), GlobalLimit)
            spawned == {Item(q[j].issue, q[j].run) : j \in 1..k}
<1>1. q \in Seq(Unit) /\ k \in Nat /\ k <= Len(q)
  <2>1. q \in Seq(Unit)
    BY <1>t DEF TypeOK
  <2>. HIDE DEF q
  <2>2. Len(q) \in Nat
    BY <2>1
  <2>. QED  BY <2>1, <2>2, LifecycleAssumption DEF Least
<1>2. UNCHANGED <<lease, run, wait, sids, pass, todo>>
  BY DEF dispatch_unit_chunk, dbVars
<1>3. stage' = [stage EXCEPT ![d] = [i \in Issues |-> [n \in Claims |->
          IF Item(i, n) \in spawned THEN "starting" ELSE stage[d][i][n]]]]
  BY DEF dispatch_unit_chunk
<1>4. ASSUME NEW i \in Issues, NEW n \in Claims, Item(i, n) \in spawned
      PROVE  stage[d][i][n] = "queued"
  <2>1. PICK j \in 1..k : Item(i, n) = Item(q[j].issue, q[j].run)
    BY <1>4
  <2>2. q[j].issue = i /\ q[j].run = n /\ j \in 1..Len(q)
    BY <1>1, <2>1 DEF Item
  <2>. QED  BY <1>t, <2>2 DEF QueueOK
<1>. HIDE DEF spawned
<1>5. ASSUME NEW e \in Daemons, NEW i \in Issues, NEW n \in Claims
      PROVE  \/ stage'[e][i][n] = stage[e][i][n]
             \/ stage[e][i][n] = "queued" /\ stage'[e][i][n] = "starting"
  BY <1>t, <1>3, <1>4 DEF TypeOK
<1>6. ASSUME NEW i \in Issues PROVE LeaseRowInv(i)' /\ LeaseForward(i)
  <2>1. LeaseRowInv(i)
    BY DEF LifeInv
  <2>. QED  BY <1>2, <2>1 DEF LeaseRowInv, LeaseForward
<1>7. ASSUME NEW i \in Issues, NEW n \in Claims PROVE ClaimInv(i, n)' /\ RunForward(i, n)
  <2>1. ClaimInv(i, n)
    BY DEF LifeInv
  <2>2. \A e \in Daemons : Live(e, i, n)' => Live(e, i, n)
    BY <1>5 DEF Live
  <2>3. PolledInv(i, n)'
    BY <1>2, <2>1, <2>2 DEF ClaimInv, PolledInv
  <2>4. FreshInv(i, n)' /\ WaitingInv(i, n)'
    BY <1>2, <2>1 DEF ClaimInv, FreshInv, WaitingInv, Awaits, replayed, Pollable
  <2>5. ASSUME NEW e \in Daemons PROVE UnitInv(i, n, stage[e][i][n])'
    <3>1. UnitInv(i, n, stage[e][i][n])
      BY <2>1 DEF ClaimInv
    <3>2. CASE stage'[e][i][n] = stage[e][i][n]
      BY <1>2, <3>1, <3>2 DEF UnitInv, RunInv, ClaimingInv, SuspendInv, Awaits, replayed, ProtectInv
    <3>3. CASE stage[e][i][n] = "queued" /\ stage'[e][i][n] = "starting"
      BY <1>2, <3>1, <3>3, StageName DEF UnitInv, RunInv, ClaimingInv, SuspendInv, Awaits, replayed, ProtectInv
    <3>. QED  BY <1>5, <3>2, <3>3
  <2>. QED  BY <1>2, <2>3, <2>4, <2>5 DEF ClaimInv, RunForward
<1>. QED  BY <1>6, <1>7 DEF LifeInv, Forward

\* The other steps between the phases of a pass.
LEMMA PhaseNext ==
    ASSUME TypeInv, LifeInv, NEW d \in Daemons,
           \/ list_pending_claim_cleanups(d)
           \/ list_ready_to_resume_leases(d)
           \/ discover(d)
           \/ begin_dispatch(d)
           \/ end_pass(d)
    PROVE  LifeInv' /\ Forward
<1>1. UNCHANGED <<lease, run, wait, sids, stage>>
  BY DEF list_pending_claim_cleanups, list_ready_to_resume_leases, discover, begin_dispatch,
         end_pass, dbVars, unitVars
<1>2. (\A j \in Issues : SameRow(j)) /\ \A j \in Issues, m \in Claims : SameClaim(j, m)
  BY <1>1 DEF SameRow, SameClaim
<1>3. PICK p : p # "poll" /\ pass' = [pass EXCEPT ![d] = p]
  BY DEF list_pending_claim_cleanups, list_ready_to_resume_leases, discover, begin_dispatch, end_pass
<1>4. \A e \in Daemons : e # d => todo'[e] = todo[e]
  BY DEF list_pending_claim_cleanups, list_ready_to_resume_leases, discover, begin_dispatch,
         end_pass, TypeInv, TypeOK
<1>5. FewerPolls
  BY <1>3, <1>4, PhasePolls DEF TypeInv
<1>. QED  BY <1>2, <1>5, QuietLife

\* The head of a chunk is finished with, or still has its remote claim to give up.
HeadMoves(d, i, n) ==
    \A e \in Daemons, j \in Issues, m \in Claims :
        stage'[e][j][m] \in {stage[e][j][m], "none"} \/ (e = d /\ j = i /\ m = n /\ stage'[e][j][m] \in Releasing)

LEMMA HeadStage ==
    ASSUME TypeOK, NEW d \in Daemons, NEW i \in Issues, NEW n \in Claims,
           chunk[d] # <<>>, Head(chunk[d]).issue = i, Head(chunk[d]).run = n,
           \/ \E s \in Releasing : SetStage(d, i, n, s)
           \/ \E fails \in BOOLEAN : Retire(d, fails)
    PROVE  HeadMoves(d, i, n) /\ stage'[d][i][n] \in {"none"} \cup Releasing
<1>1. stage \in [Daemons -> [Issues -> [Claims -> Stage]]]
  BY DEF TypeOK
<1>2. CASE \E s \in Releasing : SetStage(d, i, n, s)
  BY <1>1, <1>2 DEF SetStage, HeadMoves
<1>3. CASE \E fails \in BOOLEAN : Retire(d, fails)
  <2>1. PICK fails \in BOOLEAN : stage' = [stage EXCEPT ![d] =
           [j \in Issues |-> [m \in Claims |->
               IF \/ j = Head(chunk[d]).issue /\ m = Head(chunk[d]).run
                  \/ fails /\ stage[d][j][m] = "queued"
               THEN "none" ELSE stage[d][j][m]]]]
    BY <1>3 DEF Retire
  <2>2. ASSUME NEW e \in Daemons, NEW j \in Issues, NEW m \in Claims
        PROVE  stage'[e][j][m] \in {stage[e][j][m], "none"}
    <3>1. CASE e = d
      BY <1>1, <2>1, <3>1
    <3>2. CASE e # d
      BY <1>1, <2>1, <3>2
    <3>. QED  BY <3>1, <3>2
  <2>3. stage'[d][i][n] = "none"
    BY <1>1, <2>1
  <2>. QED  BY <2>2, <2>3 DEF HeadMoves
<1>. QED  BY <1>2, <1>3

\* What the join, and what follows it, may write into the lease of the unit.
HeadRow(i, n, row) ==
    /\ row.lease_id = lease[i].lease_id
    /\ lease[i].lease_id # n =>
           row.status = lease[i].status /\ row.run_id = lease[i].run_id /\ row.overdue = lease[i].overdue
    /\ lease[i].lease_id = n =>
           \/ row.status = lease[i].status /\ row.run_id = lease[i].run_id
           \/ /\ row.run_id = n
              /\ row.status \in {"completed", "failed", "cleanup_abandoned", "waiting_external"}
              /\ row.status = lease[i].status \/ <<lease[i].status, row.status>> \in LeaseMoves
              /\ row.status = "waiting_external" =>
                     Awaits(i, n) /\ wait[i][n].sid # 0 /\ wait[i][n].lease_id = n

LEMMA HeadLife ==
    ASSUME TypeInv, ExecInv, LifeInv, NEW d \in Daemons, NEW i \in Issues, NEW n \in Claims,
           Live(d, i, n), HeadMoves(d, i, n), stage'[d][i][n] \in {"none"} \cup Releasing,
           NEW row, SetLease(i, row), HeadRow(i, n, row), UNCHANGED <<run, wait, sids, pass, todo>>
    PROVE  LifeInv' /\ Forward
<1>1. lease'[i] = row /\ \A j \in Issues : j # i => lease'[j] = lease[j]
  BY DEF SetLease, TypeInv, TypeOK
<1>2. PICK s : s = stage'[d][i][n]
  OBVIOUS
<1>3. \A e \in Daemons : stage'[e][i][n] = s \/ (e # d /\ stage'[e][i][n] = stage[e][i][n])
  <2>1. \A e \in Daemons : e # d => ~Live(e, i, n)
    BY DEF ExecInv, HolderInv, SingleExecutor
  <2>2. \A e \in Daemons : e # d => stage'[e][i][n] \in {stage[e][i][n], "none"}
    BY DEF HeadMoves
  <2>. QED  BY <1>2, <2>1, <2>2 DEF Live
<1>4. \A e \in Daemons : Live(e, i, n)' => Live(e, i, n)
  BY DEF HeadMoves, Live
<1>5. FewerPolls
  BY DEF FewerPolls
<1>6. OnlyClaim(i, n)
  <2>1. \A j \in Issues, m \in Claims : ~(j = i /\ m = n) => SameClaim(j, m)
    BY DEF SameClaim, HeadMoves
  <2>. QED  BY <1>1, <1>5, <2>1 DEF OnlyClaim, SameRow, HeadRow
<1>7. ClaimInv(i, n) /\ LeaseRowInv(i) /\ (lease[i].lease_id = n => lease[i].status \notin Offered)
  BY DEF LifeInv, ExecInv, HolderInv
<1>8. PolledInv(i, n)'
  BY <1>4, <1>7 DEF ClaimInv, PolledInv
<1>9. WaitingInv(i, n)'
  BY <1>1, <1>7 DEF WaitingInv, HeadRow, Offered, Awaits, replayed, Pollable
<1>10. UnitInv(i, n, s)'
  BY <1>2 DEF UnitInv, RunInv, ClaimingInv, SuspendInv, Awaits, replayed, ProtectInv, Claiming, AtWork, InThread, Releasing
<1>11. lease[i].lease_id = n => LeaseRowInv(i)' /\ LeaseForward(i)
  BY <1>1, <1>7 DEF LeaseRowInv, LeaseForward, HeadRow, Offered
<1>12. ClaimInv(i, n)'
  BY <1>1, <1>3, <1>8, <1>9, <1>10, UnitClaim DEF HeadRow
<1>13. RunForward(i, n)
  BY DEF RunForward
<1>. QED  BY <1>6, <1>11, <1>12, <1>13, OneClaim

\* Joining a thread.
LEMMA JoinNext ==
    ASSUME TypeInv, ExecInv, LifeInv, NEW d \in Daemons, join_unit(d)
    PROVE  LifeInv' /\ Forward
<1>t. TypeOK
  BY DEF TypeInv
<1>1. PICK i \in Issues, n \in Claims : Head(chunk[d]).issue = i /\ Head(chunk[d]).run = n
  BY <1>t, HeadUnit DEF join_unit
<1>2. PICK result : result = stage[d][i][n]
  OBVIOUS
<1>. DEFINE row == finish_lease_after_result(i, n, result)
            own == {n}
<1>3. result \in Returned /\ Live(d, i, n) /\ chunk[d] # <<>>
  <2>1. stage[d][i][n] \in Returned /\ chunk[d] # <<>>
    BY <1>1 DEF join_unit
  <2>. QED  BY <1>2, <2>1 DEF Returned, Live
<1>4. SetLease(i, row) /\ UNCHANGED <<run, wait, sids, pass, todo>>
  BY <1>1, <1>2 DEF join_unit
<1>5. \/ \E s \in Releasing : SetStage(d, i, n, s)
      \/ \E fails \in BOOLEAN : Retire(d, fails)
  <2>1. (result = "denied" /\ denial_error(i, n)) \in BOOLEAN
    OBVIOUS
  <2>2. SetStage(d, i, n, "launch_failed") \/ Retire(d, result = "denied" /\ denial_error(i, n))
    BY <1>1, <1>2 DEF join_unit
  <2>. QED  BY <2>1, <2>2 DEF Releasing
<1>6. HeadMoves(d, i, n) /\ stage'[d][i][n] \in {"none"} \cup Releasing
  BY <1>t, <1>1, <1>3, <1>5, HeadStage
<1>7. /\ n \in Nat /\ n # NoRun /\ lease[i] \in IssueLease
      /\ UnitInv(i, n, result) /\ (lease[i].lease_id = n => lease[i].status \notin Offered)
  BY <1>t, <1>2, <1>3 DEF TypeOK, Claims, NoRun, LifeInv, ClaimInv, ExecInv, HolderInv
<1>8. ASSUME NEW s, NEW expected, expected \subseteq {"running", "waiting_external", s},
             <<"running", s>> \in LeaseMoves,
             s \in {"completed", "failed", "cleanup_abandoned", "waiting_external"},
             s = "waiting_external" /\ lease[i].lease_id = n =>
                 Awaits(i, n) /\ wait[i][n].sid # 0 /\ wait[i][n].lease_id = n
      PROVE  HeadRow(i, n, update_lease_status_conditional(lease[i], n, s, expected, n, own))
  <2>. DEFINE new == update_lease_status_conditional(lease[i], n, s, expected, n, own)
  <2>1. CASE ~cas_applies(lease[i], n, expected, own)
    <3>1. new = lease[i]
      BY <2>1 DEF update_lease_status_conditional
    <3>. QED  BY <3>1 DEF HeadRow
  <2>2. CASE cas_applies(lease[i], n, expected, own)
    <3>1. /\ new.lease_id = n /\ new.status = s /\ new.run_id = n
          /\ lease[i].lease_id = n /\ lease[i].status \in expected
      BY <1>7, <2>2 DEF update_lease_status_conditional, cas_applies, IssueLease
    <3>2. lease[i].status \in {"running", s}
      BY <1>7, <1>8, <3>1 DEF Offered
    <3>. HIDE DEF new
    <3>3. new.status = lease[i].status \/ <<lease[i].status, new.status>> \in LeaseMoves
      BY <1>8, <3>1, <3>2
    <3>4. lease[i].lease_id = n /\ new.lease_id = lease[i].lease_id /\ new.run_id = n /\ new.status = s
      BY <3>1
    <3>5. /\ new.status \in {"completed", "failed", "cleanup_abandoned", "waiting_external"}
          /\ new.status = "waiting_external" =>
                 Awaits(i, n) /\ wait[i][n].sid # 0 /\ wait[i][n].lease_id = n
      BY <1>8, <3>4
    <3>6. HeadRow(i, n, new)
      BY <3>3, <3>4, <3>5 DEF HeadRow
    <3>. QED  BY <3>6 DEF new
  <2>. QED  BY <2>1, <2>2
<1>9. HeadRow(i, n, row)
  <2>1. CASE result = "success"
    <3>1. row = update_lease_status_conditional(lease[i], n, "completed", {"running"}, n, own)
      BY <2>1 DEF finish_lease_after_result
    <3>. HIDE DEF row, own
    <3>. QED  BY <1>8, <3>1, MoveList
  <2>2. CASE result \in {"failure", "denied"}
    <3>1. row = update_lease_status_conditional(lease[i], n, "failed", {"running"}, n, own)
      BY <2>2 DEF finish_lease_after_result
    <3>. HIDE DEF row, own
    <3>. QED  BY <1>8, <3>1, MoveList
  <2>3. CASE result = "cleanup"
    <3>1. row = update_lease_status_conditional(lease[i], n, "cleanup_abandoned",
                    {"running", "cleanup_abandoned"}, n, own)
      BY <2>3 DEF finish_lease_after_result
    <3>. HIDE DEF row, own
    <3>. QED  BY <1>8, <3>1, MoveList
  <2>4. CASE result = "suspended"
    <3>1. row = update_lease_status_conditional(lease[i], n, "waiting_external",
                    {"running", "waiting_external"}, n, own)
      BY <2>4 DEF finish_lease_after_result
    <3>2. lease[i].lease_id = n =>
              Awaits(i, n) /\ wait[i][n].sid # 0 /\ wait[i][n].lease_id = n
      BY <1>7, <2>4 DEF UnitInv, SuspendInv
    <3>. HIDE DEF row, own
    <3>. QED  BY <1>8, <3>1, <3>2, MoveList
  <2>5. CASE result = "error"
    <3>1. CASE lease[i].lease_id # n
      <4>1. \A s, expected :
               update_lease_status_conditional(lease[i], n, s, expected, n, own) = lease[i]
        BY <3>1 DEF update_lease_status_conditional, cas_applies
      <4>2. row = lease[i]
        BY <2>5, <4>1 DEF finish_lease_after_result
      <4>. QED  BY <4>2 DEF HeadRow
    <3>2. CASE lease[i].lease_id = n
      <4>1. ~has_pollable_external_wait(i, n)
        BY <1>7, <3>2 DEF has_pollable_external_wait, Pollable, Offered
      <4>2. row = update_lease_status_conditional(lease[i], n, "failed",
                      {"running", "waiting_external"}, n, own)
        BY <2>5, <4>1 DEF finish_lease_after_result
      <4>. HIDE DEF row, own
      <4>. QED  BY <1>8, <4>2, MoveList
    <3>. QED  BY <3>1, <3>2
  <2>. QED  BY <1>3, <2>1, <2>2, <2>3, <2>4, <2>5 DEF Returned
<1>. HIDE DEF row
<1>. QED  BY <1>3, <1>4, <1>6, <1>9, HeadLife

\* Giving up the remote claim of a failed launch.
LEMMA CleanupNext ==
    ASSUME TypeInv, ExecInv, LifeInv, NEW d \in Daemons,
           mark_claim_cleanup(d) \/ settle_claim_cleanup(d)
    PROVE  LifeInv' /\ Forward
<1>t. TypeOK
  BY DEF TypeInv
<1>1. PICK i \in Issues, n \in Claims : Head(chunk[d]).issue = i /\ Head(chunk[d]).run = n
  BY <1>t, HeadUnit DEF mark_claim_cleanup, settle_claim_cleanup
<1>2. /\ Live(d, i, n) /\ chunk[d] # <<>> /\ lease[i] \in IssueLease
      /\ UNCHANGED <<run, wait, sids, pass, todo>>
  BY <1>t, <1>1 DEF mark_claim_cleanup, settle_claim_cleanup, Live, TypeOK
<1>3. \/ \E s \in Releasing : SetStage(d, i, n, s)
      \/ \E fails \in BOOLEAN : Retire(d, fails)
  <2>1. (lease[i].lease_id # n) \in BOOLEAN
    OBVIOUS
  <2>. QED  BY <1>1, <2>1 DEF mark_claim_cleanup, settle_claim_cleanup, Releasing
<1>4. HeadMoves(d, i, n) /\ stage'[d][i][n] \in {"none"} \cup Releasing
  BY <1>t, <1>1, <1>2, <1>3, HeadStage
<1>5. PICK row : SetLease(i, row) /\ HeadRow(i, n, row)
  <2>1. \/ UNCHANGED lease
        \/ \E pending \in BOOLEAN : SetLease(i, upsert_claim_metadata(lease[i], n, pending))
    BY <1>1 DEF mark_claim_cleanup, settle_claim_cleanup
  <2>2. CASE UNCHANGED lease
    <3>1. SetLease(i, lease[i])
      BY <1>t, <2>2, SameLease
    <3>2. HeadRow(i, n, lease[i])
      BY DEF HeadRow
    <3>. QED  BY <3>1, <3>2
  <2>3. CASE \E pending \in BOOLEAN : SetLease(i, upsert_claim_metadata(lease[i], n, pending))
    <3>1. PICK pending \in BOOLEAN : SetLease(i, upsert_claim_metadata(lease[i], n, pending))
      BY <2>3
    <3>. DEFINE new == upsert_claim_metadata(lease[i], n, pending)
    <3>2. /\ new.lease_id = lease[i].lease_id /\ new.status = lease[i].status
          /\ new.run_id = lease[i].run_id /\ new.overdue = lease[i].overdue
      BY <1>2 DEF upsert_claim_metadata, IssueLease
    <3>3. SetLease(i, new)
      BY <3>1
    <3>. HIDE DEF new
    <3>4. HeadRow(i, n, new)
      BY <3>2 DEF HeadRow
    <3>. QED  BY <3>3, <3>4
  <2>. QED  BY <2>1, <2>2, <2>3
<1>. QED  BY <1>2, <1>4, <1>5, HeadLife

\* Startup recovery, which looks at every lease.
LEMMA StartNext ==
    ASSUME TypeInv, LifeInv, NEW d \in Daemons, Start(d)
    PROVE  LifeInv' /\ Forward
<1>1. UNCHANGED <<run, wait, sids, stage, todo>> /\ pass' = [pass EXCEPT ![d] = "idle"]
  BY DEF Start, unitVars
<1>2. FewerPolls
  BY <1>1, PhasePolls DEF TypeInv
<1>3. \A i \in Issues, n \in Claims : SameClaim(i, n)
  BY <1>1 DEF SameClaim
<1>4. ASSUME NEW i \in Issues PROVE SameRow(i) \/ TakenAway(i)
  <2>1. lease[i] \in IssueLease /\ lease'[i] = recover_stale(lease[i])
    BY DEF Start, TypeInv, TypeOK
  <2>2. CASE lease[i].overdue /\ lease[i].status \in {"claimed", "running", "ready_to_resume"}
    <3>1. /\ lease'[i].lease_id = lease[i].lease_id /\ lease'[i].run_id = lease[i].run_id
          /\ lease'[i].status = "stale"
      BY <2>1, <2>2 DEF recover_stale, is_active, IssueLease
    <3>2. <<lease[i].status, "stale">> \in LeaseMoves
      BY <2>2, MoveList
    <3>. QED  BY <2>2, <3>1, <3>2 DEF TakenAway
  <2>3. CASE ~(lease[i].overdue /\ lease[i].status \in {"claimed", "running", "ready_to_resume"})
    BY <2>1, <2>3 DEF recover_stale, is_active, SameRow
  <2>. QED  BY <2>2, <2>3
<1>5. \A i \in Issues : /\ LeaseRowInv(i)' /\ LeaseForward(i)
                        /\ \A n \in Claims : ClaimInv(i, n)' /\ RunForward(i, n)
  BY <1>2, <1>3, <1>4, RowLife
<1>. QED  BY <1>5 DEF LifeInv, Forward

\* Time that passes.
LEMMA AgeNext ==
    ASSUME TypeInv, LifeInv, NEW i \in Issues, Age(i)
    PROVE  LifeInv' /\ Forward
<1>. DEFINE row == [lease[i] EXCEPT !.overdue = TRUE]
<1>1. lease[i] \in IssueLease
  BY DEF TypeInv, TypeOK
<1>2. SetLease(i, row) /\ UNCHANGED <<run, wait, sids, stage, pass, todo>>
  BY DEF Age, unitVars
<1>3. /\ row.lease_id = lease[i].lease_id /\ row.status = lease[i].status
      /\ row.run_id = lease[i].run_id
  BY <1>1 DEF IssueLease
<1>. HIDE DEF row
<1>4. lease'[i] = row
  BY <1>2 DEF SetLease, TypeInv, TypeOK
<1>5. ~LongSteps => \A d \in Daemons, n \in Claims : n = lease[i].lease_id => ~Live(d, i, n)
  BY DEF Age
<1>6. Aged(i)
  BY <1>3, <1>4, <1>5 DEF Aged
<1>7. FewerPolls
  BY <1>2 DEF FewerPolls
<1>. QED  BY <1>2, <1>6, <1>7, OneRow

LEMMA LifeInit == Init => LifeInv
<1>. SUFFICES ASSUME Init, NEW i \in Issues PROVE LeaseRowInv(i) /\ \A n \in Claims : ClaimInv(i, n)
  BY DEF LifeInv
<1>1. lease[i].run_id = NoRun /\ lease[i].status = "absent" /\ LeaseRowInv(i)
  BY DEF Init, AbsentRow, LeaseRowInv
<1>2. ASSUME NEW n \in Claims PROVE ClaimInv(i, n)
  <2>1. FreshInv(i, n) /\ WaitingInv(i, n)
    BY <1>1 DEF Init, NoWait, FreshInv, WaitingInv
  <2>2. PolledInv(i, n)
    BY DEF Init, NoWait, PolledInv
  <2>3. ASSUME NEW d \in Daemons PROVE UnitInv(i, n, stage[d][i][n])
    <3>1. stage[d][i][n] = "none"
      BY DEF Init
    <3>2. UnitInv(i, n, "none")
      BY DEF UnitInv, RunInv, ClaimingInv, SuspendInv, Awaits, replayed, ProtectInv, Claiming, AtWork, InThread
    <3>. QED  BY <3>1, <3>2
  <2>. QED  BY <2>1, <2>2, <2>3 DEF ClaimInv
<1>. QED  BY <1>1, <1>2

LEMMA LifeNext == TypeInv /\ ExecInv /\ LifeInv /\ [Next]_vars => LifeInv' /\ (Forward \/ UNCHANGED vars)
<1>. SUFFICES ASSUME TypeInv, ExecInv, LifeInv, [Next]_vars
              PROVE  LifeInv' /\ (Forward \/ UNCHANGED vars)
  OBVIOUS
<1>1. ASSUME NEW d \in Daemons, PassStep(d) PROVE LifeInv' /\ Forward
  BY <1>1, PhaseNext, PollListNext, DispatchNext, JoinNext, CleanupNext DEF PassStep
<1>2. ASSUME NEW d \in Daemons, NEW w \in todo[d], ItemStep(d, w) PROVE LifeInv' /\ Forward
  BY <1>2, ReconcileNext, PollNext, SkipNext, ResumeNext, LaunchNext DEF ItemStep
<1>3. ASSUME NEW d \in Daemons, Start(d) PROVE LifeInv' /\ Forward
  BY <1>3, StartNext
<1>4. ASSUME NEW d \in Daemons, Crash(d) PROVE LifeInv' /\ Forward
  <2>1. DropUnits(d) /\ pass' = [pass EXCEPT ![d] = "down"] /\ UNCHANGED <<lease, run, wait, sids>>
    BY <1>4 DEF Crash, dbVars
  <2>2. \A i \in Issues : SameRow(i)
    BY <2>1 DEF SameRow
  <2>. QED  BY <2>1, <2>2, DropLife
<1>5. ASSUME NEW i \in Issues, Age(i) PROVE LifeInv' /\ Forward
  BY <1>5, AgeNext
<1>6. CASE UNCHANGED vars
  <2>1. /\ \A i \in Issues : SameRow(i)
        /\ \A i \in Issues, n \in Claims : SameClaim(i, n)
        /\ FewerPolls
    BY <1>6 DEF vars, SameRow, SameClaim, FewerPolls
  <2>. QED  BY <1>6, <2>1, QuietLife
<1>7. ASSUME NEW d \in Daemons, DaemonStep(d) PROVE LifeInv' /\ Forward
  BY <1>1, <1>2, <1>7, ClaimNext, ThreadNext DEF DaemonStep
<1>. QED  BY <1>3, <1>4, <1>5, <1>6, <1>7 DEF Next

\* No step of any daemon, thread or poller moves a lease backwards or revives a
\* run that has ended, for every number of daemons, issues and claims, with
\* crashes, stale marking, late polls and launchers that lost their lease at
\* any point.
THEOREM LeasesMoveForward == Spec => LeaseMovesForward
<1>1. Forward => \A i \in Issues :
          /\ \/ lease'[i].status = lease[i].status /\ lease'[i].lease_id = lease[i].lease_id
             \/ /\ lease'[i].lease_id = lease[i].lease_id
                /\ <<lease[i].status, lease'[i].status>> \in LeaseMoves
             \/ /\ lease'[i].lease_id = lease[i].lease_id + 1
                /\ claim_wins(lease[i]) /\ lease'[i].status = "claimed"
          /\ \A n \in Claims : run[i][n] \in TerminalRun => run'[i][n] = run[i][n]
  BY DEF Forward, LeaseForward, RunForward
<1>. QED
  BY <1>1, TypeInit, TypeNext, ExecInit, ExecNext, LifeInit, LifeNext, PTL DEF Spec, LeaseMovesForward

\* A lease that waits is listed for polling, and the run it belongs to waits or was
\* answered by a replay; a ready one belongs to a run that is ready: in every
\* reachable state of every instance, whatever crashes, late polls and join
\* errors there are (persist_external_wait_state before finish_lease_after_result).
THEOREM LeasesAgree == Spec => []LeaseAgreesWithRun
<1>1. LifeInv => LeaseAgreesWithRun
  BY DEF LifeInv, ClaimInv, WaitingInv, Awaits, LeaseRowInv, LeaseAgreesWithRun
<1>. QED
  BY <1>1, TypeInit, TypeNext, ExecInit, ExecNext, LifeInit, LifeNext, PTL DEF Spec

\* What a running lease may become under its unit: the statuses of the steps that
\* are no join, no poll, no denial and no startup.
Mild == {"claimed", "pending", "running", "abandoned", "cleanup_abandoned"}

Milder(i) == lease'[i].status \in {lease[i].status} \cup Mild

\* Every such step writes at most one row, and writes it so.
LEMMA MildRow ==
    ASSUME TypeOK, NEW i \in Issues, NEW row, SetLease(i, row),
           row.status \in {lease[i].status} \cup Mild
    PROVE  \A j \in Issues : Milder(j)
  BY DEF TypeOK, SetLease, Milder

LEMMA MildWrites ==
    ASSUME TypeOK, NEW i \in Issues
    PROVE  /\ \A id, s, expected, r, owners : s \in Mild =>
                  update_lease_status_conditional(lease[i], id, s, expected, r, owners).status
                      \in {lease[i].status} \cup Mild
           /\ \A id : \A pending \in BOOLEAN :
                  upsert_claim_metadata(lease[i], id, pending).status = lease[i].status
           /\ \A id : update_lease_status(lease[i], id, "abandoned").status
                          \in {lease[i].status} \cup Mild
           /\ \A id, r : touch_owned_running_lease_heartbeat(lease[i], id, r).status = lease[i].status
           /\ try_claim(lease[i]).status \in {lease[i].status} \cup Mild
<1>0. lease[i] \in IssueLease
  BY DEF TypeOK
<1>1. ASSUME NEW id, NEW s \in Mild, NEW expected, NEW r, NEW owners
      PROVE  update_lease_status_conditional(lease[i], id, s, expected, r, owners).status
                 \in {lease[i].status} \cup Mild
  BY <1>0 DEF update_lease_status_conditional, IssueLease
<1>2. ASSUME NEW id, NEW pending \in BOOLEAN
      PROVE  upsert_claim_metadata(lease[i], id, pending).status = lease[i].status
  BY <1>0 DEF upsert_claim_metadata, IssueLease
<1>3. ASSUME NEW id
      PROVE  update_lease_status(lease[i], id, "abandoned").status \in {lease[i].status} \cup Mild
  BY <1>0 DEF update_lease_status, IssueLease, Mild
<1>4. ASSUME NEW id, NEW r
      PROVE  touch_owned_running_lease_heartbeat(lease[i], id, r).status = lease[i].status
  BY <1>0 DEF touch_owned_running_lease_heartbeat, IssueLease
<1>5. try_claim(lease[i]).status \in {lease[i].status} \cup Mild
  BY DEF try_claim, Mild
<1>. QED  BY <1>1, <1>2, <1>3, <1>4, <1>5

LEMMA MildThread ==
    ASSUME TypeOK, NEW e \in Daemons, NEW j \in Issues, NEW m \in Claims,
           ThreadStep(e, j, m), ~deny_ownership(e, j, m)
    PROVE  \A i \in Issues : Milder(i)
<1>1. CASE UNCHANGED lease
  BY <1>1 DEF Milder
<1>2. CASE heartbeat_owned_lease(e, j, m)
  <2>1. SetLease(j, touch_owned_running_lease_heartbeat(lease[j], lease[j].lease_id, m))
    BY <1>2 DEF heartbeat_owned_lease
  <2>. QED  BY <2>1, MildWrites, MildRow
<1>3. CASE enter_cleanup(e, j, m) \/ finish_cleanup(e, j, m)
  <2>1. SetLease(j, update_lease_status_conditional(lease[j], lease[j].lease_id,
           "cleanup_abandoned", {"running", "cleanup_abandoned"}, NoRun, {m}))
    BY <1>3 DEF enter_cleanup, finish_cleanup
  <2>2. "cleanup_abandoned" \in Mild
    BY DEF Mild
  <2>. QED  BY <2>1, <2>2, MildWrites, MildRow
<1>. QED
  BY <1>1, <1>2, <1>3 DEF ThreadStep, start_run, replay_recovery, finish_run, pause_for_external_wait,
                         persist_external_wait_state, thread_error, dbVars

LEMMA MildClaim ==
    ASSUME TypeOK, NEW e \in Daemons, NEW j \in Issues, NEW m \in Claims, ClaimStep(e, j, m)
    PROVE  \A i \in Issues : Milder(i)
<1>0. "running" \in Mild /\ "abandoned" \in Mild
  BY DEF Mild
<1>1. CASE UNCHANGED lease
  BY <1>1 DEF Milder
<1>2. CASE SetLease(j, update_lease_status(lease[j], m, "abandoned"))
  BY <1>2, MildWrites, MildRow
<1>3. CASE \E pending \in BOOLEAN : SetLease(j, upsert_claim_metadata(lease[j], m, pending))
  BY <1>3, MildWrites, MildRow
<1>4. CASE mark_running(e, j, m)
  <2>1. SetLease(j, update_lease_status_conditional(lease[j], m, "running", {"claimed"}, m, AnyOwner))
    BY <1>4 DEF mark_running
  <2>. QED  BY <1>0, <2>1, MildWrites, MildRow
<1>5. CASE abandon_lease(e, j, m)
  <2>1. SetLease(j, update_lease_status_conditional(lease[j], m, "abandoned",
                        {"claimed", "pending"}, m, AnyOwner))
    BY <1>5 DEF abandon_lease
  <2>. QED  BY <1>0, <2>1, MildWrites, MildRow
<1>6. CASE recheck_capacity(e, j, m)
  BY <1>1, <1>2, <1>6 DEF recheck_capacity
<1>7. CASE announce_claim(e, j, m) \/ settle_claim(e, j, m) \/ abandon_failed_claim(e, j, m)
  <2>1. \E pending \in BOOLEAN : SetLease(j, upsert_claim_metadata(lease[j], m, pending))
    BY <1>7 DEF announce_claim, settle_claim, abandon_failed_claim
  <2>. QED  BY <1>3, <2>1
<1>. QED  BY <1>4, <1>5, <1>6, <1>7 DEF ClaimStep

LEMMA MildItem ==
    ASSUME TypeInv, NEW e \in Daemons, NEW w \in todo[e], ItemStep(e, w), ~ApplyPoll(e, w)
    PROVE  \A i \in Issues : Milder(i)
<1>0. /\ "running" \in Mild /\ "abandoned" \in Mild /\ "pending" \in Mild
      /\ TypeOK
  BY DEF Mild, TypeInv
<1>1. CASE UNCHANGED lease
  BY <1>1 DEF Milder
<1>2. CASE withdraw_claim(e, w) \/ release_withdrawn_claim(e, w) \/ reconcile_pending_cleanup(e, w)
  <2>1. w \in CleanupItemType
    BY <1>2 DEF TypeInv, TodoOK, withdraw_claim, release_withdrawn_claim, reconcile_pending_cleanup,
                Reconciling
  <2>2. PICK i \in Issues : w.issue = i
    BY <2>1 DEF CleanupItemType
  <2>3. CASE withdraw_claim(e, w)
    <3>1. SetLease(i, update_lease_status_conditional(lease[i], w.lease_id, "pending", {"claimed"},
                          NoRun, AnyOwner))
      BY <2>2, <2>3 DEF withdraw_claim
    <3>. QED  BY <1>0, <3>1, MildWrites, MildRow
  <2>4. CASE release_withdrawn_claim(e, w)
    <3>1. SetLease(i, update_lease_status_conditional(lease[i], w.lease_id, "abandoned", {"pending"},
                          NoRun, AnyOwner))
      BY <2>2, <2>4 DEF release_withdrawn_claim
    <3>. QED  BY <1>0, <3>1, MildWrites, MildRow
  <2>5. CASE reconcile_pending_cleanup(e, w)
    <3>1. UNCHANGED lease \/ SetLease(i, upsert_claim_metadata(lease[i], w.lease_id, FALSE))
      BY <2>2, <2>5 DEF reconcile_pending_cleanup
    <3>. QED  BY <1>0, <1>1, <3>1, MildWrites, MildRow
  <2>. QED  BY <1>2, <2>3, <2>4, <2>5
<1>3. CASE prepare_resume_lease(e, w) \/ claim_for_launch(e, w)
  <2>1. w \in ItemType
    BY <1>3 DEF TypeInv, TypeOK, prepare_resume_lease, claim_for_launch
  <2>2. PICK i \in Issues : w.issue = i
    BY <2>1 DEF ItemType
  <2>3. CASE prepare_resume_lease(e, w)
    <3>1. UNCHANGED lease \/ SetLease(i, update_lease_status_conditional(lease[i], w.run, "running",
                                              {"ready_to_resume"}, w.run, {w.run}))
      BY <2>2, <2>3 DEF prepare_resume_lease
    <3>. QED  BY <1>0, <1>1, <3>1, MildWrites, MildRow
  <2>4. CASE claim_for_launch(e, w)
    <3>1. SetLease(i, try_claim(lease[i]))
      BY <2>2, <2>4 DEF claim_for_launch
    <3>. QED  BY <1>0, <3>1, MildWrites, MildRow
  <2>. QED  BY <1>3, <2>3, <2>4
<1>. QED  BY <1>1, <1>2, <1>3 DEF ItemStep, Admit, Skip, claim_bound, dbVars

LEMMA MildPass ==
    ASSUME TypeInv, NEW e \in Daemons, PassStep(e), ~join_unit(e)
    PROVE  \A i \in Issues : Milder(i)
<1>1. CASE UNCHANGED lease
  BY <1>1 DEF Milder
<1>2. CASE mark_claim_cleanup(e) \/ settle_claim_cleanup(e)
  <2>1. PICK j \in Issues, m \in Claims : Head(chunk[e]).issue = j /\ Head(chunk[e]).run = m
    BY <1>2, HeadUnit DEF TypeInv, mark_claim_cleanup, settle_claim_cleanup
  <2>2. UNCHANGED lease \/ \E pending \in BOOLEAN :
            SetLease(j, upsert_claim_metadata(lease[j], m, pending))
    BY <1>2, <2>1 DEF mark_claim_cleanup, settle_claim_cleanup
  <2>. QED  BY <1>1, <2>2, MildWrites, MildRow DEF TypeInv
<1>. QED
  BY <1>1, <1>2 DEF PassStep, list_pending_claim_cleanups, list_pollable_wait_states,
        list_ready_to_resume_leases, discover, begin_dispatch, dispatch_unit_chunk, end_pass, dbVars

\* What WorkingLeaseKept asks of a step, for one unit at work.
Kept(i, n) ==
    /\ lease'[i].lease_id = n
    /\ \/ lease'[i].status \in Protecting
       \/ lease[i].overdue /\ lease'[i].status = "stale"

AtWorkOn(d, i, n) ==
    /\ stage[d][i][n] \in AtWork /\ stage'[d][i][n] \in AtWork
    /\ lease[i].lease_id = n /\ lease[i].status \in Protecting

LEMMA MildKept ==
    ASSUME NEW d \in Daemons, NEW i \in Issues, NEW n \in Claims, AtWorkOn(d, i, n),
           Forward, Milder(i)
    PROVE  Kept(i, n)
  BY DEF AtWorkOn, Kept, Forward, LeaseForward, Milder, Mild, LeaseMoves, Protecting, claim_wins,
         RECLAIMABLE

\* A poll applies to no lease that a unit protects: the wait it was listed for
\* is not the wait of a unit at work.
LEMMA PollKept ==
    ASSUME TypeInv, LifeInv, NEW d \in Daemons, NEW i \in Issues, NEW n \in Claims,
           AtWorkOn(d, i, n), NEW e \in Daemons, NEW w \in todo[e], ApplyPoll(e, w)
    PROVE  lease'[i] = lease[i]
<1>1. w \in PollItemType /\ pass[e] = "poll"
  BY DEF TypeInv, TodoOK, ApplyPoll
<1>2. PICK j \in Issues, m \in Claims : w.issue = j /\ w.run = m
  BY <1>1 DEF PollItemType
<1>3. CASE UNCHANGED lease
  BY <1>3
<1>4. CASE j # i
  <2>1. UNCHANGED lease \/ \E row : SetLease(j, row)
    BY <1>2 DEF ApplyPoll, apply_ready_to_resume, apply_terminal_failure, apply_still_waiting, skipped_poll
  <2>. QED  BY <1>4, <2>1 DEF SetLease, TypeInv, TypeOK
<1>5. CASE j = i /\ (apply_ready_to_resume(j, m, w) \/ apply_still_waiting(j, m, w))
  BY <1>5 DEF apply_ready_to_resume, apply_still_waiting, ready_applies, still_waiting_applies,
              cas_applies, AtWorkOn, Protecting
<1>6. CASE j = i /\ apply_terminal_failure(j, m, w)
  <2>1. wait[i][m].sid = w.row.sid /\ lease[i].run_id = m
    BY <1>6 DEF apply_terminal_failure, terminal_applies, cas_applies
  <2>2. m = n
    BY <2>1 DEF LifeInv, LeaseRowInv, AtWorkOn, Claims, NoRun
  <2>3. PolledInv(i, n)
    BY DEF LifeInv, ClaimInv
  <2>4. ~Live(d, i, n)
    BY <1>1, <1>2, <1>6, <2>1, <2>2, <2>3 DEF PolledInv
  <2>. QED  BY <2>4, StageName DEF Live, AtWorkOn
<1>. QED  BY <1>2, <1>3, <1>4, <1>5, <1>6 DEF ApplyPoll, skipped_poll

\* Nor does the join of another claim's unit.
LEMMA JoinKept ==
    ASSUME TypeInv, ExecInv, NEW d \in Daemons, NEW i \in Issues, NEW n \in Claims,
           AtWorkOn(d, i, n), NEW e \in Daemons, join_unit(e)
    PROVE  lease'[i] = lease[i]
<1>1. PICK j \in Issues, m \in Claims : Head(chunk[e]).issue = j /\ Head(chunk[e]).run = m
  BY HeadUnit DEF TypeInv, join_unit
<1>2. PICK result : result = stage[e][j][m]
  OBVIOUS
<1>3. result \in Returned /\ SetLease(j, finish_lease_after_result(j, m, result))
  BY <1>1, <1>2 DEF join_unit
<1>4. CASE j # i
  BY <1>3, <1>4 DEF SetLease, TypeInv, TypeOK
<1>5. CASE j = i /\ m = n
  <2>1. Live(d, i, n) /\ Live(e, i, n)
    BY <1>2, <1>3, <1>5, StageName DEF Live, AtWorkOn, Returned
  <2>2. d = e
    BY <2>1 DEF ExecInv, HolderInv, SingleExecutor
  <2>. QED  BY <1>2, <1>3, <1>5, <2>2, StageName DEF AtWorkOn
<1>6. CASE j = i /\ m # n
  <2>1. finish_lease_after_result(i, m, result) = lease[i]
    BY <1>3, <1>6 DEF finish_lease_after_result, update_lease_status_conditional, cas_applies, AtWorkOn,
                      Returned
  <2>. QED  BY <1>3, <1>6, <2>1 DEF SetLease, TypeInv, TypeOK
<1>. QED  BY <1>4, <1>5, <1>6

LEMMA DenyKept ==
    ASSUME TypeInv, ExecInv, LifeInv, NEW d \in Daemons, NEW i \in Issues, NEW n \in Claims,
           AtWorkOn(d, i, n), NEW e \in Daemons, NEW j \in Issues, NEW m \in Claims,
           deny_ownership(e, j, m)
    PROVE  lease'[i] = lease[i]
<1>1. SetLease(j, update_lease_status_conditional(lease[j], lease[j].lease_id,
           "failed", {"running"}, NoRun, {m}))
  BY DEF deny_ownership
<1>2. CASE j # i
  BY <1>1, <1>2 DEF SetLease, TypeInv, TypeOK
<1>3. CASE j = i /\ m = n
  <2>1. Live(d, i, n) /\ Live(e, i, n) /\ stage'[e][i][n] = "denied"
    BY <1>3, StageName DEF Live, AtWorkOn, deny_ownership, SetStage, TypeInv, TypeOK
  <2>2. d = e
    BY <2>1 DEF ExecInv, HolderInv, SingleExecutor
  <2>. QED  BY <2>1, <2>2 DEF AtWorkOn, AtWork, InThread
<1>4. CASE j = i /\ m # n
  <2>1. lease[i].run_id # m
    BY <1>4 DEF LifeInv, LeaseRowInv, AtWorkOn, Claims, NoRun
  <2>. QED  BY <1>1, <1>4, <2>1 DEF SetLease, update_lease_status_conditional, cas_applies, TypeInv, TypeOK
<1>. QED  BY <1>2, <1>3, <1>4

\* Every step keeps the lease of a unit that is at work before and after it.
LEMMA KeptNext ==
    ASSUME TypeInv, ExecInv, LifeInv, [Next]_vars, Forward \/ UNCHANGED vars,
           NEW d \in Daemons, NEW i \in Issues, NEW n \in Claims, AtWorkOn(d, i, n)
    PROVE  Kept(i, n)
<1>1. CASE lease'[i] = lease[i]
  BY <1>1 DEF Kept, AtWorkOn
<1>2. CASE UNCHANGED vars
  BY <1>1, <1>2 DEF vars
<1>3. CASE Forward /\ Milder(i)
  BY <1>3, MildKept
<1>4. ASSUME NEW e \in Daemons, Start(e), Forward PROVE Kept(i, n)
  <2>1. lease'[i] = recover_stale(lease[i]) /\ lease[i] \in IssueLease
    BY <1>4 DEF Start, TypeInv, TypeOK
  <2>. QED  BY <2>1 DEF recover_stale, Kept, AtWorkOn, IssueLease
<1>5. ASSUME NEW j \in Issues, Age(j), Forward PROVE Kept(i, n)
  <2>1. Milder(i)
    <3>1. SetLease(j, [lease[j] EXCEPT !.overdue = TRUE])
      BY <1>5 DEF Age
    <3>. QED  BY <3>1 DEF SetLease, Milder, TypeInv, TypeOK, IssueLease
  <2>. QED  BY <1>5, <2>1, MildKept
<1>6. ASSUME NEW e \in Daemons, Crash(e) PROVE Kept(i, n)
  BY <1>1, <1>6 DEF Crash, dbVars
<1>7. ASSUME NEW e \in Daemons, DaemonStep(e), Forward PROVE Kept(i, n)
  <2>1. CASE PassStep(e)
    BY <1>1, <1>3, <1>7, <2>1, MildPass, JoinKept
  <2>2. CASE \E w \in todo[e] : ItemStep(e, w)
    <3>1. PICK w \in todo[e] : ItemStep(e, w)
      BY <2>2
    <3>. QED  BY <1>1, <1>3, <1>7, <3>1, MildItem, PollKept
  <2>3. CASE \E j \in Issues, m \in Claims : ClaimStep(e, j, m) \/ ThreadStep(e, j, m)
    <3>1. PICK j \in Issues, m \in Claims : ClaimStep(e, j, m) \/ ThreadStep(e, j, m)
      BY <2>3
    <3>2. TypeOK
      BY DEF TypeInv
    <3>. QED  BY <1>1, <1>3, <1>7, <3>1, <3>2, MildClaim, MildThread, DenyKept
  <2>. QED  BY <1>7, <2>1, <2>2, <2>3 DEF DaemonStep
<1>. QED  BY <1>2, <1>4, <1>5, <1>6, <1>7 DEF Next

\* From the moment its lease runs until its thread returns, a unit's issue is
\* protected by that lease in every reachable state of every instance, or a
\* startup found the heartbeat overdue: no claim, poll, resume, reconciliation or
\* join takes it away (the conditional updates of persistence/leases.rs).
THEOREM WorkingLeasesKept == Spec => WorkingLeaseKept
<1>1. TypeInv /\ ExecInv /\ LifeInv /\ [Next]_vars =>
         \A d \in Daemons, i \in Issues, n \in Claims : AtWorkOn(d, i, n) => Kept(i, n)
  BY LifeNext, KeptNext
<1>2. (\A d \in Daemons, i \in Issues, n \in Claims : AtWorkOn(d, i, n) => Kept(i, n)) =>
         \A d \in Daemons, i \in Issues, n \in Claims :
          /\ stage[d][i][n] \in AtWork /\ stage'[d][i][n] \in AtWork
          /\ lease[i].lease_id = n /\ lease[i].status \in Protecting
          => /\ lease'[i].lease_id = n
             /\ \/ lease'[i].status \in Protecting
                \/ lease[i].overdue /\ lease'[i].status = "stale"
  BY DEF AtWorkOn, Kept
<1>. QED
  BY <1>1, <1>2, TypeInit, TypeNext, ExecInit, ExecNext, LifeInit, LifeNext, PTL DEF Spec, WorkingLeaseKept

\* If live holders heartbeat within the stale timeout, two engine threads never
\* work on one issue, whatever crashes, restarts and claims happen around them:
\* the lease of a thread's own claim is the one that protects the issue.
LEMMA TimelyIssuesAreExclusive ==
    ASSUME ~LongSteps
    PROVE  Spec => []IssueExclusive
<1>1. ExecInv /\ LifeInv => IssueExclusive
  <2>. SUFFICES ASSUME ExecInv, LifeInv, NEW i \in Issues, NEW n1 \in Claims, NEW n2 \in Claims,
                       NEW d1 \in Daemons, NEW d2 \in Daemons,
                       stage[d1][i][n1] \in InThread, stage[d2][i][n2] \in InThread
                PROVE  d1 = d2 /\ n1 = n2
    BY DEF IssueExclusive
  <2>1. n1 = lease[i].lease_id /\ n2 = lease[i].lease_id
    BY DEF LifeInv, ClaimInv, UnitInv, ProtectInv, AtWork
  <2>2. Live(d1, i, n1) /\ Live(d2, i, n2)
    BY DEF Live, InThread
  <2>. QED  BY <2>1, <2>2 DEF ExecInv, HolderInv, SingleExecutor
<1>. QED
  BY <1>1, TypeInit, TypeNext, ExecInit, ExecNext, LifeInit, LifeNext, PTL DEF Spec
=============================================================================
