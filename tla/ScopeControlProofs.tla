------------------------- MODULE ScopeControlProofs -------------------------
(***************************************************************************)
(* Proofs about ScopeControl, for any files, policies and bounds.          *)
(***************************************************************************)
EXTENDS ScopeControl, FiniteSetTheorems, TLAPS

----------------------------------------------------------------------------
(* Types.                                                                   *)

Measured == Patches \X Nat
Measurements == Measured \cup {NoMeasurement}
Review == [kind : {"initial", "delta"}, to : Nat]

RequestFile == [measurement : Measured, charter : 0 .. Len(policies)]
Resolution == [measurement : Measurements, decision : Decisions \cup {None}]
StatusFile ==
    [digest : 0 .. Len(policies), measurement : Measurements, over : BOOLEAN, prior : Measurements]

TypeInv ==
    /\ patch \in Patches /\ head \in Nat
    /\ policy \in 1 .. Len(policies) /\ charter \in 0 .. Len(policies)
    /\ status \in StatusFile
    /\ requests \in Seq(RequestFile)
    /\ resolution \in Resolution
    /\ history \in [reviews : Seq(Review), rounds : Nat]
    /\ mode \in {"running", "waiting", "ended"}
    /\ acted \in Measurements

LEMMA MeasuredIsSome == \A m \in Measured : m # NoMeasurement
<1>. SUFFICES ASSUME NEW m \in Measured, m = NoMeasurement PROVE FALSE
  OBVIOUS
<1>1. PICK p \in Patches, h \in Nat : m = <<p, h>>
  BY DEF Measured
<1>2. Len(<<p, h>>) = 2 /\ Len(<<>>) = 0
  OBVIOUS
<1>. QED  BY <1>1, <1>2 DEF NoMeasurement

LEMMA DigestType == ASSUME TypeInv PROVE digest_now \in Measured
  BY DEF TypeInv, digest_now, measurement_digest, Measured

LEMMA RequestType ==
    ASSUME TypeInv, write_expansion_request(digest_now)
    PROVE  requests' \in Seq(RequestFile)
<1>1. request_for(digest_now) \in RequestFile
  BY DigestType DEF TypeInv, request_for, RequestFile
<1>2. requests \in Seq(RequestFile)
  BY DEF TypeInv
<1>3. Append(requests, request_for(digest_now)) \in Seq(RequestFile)
  BY <1>1, <1>2
<1>. QED  BY <1>2, <1>3 DEF write_expansion_request

\* Recording a measurement keeps the status file well formed.
LEMMA StatusType ==
    ASSUME NEW s \in StatusFile, NEW d \in Measured, NEW over \in BOOLEAN
    PROVE  /\ update_status_measurement(s, d, over) \in StatusFile
           /\ update_status_measurement(s, d, over).digest = s.digest
           /\ update_status_measurement(s, d, over).measurement = d
           /\ update_status_measurement(s, d, over).over = over
           /\ update_status_measurement(s, d, over).prior =
                IF s.measurement \in {NoMeasurement, d} THEN s.prior ELSE s.measurement
  BY DEF update_status_measurement, StatusFile, Measurements

LEMMA TypeInit == Init => TypeInv
<1>. SUFFICES ASSUME Init PROVE TypeInv
  OBVIOUS
<1>1. Len(policies) \in Nat /\ Len(policies) >= 1
  BY ScopeAssumption
<1>2. patch \in Patches
  BY ScopeAssumption DEF Init, Patches
<1>3. status \in StatusFile
  BY <1>1 DEF Init, NoStatus, StatusFile, NoCharter, Measurements
<1>4. resolution \in Resolution
  BY DEF Init, NoResolution, Resolution, Measurements
<1>5. history \in [reviews : Seq(Review), rounds : Nat]
  BY DEF Init, EmptyHistory
<1>. QED  BY <1>1, <1>2, <1>3, <1>4, <1>5 DEF Init, TypeInv, NoCharter, Measurements

LEMMA TypeStep == ASSUME TypeInv, [Next]_vars PROVE TypeInv'
<1>. USE DEF TypeInv
<1>0. /\ Len(policies) \in Nat
      /\ digest_now \in Measured /\ Measured \subseteq Measurements
  BY ScopeAssumption, DigestType DEF Measurements
<1>1. CASE task_charter
  BY <1>0, <1>1 DEF task_charter, Goto, Fail, compute_digest
<1>2. CASE persist_charter_and_status
  BY <1>0, <1>2 DEF persist_charter_and_status, Goto, Fail, status_for, NoStatus, StatusFile, Measurements
<1>3. ASSUME NEW s \in {"implement", "remediate", "push_remediation_changes"},
             enforce_scope_barrier(s)
      PROVE  TypeInv'
  BY <1>0, <1>3, RequestType DEF enforce_scope_barrier, Fail, Suspend
<1>4. CASE llxprt("implement", "scope_measure")
  BY <1>0, <1>4 DEF llxprt, Goto
<1>5. CASE llxprt("remediate", "push_remediation_changes")
  BY <1>0, <1>5 DEF llxprt, Goto
<1>6. CASE recover_partial_timeout
  BY <1>0, <1>6 DEF recover_partial_timeout, Suspend
<1>7. CASE scope_measure("scope_measure", "commit")
  <2>1. status' \in StatusFile
    <3>1. over_scope(patch, head, load_charter) \in BOOLEAN
      BY DEF over_scope
    <3>2. update_status_measurement(status, digest_now, over_scope(patch, head, load_charter))
            \in StatusFile
      BY <1>0, <3>1, StatusType
    <3>. QED  BY <1>7, <3>2 DEF scope_measure
  <2>2. requests' \in Seq(RequestFile)
    BY <1>7, RequestType DEF scope_measure
  <2>. QED  BY <1>7, <2>1, <2>2 DEF scope_measure, Goto, Fail, Suspend
<1>8. CASE scope_measure("scope_measure_pre_push", "push_changes")
  <2>1. status' \in StatusFile
    <3>1. over_scope(patch, head, load_charter) \in BOOLEAN
      BY DEF over_scope
    <3>2. update_status_measurement(status, digest_now, over_scope(patch, head, load_charter))
            \in StatusFile
      BY <1>0, <3>1, StatusType
    <3>. QED  BY <1>8, <3>2 DEF scope_measure
  <2>2. requests' \in Seq(RequestFile)
    BY <1>8, RequestType DEF scope_measure
  <2>. QED  BY <1>8, <2>1, <2>2 DEF scope_measure, Goto, Fail, Suspend
<1>9. CASE commit
  BY <1>0, <1>9 DEF commit, Goto, files
<1>10. CASE push_changes
  BY <1>0, <1>10 DEF push_changes, Goto, files
<1>11. CASE watch_pr_checks
  BY <1>0, <1>11 DEF watch_pr_checks, Goto, Fail, Suspend, files
<1>12. CASE pre_launch_review_gate
  <2>1. \A k \in {"initial", "delta"} :
           Append(history.reviews, [kind |-> k, to |-> head]) \in Seq(Review)
    BY DEF Review
  <2>2. history' \in [reviews : Seq(Review), rounds : Nat]
    <3>1. /\ history.rounds \in Nat /\ history.rounds + 1 \in Nat
      OBVIOUS
    <3>2. CASE history' = history
      BY <3>2
    <3>3. CASE history' # history
      <4>1. PICK k \in {"initial", "delta"}, n \in {history.rounds, history.rounds + 1} :
               history' = [reviews |-> Append(history.reviews, [kind |-> k, to |-> head]),
                           rounds |-> n]
        BY <1>12, <3>3 DEF pre_launch_review_gate
      <4>. QED  BY <3>1, <4>1, <2>1
    <3>. QED  BY <3>2, <3>3
  <2>3. mode' \in {"running", "waiting", "ended"}
    BY <1>12 DEF pre_launch_review_gate, Goto, Fail
  <2>. QED  BY <1>12, <2>2, <2>3 DEF pre_launch_review_gate
<1>13. CASE push_remediation_changes
  BY <1>0, <1>13 DEF push_remediation_changes, Goto, files
<1>14. CASE write_expansion_resolution
  <2>1. \A i \in DOMAIN requests : requests[i].measurement \in Measured
    <3>. SUFFICES ASSUME NEW i \in DOMAIN requests PROVE requests[i].measurement \in Measured
      OBVIOUS
    <3>1. requests[i] \in RequestFile
      OBVIOUS
    <3>. QED  BY <3>1 DEF RequestFile
  <2>2. resolution' \in Resolution
    BY <1>0, <1>14, <2>1 DEF write_expansion_resolution, Resolution
  <2>. QED  BY <1>14, <2>2 DEF write_expansion_resolution, run
<1>15. CASE poll_wait
  BY <1>0, <1>15 DEF poll_wait, Goto, files
<1>16. CASE operator_edits
  BY <1>0, <1>16 DEF operator_edits, files, run
<1>17. CASE policy_changes
  BY <1>0, <1>17 DEF policy_changes, files, run
<1>18. CASE crash
  BY <1>0, <1>18 DEF crash, files
<1>19. CASE UNCHANGED vars
  BY <1>19 DEF vars
<1>. QED  BY <1>1, <1>2, <1>3, <1>4, <1>5, <1>6, <1>7, <1>8, <1>9, <1>10, <1>11, <1>12, <1>13, <1>14, <1>15, <1>16, <1>17, <1>18, <1>19 DEF Next

----------------------------------------------------------------------------
(* The inductive invariants.                                                *)

\* Nothing happens before the charter: the run leaves its first step only with
\* one on disk, and the status file is never about another charter.
CharterInv ==
    /\ status.digest \in {NoCharter, charter}
    /\ step # "task_charter" => charter # NoCharter
    /\ charter = NoCharter => acted = NoMeasurement /\ history = EmptyHistory

\* The resolution on disk approves only what is in the record of approvals,
\* and the ungated push stands on the measurement just before it.
ApprovalInv ==
    /\ authorizes_expansion(resolution.decision) => resolution.measurement \in approved
    /\ step = "push_changes" =>
         /\ mode = "running"
         /\ over_scope(patch, head, load_charter) => digest_now \in approved
    /\ ApprovedSnapshotOnly

\* A run parked at a measurement has recorded it as over the budget, and an
\* earlier measurement is kept only when it is another one.
ShownInv ==
    /\ mode = "waiting" /\ step \in {"scope_measure", "scope_measure_pre_push"} =>
         status.over /\ status.measurement # NoMeasurement
    /\ status.measurement = NoMeasurement => status.prior = NoMeasurement
    /\ status.prior # NoMeasurement => status.prior # status.measurement

\* What a measuring step writes; it parks the run only over the budget.
LEMMA MeasureWrites ==
    ASSUME TypeInv, NEW s, NEW next, scope_measure(s, next)
    PROVE  \/ mode' = "ended" /\ UNCHANGED status
           \/ /\ status'.digest = status.digest
              /\ status'.measurement = digest_now
              /\ status'.over = over_scope(patch, head, load_charter)
              /\ status'.prior = IF status.measurement \in {NoMeasurement, digest_now}
                                 THEN status.prior ELSE status.measurement
              /\ mode' = "waiting" => over_scope(patch, head, load_charter)
<1>1. CASE ~measurable \/ status = NoStatus
  BY <1>1 DEF scope_measure, Fail
<1>2. CASE ~(~measurable \/ status = NoStatus)
  <2>1. status' = update_status_measurement(status, digest_now, over_scope(patch, head, load_charter))
    BY <1>2 DEF scope_measure
  <2>2. over_scope(patch, head, load_charter) \in BOOLEAN
    BY DEF over_scope
  <2>3. mode' = "waiting" => check_scope_gate # "allow"
    BY <1>2 DEF scope_measure, Goto
  <2>4. check_scope_gate # "allow" => over_scope(patch, head, load_charter)
    BY DEF check_scope_gate
  <2>. QED  BY <2>1, <2>2, <2>3, <2>4, StatusType, DigestType DEF TypeInv
<1>. QED  BY <1>1, <1>2

LEMMA CharterInit == Init => CharterInv
  BY DEF Init, CharterInv, NoStatus

LEMMA CharterStep ==
    ASSUME TypeInv, CharterInv, [Next]_vars
    PROVE  /\ CharterInv'
           /\ charter # NoCharter => charter' = charter
<1>. DEFINE Goal == CharterInv' /\ (charter # NoCharter => charter' = charter)
<1>. SUFFICES Goal
  OBVIOUS
<1>. USE DEF CharterInv, TypeInv, At
<1>1. CASE task_charter
  BY <1>1 DEF task_charter, Goto, Fail, persist_charter, compute_digest, NoCharter
<1>2. CASE persist_charter_and_status
  BY <1>2 DEF persist_charter_and_status, Goto, Fail, status_for, NoStatus
<1>3. ASSUME NEW s \in {"implement", "remediate", "push_remediation_changes"},
             enforce_scope_barrier(s)
      PROVE  Goal
  BY <1>3 DEF enforce_scope_barrier, Fail, Suspend
<1>4. CASE llxprt("implement", "scope_measure")
  BY <1>4 DEF llxprt, Goto
<1>5. CASE llxprt("remediate", "push_remediation_changes")
  BY <1>5 DEF llxprt, Goto
<1>6. CASE recover_partial_timeout
  BY <1>6 DEF recover_partial_timeout, Suspend
<1>7. CASE scope_measure("scope_measure", "commit")
  BY <1>7, MeasureWrites DEF scope_measure, Goto, Fail, Suspend
<1>8. CASE scope_measure("scope_measure_pre_push", "push_changes")
  BY <1>8, MeasureWrites DEF scope_measure, Goto, Fail, Suspend
<1>9. CASE commit
  BY <1>9 DEF commit, Goto, files
<1>10. CASE push_changes
  BY <1>10 DEF push_changes, Goto, files
<1>11. CASE watch_pr_checks
  BY <1>11 DEF watch_pr_checks, Goto, Fail, Suspend, files
<1>12. CASE pre_launch_review_gate
  BY <1>12 DEF pre_launch_review_gate, Goto, Fail
<1>13. CASE push_remediation_changes
  BY <1>13 DEF push_remediation_changes, Goto, files
<1>14. CASE write_expansion_resolution
  BY <1>14 DEF write_expansion_resolution, run
<1>15. CASE poll_wait
  BY <1>15 DEF poll_wait, Goto, files
<1>16. CASE operator_edits
  BY <1>16 DEF operator_edits, files, run
<1>17. CASE policy_changes
  BY <1>17 DEF policy_changes, files, run
<1>18. CASE crash
  BY <1>18 DEF crash, files
<1>19. CASE UNCHANGED vars
  BY <1>19 DEF vars
<1>. QED  BY <1>1, <1>2, <1>3, <1>4, <1>5, <1>6, <1>7, <1>8, <1>9, <1>10, <1>11, <1>12, <1>13, <1>14, <1>15, <1>16, <1>17, <1>18, <1>19 DEF Next

LEMMA ApprovalInit == Init => ApprovalInv
  BY DEF Init, ApprovalInv, ApprovedSnapshotOnly, NoResolution, authorizes_expansion, None

\* The gate lets an over-scope patch pass only with an approval of that patch.
LEMMA AllowedIsApproved ==
    ASSUME ApprovalInv, check_scope_gate = "allow", over_scope(patch, head, load_charter)
    PROVE  digest_now \in approved
<1>1. resolution_outcome(digest_now) = "allow"
  BY DEF check_scope_gate
<1>2. resolution.measurement = digest_now /\ authorizes_expansion(resolution.decision)
  BY <1>1 DEF resolution_outcome
<1>. QED  BY <1>2 DEF ApprovalInv

\* A gated mutation or push keeps the invariant, when it does not lead to the
\* ungated push.
LEMMA GatedAct ==
    ASSUME TypeInv, CharterInv, ApprovalInv, Allowed, acted' = digest_now,
           UNCHANGED <<charter, resolution, approved>>, step' # "push_changes"
    PROVE  ApprovalInv'
<1>1. load_charter' = load_charter
  BY DEF load_charter
<1>2. over_scope(patch, head, load_charter) => digest_now \in approved
  BY AllowedIsApproved DEF Allowed
<1>3. acted'[1] = patch /\ acted'[2] = head
  BY DEF digest_now, measurement_digest
<1>4. ApprovedSnapshotOnly'
  BY <1>1, <1>2, <1>3 DEF ApprovedSnapshotOnly
<1>. QED  BY <1>4 DEF ApprovalInv

LEMMA ApprovalStep ==
    ASSUME TypeInv, CharterInv, ApprovalInv, [Next]_vars
    PROVE  ApprovalInv'
<1>. DEFINE Quiet == /\ UNCHANGED <<acted, resolution, approved>>
                     /\ step' # "push_changes" \/ UNCHANGED <<patch, head, step, mode>>
<1>a. charter # NoCharter => charter' = charter /\ load_charter' = load_charter
  BY CharterStep DEF load_charter
<1>0. ASSUME Quiet PROVE ApprovalInv'
  <2>1. ApprovedSnapshotOnly'
    <3>1. CASE charter = NoCharter
      BY <1>0, <3>1 DEF CharterInv, ApprovedSnapshotOnly
    <3>2. CASE charter # NoCharter
      BY <1>0, <1>a, <3>2 DEF ApprovalInv, ApprovedSnapshotOnly
    <3>. QED  BY <3>1, <3>2
  <2>2. ASSUME step' = "push_changes"
        PROVE  /\ mode' = "running"
               /\ over_scope(patch', head', load_charter') => digest_now' \in approved'
    <3>1. UNCHANGED <<patch, head, step, mode>> /\ step = "push_changes"
      BY <1>0, <2>2
    <3>2. load_charter' = load_charter
      BY <1>a, <3>1 DEF CharterInv
    <3>. QED  BY <1>0, <3>1, <3>2 DEF ApprovalInv, digest_now
  <2>. QED  BY <1>0, <2>1, <2>2 DEF ApprovalInv
<1>1. CASE task_charter
  <2>1. Quiet
    BY <1>1 DEF task_charter, Goto, Fail, At
  <2>. QED  BY <2>1, <1>0
<1>2. CASE persist_charter_and_status
  <2>1. Quiet
    BY <1>2 DEF persist_charter_and_status, Goto, Fail, At
  <2>. QED  BY <2>1, <1>0
<1>3. ASSUME NEW s \in {"implement", "remediate", "push_remediation_changes"},
             enforce_scope_barrier(s)
      PROVE  ApprovalInv'
  <2>1. Quiet
    BY <1>3 DEF enforce_scope_barrier, Fail, Suspend, At
  <2>. QED  BY <2>1, <1>0
<1>4. CASE llxprt("implement", "scope_measure")
  BY <1>4, GatedAct DEF llxprt, Goto
<1>5. CASE llxprt("remediate", "push_remediation_changes")
  BY <1>5, GatedAct DEF llxprt, Goto
<1>6. CASE recover_partial_timeout
  BY <1>6, GatedAct DEF recover_partial_timeout, Suspend, At
<1>7. CASE scope_measure("scope_measure", "commit")
  <2>1. Quiet
    BY <1>7 DEF scope_measure, Goto, Fail, Suspend, At
  <2>. QED  BY <2>1, <1>0
<1>8. CASE scope_measure("scope_measure_pre_push", "push_changes")
  <2>1. CASE step' # "push_changes"
    <3>1. Quiet
      BY <1>8, <2>1 DEF scope_measure
    <3>. QED  BY <3>1, <1>0
  <2>2. CASE step' = "push_changes"
    <3>1. check_scope_gate = "allow" /\ mode' = "running"
      BY <1>8, <2>2 DEF scope_measure, Goto, Fail, Suspend, At
    <3>2. UNCHANGED <<patch, head, charter, resolution, approved, acted>>
      BY <1>8 DEF scope_measure
    <3>3. load_charter' = load_charter /\ digest_now' = digest_now
      BY <3>2 DEF load_charter, digest_now
    <3>4. ApprovedSnapshotOnly'
      BY <3>2, <3>3 DEF ApprovalInv, ApprovedSnapshotOnly
    <3>. QED  BY <3>1, <3>2, <3>3, <3>4, AllowedIsApproved DEF ApprovalInv
  <2>. QED  BY <2>1, <2>2
<1>9. CASE commit
  <2>1. Quiet
    BY <1>9 DEF commit, Goto, files
  <2>. QED  BY <2>1, <1>0
<1>10. CASE push_changes
  <2>1. /\ acted' = digest_now /\ step = "push_changes" /\ step' = "watch_pr_checks"
        /\ UNCHANGED <<charter, resolution, approved>>
    BY <1>10 DEF push_changes, Goto, At, files
  <2>2. load_charter' = load_charter
    BY <2>1 DEF load_charter
  <2>3. acted'[1] = patch /\ acted'[2] = head
    BY <2>1 DEF digest_now, measurement_digest
  <2>4. ApprovedSnapshotOnly'
    BY <2>1, <2>2, <2>3 DEF ApprovalInv, ApprovedSnapshotOnly
  <2>. QED  BY <2>1, <2>4 DEF ApprovalInv
<1>11. CASE watch_pr_checks
  <2>1. Quiet
    BY <1>11 DEF watch_pr_checks, Goto, Fail, Suspend, files, At
  <2>. QED  BY <2>1, <1>0
<1>12. CASE pre_launch_review_gate
  <2>1. Quiet
    BY <1>12 DEF pre_launch_review_gate, Goto, Fail, At
  <2>. QED  BY <2>1, <1>0
<1>13. CASE push_remediation_changes
  BY <1>13, GatedAct DEF push_remediation_changes, Goto, files
<1>14. CASE write_expansion_resolution
  <2>1. UNCHANGED <<patch, head, charter, acted, step, mode>> /\ approved \subseteq approved'
    BY <1>14 DEF write_expansion_resolution, run
  <2>2. authorizes_expansion(resolution'.decision) => resolution'.measurement \in approved'
    BY <1>14 DEF write_expansion_resolution, authorizes_expansion
  <2>3. load_charter' = load_charter /\ digest_now' = digest_now
    BY <2>1 DEF load_charter, digest_now
  <2>4. ApprovedSnapshotOnly'
    BY <2>1, <2>3 DEF ApprovalInv, ApprovedSnapshotOnly
  <2>. QED  BY <2>1, <2>2, <2>3, <2>4 DEF ApprovalInv
<1>15. CASE poll_wait
  <2>1. Quiet
    BY <1>15 DEF poll_wait, Goto, files, ApprovalInv
  <2>. QED  BY <2>1, <1>0
<1>16. CASE operator_edits
  <2>1. Quiet
    BY <1>16 DEF operator_edits, files, run, ApprovalInv
  <2>. QED  BY <2>1, <1>0
<1>17. CASE policy_changes
  <2>1. Quiet
    BY <1>17 DEF policy_changes, files, run
  <2>. QED  BY <2>1, <1>0
<1>18. CASE crash
  <2>1. Quiet
    BY <1>18 DEF crash, files
  <2>. QED  BY <2>1, <1>0
<1>19. CASE UNCHANGED vars
  <2>1. Quiet
    BY <1>19 DEF vars
  <2>. QED  BY <2>1, <1>0
<1>. QED  BY <1>1, <1>2, <1>3, <1>4, <1>5, <1>6, <1>7, <1>8, <1>9, <1>10, <1>11, <1>12, <1>13, <1>14, <1>15, <1>16, <1>17, <1>18, <1>19 DEF Next

LEMMA ShownInit == Init => ShownInv
  BY DEF Init, ShownInv, NoStatus

LEMMA ShownStep ==
    ASSUME TypeInv, CharterInv, ShownInv, [Next]_vars
    PROVE  ShownInv'
<1>. USE DEF ShownInv, TypeInv, At
<1>1. CASE task_charter
  BY <1>1 DEF task_charter, Goto, Fail
<1>2. CASE persist_charter_and_status
  BY <1>2 DEF persist_charter_and_status, Goto, Fail, status_for, NoStatus
<1>3. ASSUME NEW s \in {"implement", "remediate", "push_remediation_changes"},
             enforce_scope_barrier(s)
      PROVE  ShownInv'
  BY <1>3 DEF enforce_scope_barrier, Fail, Suspend
<1>4. CASE llxprt("implement", "scope_measure")
  BY <1>4 DEF llxprt, Goto
<1>5. CASE llxprt("remediate", "push_remediation_changes")
  BY <1>5 DEF llxprt, Goto
<1>6. CASE recover_partial_timeout
  BY <1>6 DEF recover_partial_timeout, Suspend
<1>7. CASE scope_measure("scope_measure", "commit")
  BY <1>7, MeasureWrites, MeasuredIsSome, DigestType DEF scope_measure, Goto, Fail
<1>8. CASE scope_measure("scope_measure_pre_push", "push_changes")
  BY <1>8, MeasureWrites, MeasuredIsSome, DigestType DEF scope_measure, Goto, Fail
<1>9. CASE commit
  BY <1>9 DEF commit, Goto, files
<1>10. CASE push_changes
  BY <1>10 DEF push_changes, Goto, files
<1>11. CASE watch_pr_checks
  BY <1>11 DEF watch_pr_checks, Goto, Fail, Suspend, files
<1>12. CASE pre_launch_review_gate
  BY <1>12 DEF pre_launch_review_gate, Goto, Fail
<1>13. CASE push_remediation_changes
  BY <1>13 DEF push_remediation_changes, Goto, files
<1>14. CASE write_expansion_resolution
  BY <1>14 DEF write_expansion_resolution, run
<1>15. CASE poll_wait
  BY <1>15 DEF poll_wait, Goto, files
<1>16. CASE operator_edits
  BY <1>16 DEF operator_edits, files, run
<1>17. CASE policy_changes
  BY <1>17 DEF policy_changes, files, run
<1>18. CASE crash
  BY <1>18 DEF crash, files
<1>19. CASE UNCHANGED vars
  BY <1>19 DEF vars
<1>. QED  BY <1>1, <1>2, <1>3, <1>4, <1>5, <1>6, <1>7, <1>8, <1>9, <1>10, <1>11, <1>12, <1>13, <1>14, <1>15, <1>16, <1>17, <1>18, <1>19 DEF Next

\* A recorded measurement was evaluated under the charter, and every request is
\* about that charter.
MeasuredInv ==
    /\ status.measurement # NoMeasurement =>
         /\ charter # NoCharter
         /\ status.over = over_scope(status.measurement[1], status.measurement[2], load_charter)
    /\ \A i \in DOMAIN requests : charter # NoCharter /\ requests[i].charter = charter

\* What a step may do to the status and the requests.
MeasuresNothing ==
    UNCHANGED requests /\ status'.measurement = status.measurement /\ status'.over = status.over

RequestsOnly ==
    /\ charter # NoCharter /\ write_expansion_request(digest_now)
    /\ status' = status

MeasuresNow ==
    /\ charter # NoCharter
    /\ status'.measurement = digest_now
    /\ status'.over = over_scope(patch, head, load_charter)
    /\ UNCHANGED requests \/ write_expansion_request(digest_now)

LEMMA Requested ==
    ASSUME TypeInv, MeasuredInv, charter # NoCharter, charter' = charter,
           UNCHANGED requests \/ write_expansion_request(digest_now)
    PROVE  \A i \in DOMAIN requests' : requests'[i].charter = charter'
<1>1. CASE UNCHANGED requests
  BY <1>1 DEF MeasuredInv
<1>2. CASE requests' = Append(requests, request_for(digest_now))
  <2>1. request_for(digest_now).charter = charter /\ request_for(digest_now) \in RequestFile
    BY DigestType DEF TypeInv, request_for, RequestFile
  <2>2. requests \in Seq(RequestFile)
    BY DEF TypeInv
  <2>3. ASSUME NEW i \in DOMAIN requests' PROVE requests'[i].charter = charter
    <3>1. CASE i \in DOMAIN requests
      BY <1>2, <2>1, <2>2, <3>1 DEF MeasuredInv
    <3>2. CASE i = Len(requests) + 1
      BY <1>2, <2>1, <2>2, <3>2
    <3>. QED  BY <1>2, <2>1, <2>2, <3>1, <3>2
  <2>. QED  BY <2>3
<1>. QED  BY <1>1, <1>2 DEF write_expansion_request

LEMMA MeasuredWrites ==
    ASSUME TypeInv, CharterInv, MeasuredInv, [Next]_vars,
           MeasuresNothing \/ RequestsOnly \/ MeasuresNow
    PROVE  MeasuredInv'
<1>1. charter # NoCharter => charter' = charter /\ load_charter' = load_charter
  BY CharterStep DEF load_charter
<1>2. CASE MeasuresNothing
  <2>1. ASSUME status'.measurement # NoMeasurement
        PROVE  /\ charter' # NoCharter
               /\ status'.over = over_scope(status'.measurement[1], status'.measurement[2], load_charter')
    BY <1>1, <1>2, <2>1 DEF MeasuresNothing, MeasuredInv
  <2>2. ASSUME NEW i \in DOMAIN requests' PROVE charter' # NoCharter /\ requests'[i].charter = charter'
    BY <1>1, <1>2, <2>2 DEF MeasuresNothing, MeasuredInv
  <2>. QED  BY <2>1, <2>2 DEF MeasuredInv
<1>3. CASE RequestsOnly
  <2>1. \A i \in DOMAIN requests' : requests'[i].charter = charter'
    BY <1>1, <1>3, Requested DEF RequestsOnly
  <2>. QED  BY <1>1, <1>3, <2>1 DEF RequestsOnly, MeasuredInv
<1>4. CASE MeasuresNow
  <2>1. \A i \in DOMAIN requests' : requests'[i].charter = charter'
    BY <1>1, <1>4, Requested DEF MeasuresNow
  <2>2. status'.measurement[1] = patch /\ status'.measurement[2] = head
    BY <1>4 DEF MeasuresNow, digest_now, measurement_digest
  <2>. QED  BY <1>1, <1>4, <2>1, <2>2 DEF MeasuresNow, MeasuredInv
<1>. QED  BY <1>2, <1>3, <1>4

LEMMA MeasuredInit == Init => MeasuredInv
  BY DEF Init, MeasuredInv, NoStatus

LEMMA MeasuredStep ==
    ASSUME TypeInv, CharterInv, MeasuredInv, [Next]_vars
    PROVE  MeasuredInv'
<1>. SUFFICES MeasuresNothing \/ RequestsOnly \/ MeasuresNow
  BY MeasuredWrites
<1>. USE DEF MeasuresNothing
<1>1. CASE task_charter
  BY <1>1 DEF task_charter
<1>2. CASE persist_charter_and_status
  BY <1>2 DEF persist_charter_and_status, status_for, NoStatus
<1>3. ASSUME NEW s \in {"implement", "remediate", "push_remediation_changes"},
             enforce_scope_barrier(s)
      PROVE  MeasuresNothing \/ RequestsOnly
  BY <1>3 DEF enforce_scope_barrier, Blocked, measurable, RequestsOnly
<1>4. CASE llxprt("implement", "scope_measure")
  BY <1>4 DEF llxprt
<1>5. CASE llxprt("remediate", "push_remediation_changes")
  BY <1>5 DEF llxprt
<1>6. CASE recover_partial_timeout
  BY <1>6 DEF recover_partial_timeout
<1>7. ASSUME NEW s, NEW next, scope_measure(s, next) PROVE MeasuresNothing \/ MeasuresNow
  <2>1. CASE ~measurable \/ status = NoStatus
    BY <1>7, <2>1 DEF scope_measure
  <2>2. CASE ~(~measurable \/ status = NoStatus)
    <3>1. status' = update_status_measurement(status, digest_now, over_scope(patch, head, load_charter))
      BY <1>7, <2>2 DEF scope_measure
    <3>2. over_scope(patch, head, load_charter) \in BOOLEAN
      BY DEF over_scope
    <3>3. /\ status'.measurement = digest_now
          /\ status'.over = over_scope(patch, head, load_charter)
      BY <3>1, <3>2, StatusType, DigestType DEF TypeInv
    <3>4. UNCHANGED requests \/ write_expansion_request(digest_now)
      BY <1>7, <2>2 DEF scope_measure
    <3>. QED  BY <2>2, <3>3, <3>4 DEF MeasuresNow, measurable
  <2>. QED  BY <2>1, <2>2
<1>9. CASE commit
  BY <1>9 DEF commit, files
<1>10. CASE push_changes
  BY <1>10 DEF push_changes, files
<1>11. CASE watch_pr_checks
  BY <1>11 DEF watch_pr_checks, files
<1>12. CASE pre_launch_review_gate
  BY <1>12 DEF pre_launch_review_gate
<1>13. CASE push_remediation_changes
  BY <1>13 DEF push_remediation_changes, files
<1>14. CASE write_expansion_resolution
  BY <1>14 DEF write_expansion_resolution
<1>15. CASE poll_wait
  BY <1>15 DEF poll_wait, files
<1>16. CASE operator_edits
  BY <1>16 DEF operator_edits, files
<1>17. CASE policy_changes
  BY <1>17 DEF policy_changes, files
<1>18. CASE crash
  BY <1>18 DEF crash, files
<1>19. CASE UNCHANGED vars
  BY <1>19 DEF vars
<1>. QED  BY <1>1, <1>2, <1>3, <1>4, <1>5, <1>6, <1>7, <1>9, <1>10, <1>11, <1>12, <1>13, <1>14, <1>15, <1>16, <1>17, <1>18, <1>19 DEF Next

----------------------------------------------------------------------------
(* Review rounds.                                                           *)

\* A review more is one more of its kind.
LEMMA CountAppend ==
    ASSUME NEW h \in [reviews : Seq(Review), rounds : Nat], NEW r \in Review, NEW n, NEW k
    PROVE  /\ count_by_kind(h, k) \in Nat
           /\ count_by_kind([reviews |-> Append(h.reviews, r), rounds |-> n], k) =
                IF r.kind = k THEN count_by_kind(h, k) + 1 ELSE count_by_kind(h, k)
<1>. DEFINE s == h.reviews
            D == {i \in DOMAIN s : s[i].kind = k}
            E == {i \in DOMAIN Append(s, r) : Append(s, r)[i].kind = k}
<1>1. s \in Seq(Review) /\ Len(s) \in Nat /\ DOMAIN s = 1 .. Len(s)
  OBVIOUS
<1>2. IsFiniteSet(D) /\ Cardinality(D) \in Nat
  <2>1. IsFiniteSet(1 .. Len(s))
    BY <1>1, FS_Interval
  <2>2. D \subseteq 1 .. Len(s)
    BY <1>1
  <2>3. IsFiniteSet(D)
    BY <2>1, <2>2, FS_Subset
  <2>. QED  BY <2>3, FS_CardinalityType
<1>3. /\ DOMAIN Append(s, r) = 1 .. (Len(s) + 1)
      /\ \A i \in 1 .. Len(s) : Append(s, r)[i] = s[i]
      /\ Append(s, r)[Len(s) + 1] = r
  BY <1>1
<1>4. E = IF r.kind = k THEN D \cup {Len(s) + 1} ELSE D
  <2>1. \A i : i \in E <=> i \in D \/ (i = Len(s) + 1 /\ r.kind = k)
    BY <1>1, <1>3
  <2>. QED  BY <2>1
<1>5. Len(s) + 1 \notin D
  BY <1>1
<1>6. Cardinality(D \cup {Len(s) + 1}) = Cardinality(D) + 1
  BY <1>2, <1>5, FS_AddElement
<1>. QED  BY <1>2, <1>4, <1>6 DEF count_by_kind

LEMMA EmptyCount ==
    ASSUME NEW h, h.reviews = <<>>, NEW k PROVE count_by_kind(h, k) = 0
<1>1. {i \in DOMAIN h.reviews : h.reviews[i].kind = k} = {}
  OBVIOUS
<1>. QED  BY <1>1, FS_EmptySet DEF count_by_kind

\* The caps of a charter on disk are numbers.
LEMMA CapsType ==
    ASSUME TypeInv, charter # NoCharter
    PROVE  load_charter.caps.deltas \in Nat /\ load_charter.caps.rounds \in Nat
<1>1. policies[charter] \in Policy
  BY ScopeAssumption DEF TypeInv, NoCharter
<1>. QED  BY <1>1 DEF load_charter, build_draft, Policy

LEMMA ReviewInit == Init => ReviewBudget
<1>. SUFFICES ASSUME Init PROVE ReviewBudget
  OBVIOUS
<1>1. history.reviews = <<>> /\ history.rounds = 0 /\ charter = NoCharter /\ step = "task_charter"
  BY DEF Init, EmptyHistory
<1>2. count_by_kind(history, "initial") = 0 /\ count_by_kind(history, "delta") = 0
  BY <1>1, EmptyCount
<1>. QED  BY <1>1, <1>2 DEF ReviewBudget

\* The gate before a round grants a review the caps leave room for, at a commit
\* that has none of that kind, or replays one of this commit.
LEMMA ReviewGate ==
    ASSUME TypeInv, CharterInv, ReviewBudget, pre_launch_review_gate
    PROVE  ReviewBudget'
<1>1. charter # NoCharter /\ UNCHANGED <<charter, head>>
  BY DEF pre_launch_review_gate, At, CharterInv
<1>2. load_charter' = load_charter
  BY <1>1 DEF load_charter
<1>3. load_charter.caps.deltas \in Nat /\ load_charter.caps.rounds \in Nat
  BY <1>1, CapsType
<1>. DEFINE s == history.reviews
            r(k) == [kind |-> k, to |-> head]
            grown(k, n) == [reviews |-> Append(s, r(k)), rounds |-> n]
<1>4. /\ s \in Seq(Review) /\ history \in [reviews : Seq(Review), rounds : Nat]
      /\ head \in Nat /\ Len(s) \in Nat
      /\ r("initial") \in Review /\ r("delta") \in Review
  BY DEF TypeInv, Review
<1>5. \A k \in {"initial", "delta"} :
         /\ DOMAIN Append(s, r(k)) = 1 .. (Len(s) + 1)
         /\ \A i \in 1 .. Len(s) : Append(s, r(k))[i] = s[i]
         /\ Append(s, r(k))[Len(s) + 1] = r(k)
         /\ DOMAIN s = 1 .. Len(s)
  BY <1>4
<1>6. count_by_kind(history, "initial") \in Nat /\ count_by_kind(history, "delta") \in Nat
  BY <1>4, CountAppend
<1>7. CASE s = <<>>
  <2>1. history' = grown("initial", history.rounds)
    BY <1>7 DEF pre_launch_review_gate
  <2>2. count_by_kind(history, "initial") = 0 /\ count_by_kind(history, "delta") = 0
    BY <1>7, EmptyCount
  <2>3. count_by_kind(history', "initial") = 1 /\ count_by_kind(history', "delta") = 0
    BY <1>4, <2>1, <2>2, CountAppend
  <2>4. Len(s) = 0
    BY <1>7
  <2>5. history'.rounds = history.rounds /\ history.rounds = 0
    BY <2>1, <2>2 DEF ReviewBudget
  <2>6. DOMAIN history'.reviews = 1 .. 1 /\ history'.reviews[1].to = head'
    BY <1>1, <1>5, <2>1, <2>4
  <2>. QED  BY <1>1, <1>2, <1>3, <2>3, <2>5, <2>6 DEF ReviewBudget
<1>8. CASE s # <<>> /\ evaluate_delta(history, head, load_charter.caps) = "allowed"
  <2>1. history' = grown("delta", history.rounds + 1)
    BY <1>8 DEF pre_launch_review_gate
  <2>2. /\ history.rounds < load_charter.caps.rounds
        /\ check_delta(history, head, load_charter.caps) = "allowed"
    BY <1>3, <1>4, <1>8 DEF evaluate_delta
  <2>3. /\ ~ \E i \in DOMAIN s : s[i] = r("delta")
        /\ count_by_kind(history, "delta") < load_charter.caps.deltas
    BY <1>3, <1>6, <2>2 DEF check_delta
  <2>4. /\ count_by_kind(history', "delta") = count_by_kind(history, "delta") + 1
        /\ count_by_kind(history', "initial") = count_by_kind(history, "initial")
    <3>1. r("delta").kind = "delta" /\ r("delta").kind # "initial"
      OBVIOUS
    <3>2. \A k : count_by_kind(grown("delta", history.rounds + 1), k) =
                   IF r("delta").kind = k THEN count_by_kind(history, k) + 1
                   ELSE count_by_kind(history, k)
      BY <1>4, CountAppend
    <3>. QED  BY <2>1, <3>1, <3>2
  <2>5. history'.rounds = history.rounds + 1 /\ history'.reviews = Append(s, r("delta"))
    BY <2>1
  <2>6. \A i, j \in DOMAIN history'.reviews :
           history'.reviews[i] = history'.reviews[j] => i = j
    BY <1>5, <2>3, <2>5 DEF ReviewBudget
  <2>7. \E i \in DOMAIN history'.reviews : history'.reviews[i].to = head'
    <3>1. Len(s) + 1 \in DOMAIN history'.reviews /\ history'.reviews[Len(s) + 1].to = head'
      BY <1>1, <1>4, <1>5, <2>5
    <3>. QED  BY <3>1
  <2>. QED  BY <1>1, <1>2, <1>3, <1>4, <1>6, <2>2, <2>3, <2>4, <2>5, <2>6, <2>7 DEF ReviewBudget
<1>9. CASE s # <<>> /\ evaluate_delta(history, head, load_charter.caps) = "replay"
  <2>1. history' = history
    BY <1>9 DEF pre_launch_review_gate
  <2>2. \E i \in DOMAIN s : s[i].to = head
    <3>1. CASE last_reviewed_head(history) = head
      <4>1. Len(s) \in DOMAIN s
        BY <1>4, <1>9
      <4>. QED  BY <3>1, <4>1 DEF last_reviewed_head
    <3>2. CASE last_reviewed_head(history) # head
      <4>1. check_delta(history, head, load_charter.caps) = "replay"
        BY <1>9, <3>2 DEF evaluate_delta
      <4>. QED  BY <4>1 DEF check_delta
    <3>. QED  BY <3>1, <3>2
  <2>. QED  BY <1>1, <1>2, <2>1, <2>2 DEF ReviewBudget
<1>10. CASE s # <<>> /\ evaluate_delta(history, head, load_charter.caps) \notin {"allowed", "replay"}
  <2>1. history' = history /\ UNCHANGED step /\ step = "iteration_guard"
    BY <1>10 DEF pre_launch_review_gate, Fail, At
  <2>. QED  BY <1>1, <1>2, <2>1 DEF ReviewBudget
<1>. QED  BY <1>7, <1>8, <1>9, <1>10

LEMMA ReviewStep ==
    ASSUME TypeInv, CharterInv, ReviewBudget, [Next]_vars
    PROVE  ReviewBudget'
<1>. DEFINE Quiet == /\ UNCHANGED history
                     /\ step' # "remediate" \/ UNCHANGED <<head, step>>
<1>0. ASSUME Quiet PROVE ReviewBudget'
  <2>1. CASE charter # NoCharter
    <3>1. load_charter' = load_charter
      BY <2>1, CharterStep DEF load_charter
    <3>. QED  BY <1>0, <2>1, <3>1 DEF ReviewBudget
  <2>2. CASE charter = NoCharter
    <3>1. history = EmptyHistory
      BY <2>2 DEF CharterInv
    <3>2. count_by_kind(history, "delta") = 0 /\ history.rounds = 0
      BY <3>1, EmptyCount DEF EmptyHistory
    <3>3. charter' # NoCharter => load_charter'.caps.deltas \in Nat /\ load_charter'.caps.rounds \in Nat
      <4>1. TypeInv'
        BY TypeStep
      <4>2. charter' # NoCharter => policies[charter'] \in Policy
        BY <4>1, ScopeAssumption DEF TypeInv, NoCharter
      <4>. QED  BY <4>2 DEF load_charter, build_draft, Policy
    <3>. QED  BY <1>0, <3>2, <3>3 DEF ReviewBudget
  <2>. QED  BY <2>1, <2>2
<1>1. CASE task_charter
  <2>1. Quiet
    BY <1>1 DEF task_charter, Goto, Fail, At
  <2>. QED  BY <2>1, <1>0
<1>2. CASE persist_charter_and_status
  <2>1. Quiet
    BY <1>2 DEF persist_charter_and_status, Goto, Fail, At
  <2>. QED  BY <2>1, <1>0
<1>3. ASSUME NEW s \in {"implement", "remediate", "push_remediation_changes"},
             enforce_scope_barrier(s)
      PROVE  ReviewBudget'
  <2>1. Quiet
    BY <1>3 DEF enforce_scope_barrier, Fail, Suspend, At
  <2>. QED  BY <2>1, <1>0
<1>4. CASE llxprt("implement", "scope_measure")
  <2>1. Quiet
    BY <1>4 DEF llxprt, Goto
  <2>. QED  BY <2>1, <1>0
<1>5. CASE llxprt("remediate", "push_remediation_changes")
  <2>1. Quiet
    BY <1>5 DEF llxprt, Goto
  <2>. QED  BY <2>1, <1>0
<1>6. CASE recover_partial_timeout
  <2>1. Quiet
    BY <1>6 DEF recover_partial_timeout, Suspend, At
  <2>. QED  BY <2>1, <1>0
<1>7. CASE scope_measure("scope_measure", "commit")
  <2>1. Quiet
    BY <1>7 DEF scope_measure, Goto, Fail, Suspend, At
  <2>. QED  BY <2>1, <1>0
<1>8. CASE scope_measure("scope_measure_pre_push", "push_changes")
  <2>1. Quiet
    BY <1>8 DEF scope_measure, Goto, Fail, Suspend, At
  <2>. QED  BY <2>1, <1>0
<1>9. CASE commit
  <2>1. Quiet
    BY <1>9 DEF commit, Goto, files
  <2>. QED  BY <2>1, <1>0
<1>10. CASE push_changes
  <2>1. Quiet
    BY <1>10 DEF push_changes, Goto, files
  <2>. QED  BY <2>1, <1>0
<1>11. CASE watch_pr_checks
  <2>1. Quiet
    BY <1>11 DEF watch_pr_checks, Goto, Fail, Suspend, files, At
  <2>. QED  BY <2>1, <1>0
<1>12. CASE pre_launch_review_gate
  BY <1>12, ReviewGate
<1>13. CASE push_remediation_changes
  <2>1. Quiet
    BY <1>13 DEF push_remediation_changes, Goto, files
  <2>. QED  BY <2>1, <1>0
<1>14. CASE write_expansion_resolution
  <2>1. Quiet
    BY <1>14 DEF write_expansion_resolution, run
  <2>. QED  BY <2>1, <1>0
<1>15. CASE poll_wait
  <2>1. Quiet
    BY <1>15 DEF poll_wait, Goto, files
  <2>. QED  BY <2>1, <1>0
<1>16. CASE operator_edits
  <2>1. Quiet
    BY <1>16 DEF operator_edits, files, run
  <2>. QED  BY <2>1, <1>0
<1>17. CASE policy_changes
  <2>1. Quiet
    BY <1>17 DEF policy_changes, files, run
  <2>. QED  BY <2>1, <1>0
<1>18. CASE crash
  <2>1. Quiet
    BY <1>18 DEF crash, files
  <2>. QED  BY <2>1, <1>0
<1>19. CASE UNCHANGED vars
  <2>1. Quiet
    BY <1>19 DEF vars
  <2>. QED  BY <2>1, <1>0
<1>. QED  BY <1>1, <1>2, <1>3, <1>4, <1>5, <1>6, <1>7, <1>8, <1>9, <1>10, <1>11, <1>12, <1>13, <1>14, <1>15, <1>16, <1>17, <1>18, <1>19 DEF Next

----------------------------------------------------------------------------
(* The theorems.                                                            *)

ScopeInv == TypeInv /\ CharterInv /\ ApprovalInv /\ ShownInv /\ MeasuredInv /\ ReviewBudget

LEMMA ScopeInvariant == Spec => []ScopeInv
<1>1. Init => ScopeInv
  BY TypeInit, CharterInit, ApprovalInit, ShownInit, MeasuredInit, ReviewInit DEF ScopeInv
<1>2. ScopeInv /\ [Next]_vars => ScopeInv'
  BY TypeStep, CharterStep, ApprovalStep, ShownStep, MeasuredStep, ReviewStep DEF ScopeInv
<1>. QED  BY <1>1, <1>2, PTL DEF Spec

\* Whatever the agent, the operator, the configuration and process deaths do, an
\* over-scope patch is mutated further or pushed only after an approval of
\* exactly that content at exactly that commit (decision.rs, check_scope_gate).
THEOREM ApprovedOnly == Spec => []ApprovedSnapshotOnly
<1>1. ScopeInv => ApprovedSnapshotOnly
  BY DEF ScopeInv, ApprovalInv
<1>. QED  BY <1>1, ScopeInvariant, PTL

\* A charter on disk is never replaced, and the status file is never about
\* another one (persistence.rs, persist_charter_and_status).
THEOREM CharterIsFrozen == Spec => CharterFrozen
<1>1. ScopeInv /\ [Next]_vars =>
        [/\ charter # NoCharter => charter' = charter
         /\ status'.digest \in {NoCharter, charter'}]_<<charter, status>>
  BY CharterStep DEF ScopeInv, CharterInv
<1>. QED  BY <1>1, ScopeInvariant, PTL DEF Spec, CharterFrozen

\* The reviews a run is ever granted stay within the caps of its charter, one
\* per commit and kind, and every round has one (review_state.rs,
\* pre_launch_review_gate).
THEOREM ReviewsWithinCaps == Spec => []ReviewBudget
<1>1. ScopeInv => ReviewBudget
  BY DEF ScopeInv
<1>. QED  BY <1>1, ScopeInvariant, PTL

\* A run parked at a measurement is shown as over its budget, and growth only
\* against another measurement; while the work tree is what was measured, the
\* status shows what the gate decides, except that it also shows an approval of
\* another snapshot (status_projection.rs, decision.rs).
THEOREM StatusAgreesWithGate == Spec => []ShownAgreesWithGate
<1>1. ScopeInv => ShownAgreesWithGate
  <2>. SUFFICES ASSUME ScopeInv PROVE ShownAgreesWithGate
    OBVIOUS
  <2>1. ASSUME mode = "waiting", step \in {"scope_measure", "scope_measure_pre_push"}
        PROVE  project_scope_status \notin {"unavailable", "within_budget"}
    <3>1. status.over /\ status.measurement # NoMeasurement
      BY <2>1 DEF ScopeInv, ShownInv
    <3>2. status # NoStatus
      BY <3>1 DEF NoStatus
    <3>. QED  BY <3>1, <3>2 DEF project_scope_status, build_decision_projection
  <2>2. compute_growth # {} => status.prior # status.measurement
    BY DEF compute_growth, ScopeInv, ShownInv
  <2>3. ASSUME status.measurement = digest_now, measurable
        PROVE  /\ project_scope_status = "within_budget" <=> ~over_scope(patch, head, load_charter)
               /\ check_scope_gate = "allow" =>
                    project_scope_status \in {"within_budget", "approved_expanded_scope"}
               /\ check_scope_gate = "denied" => project_scope_status = "frozen"
               /\ project_scope_status = "approved_expanded_scope" /\ check_scope_gate # "allow" =>
                    ~answered(digest_now)
    <3>1. status.measurement # NoMeasurement
      BY <2>3, MeasuredIsSome, DigestType DEF ScopeInv
    <3>2. status # NoStatus
      BY <3>1 DEF NoStatus
    <3>3. status.over = over_scope(patch, head, load_charter)
      <4>1. status.measurement[1] = patch /\ status.measurement[2] = head
        BY <2>3 DEF digest_now, measurement_digest
      <4>. QED  BY <3>1, <4>1 DEF ScopeInv, MeasuredInv
    <3>4. CASE ~over_scope(patch, head, load_charter)
      BY <3>1, <3>2, <3>3, <3>4 DEF project_scope_status, build_decision_projection, check_scope_gate
    <3>5. CASE over_scope(patch, head, load_charter) /\ (requests = <<>> \/ resolution = NoResolution)
      <4>1. check_scope_gate \in {"needs_request", "pending"}
        BY <3>5 DEF check_scope_gate
      <4>2. project_scope_status = "pending_resolution"
        BY <3>1, <3>2, <3>3, <3>5 DEF project_scope_status, build_decision_projection
      <4>. QED  BY <3>5, <4>1, <4>2
    <3>6. CASE over_scope(patch, head, load_charter) /\ requests # <<>> /\ resolution # NoResolution
      <4>1. check_scope_gate = resolution_outcome(digest_now)
        BY <3>6 DEF check_scope_gate
      <4>2. project_scope_status =
              IF authorizes_expansion(resolution.decision) THEN "approved_expanded_scope" ELSE "frozen"
        BY <3>1, <3>2, <3>3, <3>6 DEF project_scope_status, build_decision_projection
      <4>3. read_latest_generation.charter = charter
        <5>1. requests \in Seq(RequestFile) /\ Len(requests) \in DOMAIN requests
          BY <3>6 DEF ScopeInv, TypeInv
        <5>. QED  BY <5>1 DEF ScopeInv, MeasuredInv, read_latest_generation
      <4>. QED  BY <3>6, <4>1, <4>2, <4>3 DEF resolution_outcome, answered
    <3>. QED  BY <3>4, <3>5, <3>6
  <2>. QED  BY <2>1, <2>2, <2>3 DEF ShownAgreesWithGate
<1>. QED  BY <1>1, ScopeInvariant, PTL

=============================================================================
