------------------------ MODULE RecoveryProtocolProofs ------------------------
(***************************************************************************)
(* Proofs about RecoveryProtocol, for any callers, steps, verbs, results   *)
(* and snapshots and any number of attempts: the recovery tables stay      *)
(* consistent, implement AttemptLedger, and give an operation at most one  *)
(* executor that has not outlived its lease.                               *)
(***************************************************************************)
EXTENDS RecoveryProtocol, SequenceTheorems, TLAPS

Key(c) == logical_request_key(c)

\* An operation is newer than the attempt its key was built on.
KeysAdvance == \A k \in Keys : ops[k].status # "none" => k.source < ops[k].attempt

\* A caller built on an attempt that exists; while it executes it holds the
\* attempt of the operation under its key; an answer is newer than its source.
CallOK(c) ==
    /\ call[c].source <= Len(attempts)
    /\ call[c].phase \in {"executing", "executed"} =>
          ops[Key(c)].status # "none" /\ ops[Key(c)].attempt = call[c].attempt
    /\ call[c].phase \in {"recovered", "already_applied"} =>
          call[c].attempt > call[c].source

RecoveryInv ==
    /\ TypeOK
    /\ EpochNamesAttempt
    /\ LedgerConsistent
    /\ KeysAdvance
    /\ \A c \in Callers : CallOK(c)

\* The record every call starts from is a call.
LEMMA IdleType == Idle \in Call
  BY RecoveryAssumption DEF Idle, Call, Phases, NoAttempt

\* The key of a caller is a key.
LEMMA KeyType == ASSUME NEW c \in Callers, call \in [Callers -> Call]
                 PROVE  Key(c) \in Keys /\ Key(c).source = call[c].source
  BY DEF Key, logical_request_key, Keys, Call

\* What answering does to the table of calls.
LEMMA AnswerCall ==
  ASSUME NEW c \in Callers, call \in [Callers -> Call], NEW o \in Phases,
         NEW a \in {NoAttempt} \cup AttemptIds, Answer(c, o, a)
  PROVE  /\ call' \in [Callers -> Call]
         /\ call'[c].phase = o /\ call'[c].attempt = a
         /\ call'[c].source = call[c].source /\ call'[c].verb = call[c].verb
         /\ call'[c].step = call[c].step
         /\ \A d \in Callers : d # c => call'[d] = call[d]
  BY IdleType DEF Answer, SetCall, Call

\* A step that leaves the three tables alone preserves the invariant when it
\* leaves every call in order.
LEMMA QuietStep ==
  ASSUME RecoveryInv, UNCHANGED <<epoch, attempts, ops>>,
         authority' \in Snapshots, cursor' \in Steps,
         call' \in [Callers -> Call], \A c \in Callers : CallOK(c)'
  PROVE  RecoveryInv'
<1>1. TypeOK'
  BY DEF RecoveryInv, TypeOK
<1>2. EpochNamesAttempt'
  BY DEF RecoveryInv, EpochNamesAttempt
<1>3. LedgerConsistent'
  BY DEF RecoveryInv, LedgerConsistent, Finalized
<1>4. KeysAdvance'
  BY DEF RecoveryInv, KeysAdvance
<1>. QED  BY <1>1, <1>2, <1>3, <1>4 DEF RecoveryInv

\* A call that short-circuits: the others are as they were.
LEMMA ShortCircuit ==
  ASSUME RecoveryInv, NEW c \in Callers, NEW o \in Outcomes,
         NEW a \in {NoAttempt} \cup AttemptIds, Answer(c, o, a),
         o \in {"recovered", "already_applied"} => a > call[c].source,
         UNCHANGED <<epoch, attempts, ops, authority, cursor>>
  PROVE  RecoveryInv'
<1>1. o \in Phases /\ o \notin {"executing", "executed"}
  BY DEF Phases, Outcomes
<1>2. TypeOK /\ \A d \in Callers : CallOK(d)
  BY DEF RecoveryInv
<1>3. /\ call' \in [Callers -> Call]
      /\ call'[c].phase = o /\ call'[c].attempt = a
      /\ call'[c].source = call[c].source
      /\ \A d \in Callers : d # c => call'[d] = call[d]
  BY <1>1, <1>2, AnswerCall DEF TypeOK
<1>4. \A d \in Callers : CallOK(d)'
  <2>. SUFFICES ASSUME NEW d \in Callers PROVE CallOK(d)'
    OBVIOUS
  <2>1. CASE d = c
    BY <1>1, <1>2, <1>3, <2>1 DEF CallOK
  <2>2. CASE d # c
    BY <1>2, <1>3, <2>2 DEF CallOK, Key, logical_request_key
  <2>. QED  BY <2>1, <2>2
<1>. QED  BY <1>2, <1>3, <1>4, QuietStep DEF TypeOK

\* The protocol starts in order.
LEMMA RecoveryInit == Init => RecoveryInv
<1>. SUFFICES ASSUME Init PROVE RecoveryInv
  OBVIOUS
<1>. USE RecoveryAssumption
<1>1. \A k \in Keys : ops[k].status = "none" /\ ops[k] \in Operation
  BY DEF Init, NoOperation, Operation, NoAttempt
<1>2. attempts \in Seq(Attempt) /\ Len(attempts) = 0
  BY DEF Init
<1>3. \A c \in Callers : call[c] \in Call /\ call[c].phase = "idle" /\ call[c].source = 0
  BY IdleType DEF Init, Idle, NoAttempt
<1>4. TypeOK
  BY <1>1, <1>2, <1>3, IdleType DEF Init, TypeOK
<1>5. EpochNamesAttempt
  BY <1>2 DEF Init, EpochNamesAttempt
<1>6. LedgerConsistent
  BY <1>1, <1>2 DEF LedgerConsistent
<1>7. KeysAdvance
  BY <1>1 DEF KeysAdvance
<1>8. \A c \in Callers : CallOK(c)
  BY <1>2, <1>3 DEF CallOK
<1>. QED  BY <1>4, <1>5, <1>6, <1>7, <1>8 DEF RecoveryInv


\* A caller that moves on without touching the tables.
LEMMA CallMoves ==
  ASSUME RecoveryInv, NEW c \in Callers, NEW r \in Call, SetCall(c, r),
         UNCHANGED <<epoch, attempts, ops, authority, cursor>>,
         r.source <= Len(attempts),
         r.phase \notin {"recovered", "already_applied"},
         r.phase \in {"executing", "executed"} =>
            /\ call[c].phase \in {"executing", "executed"}
            /\ r.source = call[c].source /\ r.verb = call[c].verb
            /\ r.attempt = call[c].attempt
  PROVE  RecoveryInv'
<1>1. TypeOK /\ \A d \in Callers : CallOK(d)
  BY DEF RecoveryInv
<1>2. /\ call' \in [Callers -> Call] /\ call'[c] = r
      /\ \A d \in Callers : d # c => call'[d] = call[d]
  BY <1>1 DEF SetCall, TypeOK
<1>3. \A d \in Callers : CallOK(d)'
  <2>. SUFFICES ASSUME NEW d \in Callers PROVE CallOK(d)'
    OBVIOUS
  <2>1. CASE d = c
    <3>1. CASE r.phase \in {"executing", "executed"}
      BY <1>1, <1>2, <2>1, <3>1 DEF CallOK, Key, logical_request_key
    <3>2. CASE r.phase \notin {"executing", "executed"}
      BY <1>1, <1>2, <2>1, <3>2 DEF CallOK
    <3>. QED  BY <3>1, <3>2
  <2>2. CASE d # c
    BY <1>1, <1>2, <2>2 DEF CallOK, Key, logical_request_key
  <2>. QED  BY <2>1, <2>2
<1>. QED  BY <1>1, <1>2, <1>3, QuietStep DEF TypeOK

\* Rows of the authority snapshot change and nothing else.
LEMMA AuthorityMoves ==
  ASSUME RecoveryInv, UNCHANGED <<epoch, attempts, ops, call>>,
         authority' \in Snapshots, cursor' \in Steps
  PROVE  RecoveryInv'
<1>1. call' \in [Callers -> Call] /\ \A d \in Callers : CallOK(d)'
  BY DEF RecoveryInv, TypeOK, CallOK, Key, logical_request_key
<1>. QED  BY <1>1, QuietStep

\* The facts about the tables that every reservation starts from.
LEMMA Tables ==
  ASSUME RecoveryInv, NEW c \in Callers
  PROVE  /\ Len(attempts) \in Nat /\ epoch = Len(attempts)
         /\ call[c] \in Call /\ call[c].source \in Nat /\ call[c].source <= Len(attempts)
         /\ Key(c) \in Keys /\ Key(c).source = call[c].source
         /\ ops[Key(c)] \in Operation
         /\ ops[Key(c)].status # "none" =>
               /\ ops[Key(c)].attempt \in 1..Len(attempts)
               /\ ops[Key(c)].attempt > call[c].source
<1>1. TypeOK /\ EpochNamesAttempt /\ LedgerConsistent /\ KeysAdvance /\ CallOK(c)
  BY DEF RecoveryInv
<1>2. Key(c) \in Keys /\ Key(c).source = call[c].source
  BY <1>1, KeyType DEF TypeOK
<1>3. call[c] \in Call /\ ops[Key(c)] \in Operation /\ Len(attempts) \in Nat
  BY <1>1, <1>2 DEF TypeOK
<1>4. call[c].source \in Nat
  BY <1>3, RecoveryAssumption DEF Call, NoAttempt, AttemptIds
<1>. QED  BY <1>1, <1>2, <1>3, <1>4 DEF EpochNamesAttempt, LedgerConsistent, KeysAdvance, CallOK

\* A fresh reservation opens the attempt of the next epoch.
LEMMA FreshStep == ASSUME RecoveryInv, NEW c \in Callers, reserve_fresh(c)
                   PROVE  RecoveryInv'
<1>. USE RecoveryAssumption
<1>. DEFINE k == Key(c)
            n == Len(attempts) + 1
            row == [step |-> call[c].step, source |-> call[c].source,
                    epoch |-> epoch + 1, result |-> "started"]
            op == [status |-> "pending", step |-> call[c].step,
                   attempt |-> n, expired |-> FALSE]
<1>1. TypeOK /\ EpochNamesAttempt /\ LedgerConsistent /\ KeysAdvance
      /\ \A d \in Callers : CallOK(d)
  BY DEF RecoveryInv
<1>2. /\ Len(attempts) \in Nat /\ epoch = Len(attempts) /\ call[c] \in Call
      /\ call[c].source \in Nat /\ call[c].source <= Len(attempts)
      /\ k \in Keys /\ k.source = call[c].source
  BY Tables
<1>3. /\ Len(attempts) < MaxAttempts /\ ops[k].status = "none"
      /\ epoch' = epoch + 1 /\ attempts' = Append(attempts, row)
      /\ ops' = [ops EXCEPT ![k] = op]
      /\ Answer(c, "executing", n) /\ UNCHANGED <<authority, cursor>>
  BY DEF reserve_fresh, existing, Key
<1>4. n \in AttemptIds /\ row \in Attempt /\ op \in Operation
  BY <1>2, <1>3 DEF Attempt, Operation, AttemptIds, Call
<1>. HIDE DEF row
<1>5. /\ attempts' \in Seq(Attempt) /\ Len(attempts') = n
      /\ \A i \in 1..Len(attempts) : attempts'[i] = attempts[i]
      /\ attempts'[n] = row
  BY <1>1, <1>3, <1>4, AppendProperties DEF TypeOK
<1>6. row.epoch = n /\ row.result = "started"
  BY <1>2 DEF row
<1>7. /\ ops' \in [Keys -> Operation] /\ ops'[k] = op
      /\ \A j \in Keys : j # k => ops'[j] = ops[j]
  BY <1>1, <1>2, <1>3, <1>4 DEF TypeOK
<1>8. /\ call' \in [Callers -> Call]
      /\ call'[c].phase = "executing" /\ call'[c].attempt = n
      /\ call'[c].source = call[c].source /\ call'[c].verb = call[c].verb
      /\ \A d \in Callers : d # c => call'[d] = call[d]
  BY <1>1, <1>3, <1>4, AnswerCall DEF TypeOK, Phases
<1>9. op.status = "pending" /\ op.attempt = n
  OBVIOUS
<1>. HIDE DEF op
<1>10. TypeOK'
  BY <1>1, <1>2, <1>3, <1>5, <1>7, <1>8 DEF TypeOK
<1>11. EpochNamesAttempt'
  BY <1>1, <1>2, <1>3, <1>5, <1>6 DEF EpochNamesAttempt
<1>12. LedgerConsistent'
  <2>1. ASSUME NEW j \in Keys, ops'[j].status # "none"
        PROVE  /\ ops'[j].attempt \in 1..Len(attempts')
               /\ ops'[j].status = "completed"
                     <=> attempts'[ops'[j].attempt].result # "started"
    <3>1. CASE j = k
      BY <1>2, <1>5, <1>6, <1>7, <1>9, <3>1
    <3>2. CASE j # k
      BY <1>1, <1>2, <1>5, <1>7, <2>1, <3>2 DEF Finalized, LedgerConsistent
    <3>. QED  BY <3>1, <3>2
  <2>2. ASSUME NEW k1 \in Keys, NEW k2 \in Keys, ops'[k1].status # "none",
               ops'[k2].status # "none", ops'[k1].attempt = ops'[k2].attempt
        PROVE  k1 = k2
    <3>1. \A j \in Keys : j # k /\ ops[j].status # "none" => ops[j].attempt # n
      BY <1>1, <1>2 DEF LedgerConsistent
    <3>. QED  BY <1>1, <1>7, <1>9, <2>2, <3>1 DEF LedgerConsistent
  <2>3. ASSUME NEW i \in 1..Len(attempts')
        PROVE  \E j \in Keys : ops'[j].status # "none" /\ ops'[j].attempt = i
    <3>1. CASE i = n
      BY <1>2, <1>7, <1>9, <3>1
    <3>2. CASE i # n
      BY <1>1, <1>2, <1>3, <1>5, <1>7, <2>3, <3>2 DEF LedgerConsistent
    <3>. QED  BY <3>1, <3>2
  <2>. QED  BY <2>1, <2>2, <2>3 DEF LedgerConsistent, Finalized
<1>13. KeysAdvance'
  <2>1. k.source < n
    BY <1>2
  <2>. QED  BY <1>1, <1>7, <1>9, <2>1 DEF KeysAdvance
<1>14. ASSUME NEW d \in Callers PROVE CallOK(d)'
  <2>1. CASE d = c
    <3>1. Key(c)' = k
      BY <1>8 DEF Key, logical_request_key
    <3>2. call'[c].source <= Len(attempts')
      BY <1>2, <1>5, <1>8
    <3>. QED  BY <1>2, <1>7, <1>8, <1>9, <2>1, <3>1, <3>2 DEF CallOK
  <2>2. CASE d # c
    <3>1. call'[d] = call[d] /\ Key(d)' = Key(d) /\ Key(d) \in Keys
      BY <1>1, <1>8, <2>2, KeyType DEF Key, logical_request_key, TypeOK
    <3>2. call'[d].source <= Len(attempts')
      <4>1. call[d].source \in Nat /\ call[d].source <= Len(attempts)
        BY Tables
      <4>. QED  BY <1>2, <1>5, <3>1, <4>1
    <3>. QED  BY <1>1, <1>3, <1>7, <3>1, <3>2 DEF CallOK
  <2>. QED  BY <2>1, <2>2
<1>. QED  BY <1>1, <1>10, <1>11, <1>12, <1>13, <1>14 DEF RecoveryInv

\* An operation whose lease changes keeps its status and its attempt.
LEMMA LeaseMoves ==
  ASSUME RecoveryInv, NEW k \in Keys, NEW e \in BOOLEAN,
         ops' = [ops EXCEPT ![k].expired = e]
  PROVE  /\ ops' \in [Keys -> Operation]
         /\ \A j \in Keys : ops'[j].status = ops[j].status /\ ops'[j].attempt = ops[j].attempt
         /\ \A j \in Keys : j # k => ops'[j] = ops[j]
         /\ ops'[k].expired = e
<1>1. ops \in [Keys -> Operation]
  BY DEF RecoveryInv, TypeOK
<1>2. [ops[k] EXCEPT !.expired = e] \in Operation
  BY <1>1 DEF Operation
<1>3. ops' \in [Keys -> Operation]
  BY <1>1, <1>2
<1>. QED  BY <1>1, <1>3 DEF Operation

\* The invariant does not look at leases.
LEMMA LeaseOnly ==
  ASSUME RecoveryInv, UNCHANGED <<epoch, attempts, authority, cursor>>,
         ops' \in [Keys -> Operation], call' \in [Callers -> Call],
         \A j \in Keys : ops'[j].status = ops[j].status /\ ops'[j].attempt = ops[j].attempt,
         \A d \in Callers : CallOK(d)'
  PROVE  RecoveryInv'
<1>1. TypeOK'
  BY DEF RecoveryInv, TypeOK
<1>2. EpochNamesAttempt'
  BY DEF RecoveryInv, EpochNamesAttempt
<1>3. LedgerConsistent'
  BY DEF RecoveryInv, LedgerConsistent, Finalized
<1>4. KeysAdvance'
  BY DEF RecoveryInv, KeysAdvance
<1>. QED  BY <1>1, <1>2, <1>3, <1>4 DEF RecoveryInv

\* An adopted operation keeps its attempt.
LEMMA AdoptStep == ASSUME RecoveryInv, NEW c \in Callers, reserve_adopted(c)
                   PROVE  RecoveryInv'
<1>. DEFINE k == Key(c)
<1>1. TypeOK /\ \A d \in Callers : CallOK(d)
  BY DEF RecoveryInv
<1>2. /\ k \in Keys /\ ops[k].status = "pending" /\ ops[k] \in Operation
      /\ ops' = [ops EXCEPT ![k].expired = FALSE]
      /\ Answer(c, "executing", ops[k].attempt)
      /\ UNCHANGED <<epoch, attempts, authority, cursor>>
  BY Tables DEF reserve_adopted, adoptable, existing, Key
<1>3. /\ ops' \in [Keys -> Operation]
      /\ \A j \in Keys : ops'[j].status = ops[j].status /\ ops'[j].attempt = ops[j].attempt
  BY <1>2, LeaseMoves
<1>4. ops[k].attempt \in {NoAttempt} \cup AttemptIds
  BY <1>2 DEF Operation
<1>5. /\ call' \in [Callers -> Call]
      /\ call'[c].phase = "executing" /\ call'[c].attempt = ops[k].attempt
      /\ call'[c].source = call[c].source /\ call'[c].verb = call[c].verb
      /\ \A d \in Callers : d # c => call'[d] = call[d]
  BY <1>1, <1>2, <1>4, AnswerCall DEF TypeOK, Phases
<1>6. ASSUME NEW d \in Callers PROVE CallOK(d)'
  <2>0. Key(d)' = Key(d) /\ Key(d) \in Keys /\ call'[d].source = call[d].source
    BY <1>1, <1>5, KeyType DEF Key, logical_request_key, TypeOK
  <2>1. CASE d = c
    BY <1>1, <1>2, <1>3, <1>5, <2>0, <2>1 DEF CallOK
  <2>2. CASE d # c
    BY <1>1, <1>2, <1>3, <1>5, <2>0, <2>2 DEF CallOK
  <2>. QED  BY <2>1, <2>2
<1>. QED  BY <1>2, <1>3, <1>5, <1>6, LeaseOnly

\* A lease that runs out is noted with the callers that execute under it.
LEMMA LateCalls ==
  ASSUME TypeOK, NEW k \in Keys, Expire(k)
  PROVE  /\ call' \in [Callers -> Call]
         /\ \A d \in Callers : /\ call'[d].phase = call[d].phase
                               /\ call'[d].source = call[d].source
                               /\ call'[d].verb = call[d].verb
                               /\ call'[d].attempt = call[d].attempt
                               /\ Working(d, ops[k].attempt) => call'[d].late
                               /\ call[d].late => call'[d].late
<1>1. call \in [Callers -> Call]
  BY DEF TypeOK
<1>2. call' = [c \in Callers |-> IF Working(c, ops[k].attempt)
                                THEN [call[c] EXCEPT !.late = TRUE] ELSE call[c]]
  BY DEF Expire
<1>3. ASSUME NEW d \in Callers
      PROVE  /\ call'[d] \in Call
             /\ call'[d].phase = call[d].phase
             /\ call'[d].source = call[d].source
             /\ call'[d].verb = call[d].verb
             /\ call'[d].attempt = call[d].attempt
             /\ Working(d, ops[k].attempt) => call'[d].late
             /\ call[d].late => call'[d].late
  <2>1. call[d] \in Call /\ call'[d] = IF Working(d, ops[k].attempt)
                                       THEN [call[d] EXCEPT !.late = TRUE] ELSE call[d]
    BY <1>1, <1>2
  <2>. QED  BY <2>1 DEF Call
<1>4. call' \in [Callers -> Call]
  BY <1>2, <1>3
<1>. QED  BY <1>3, <1>4

\* A lease that runs out.
LEMMA ExpireStep == ASSUME RecoveryInv, NEW k \in Keys, Expire(k)
                    PROVE  RecoveryInv'
<1>1. TypeOK /\ \A d \in Callers : CallOK(d)
  BY DEF RecoveryInv
<1>2. /\ ops' \in [Keys -> Operation]
      /\ \A j \in Keys : ops'[j].status = ops[j].status /\ ops'[j].attempt = ops[j].attempt
  BY LeaseMoves DEF Expire
<1>3. ASSUME NEW d \in Callers PROVE CallOK(d)'
  <2>1. Key(d)' = Key(d) /\ Key(d) \in Keys /\ attempts' = attempts
    BY <1>1, KeyType, LateCalls DEF Key, logical_request_key, TypeOK, Expire
  <2>2. /\ call'[d].phase = call[d].phase /\ call'[d].source = call[d].source
        /\ call'[d].attempt = call[d].attempt
    BY <1>1, LateCalls
  <2>. QED  BY <1>1, <1>2, <2>1, <2>2 DEF CallOK
<1>4. call' \in [Callers -> Call]
  BY <1>1, LateCalls
<1>. QED  BY <1>1, <1>2, <1>3, <1>4, LeaseOnly DEF Expire

\* A function on an initial segment of the positive numbers is a sequence.
LEMMA SeqOfFunction == ASSUME NEW S, NEW m \in Nat, NEW t \in [1..m -> S]
                       PROVE  t \in Seq(S)
  OBVIOUS

\* What finalize does to the tables when its guards hold.
LEMMA FinalizeTables ==
  ASSUME RecoveryInv, NEW c \in Callers, call[c].phase = "executed",
         ops[Key(c)].status = "pending", NEW r \in Results,
         attempts' = [attempts EXCEPT ![call[c].attempt].result = r],
         ops' = [ops EXCEPT ![Key(c)].status = "completed"]
  PROVE  /\ ops[Key(c)].attempt = call[c].attempt
         /\ call[c].attempt \in 1..Len(attempts)
         /\ attempts' \in Seq(Attempt) /\ Len(attempts') = Len(attempts)
         /\ \A i \in 1..Len(attempts) : attempts'[i].epoch = attempts[i].epoch
         /\ \A i \in 1..Len(attempts) : i # call[c].attempt => attempts'[i] = attempts[i]
         /\ attempts'[call[c].attempt].result = r
         /\ ops' \in [Keys -> Operation]
         /\ ops'[Key(c)].status = "completed"
         /\ \A j \in Keys : ops'[j].attempt = ops[j].attempt
         /\ \A j \in Keys : j # Key(c) => ops'[j] = ops[j]
<1>. DEFINE k == Key(c)
            n == call[c].attempt
            row == [attempts[n] EXCEPT !.result = r]
            op == [ops[k] EXCEPT !.status = "completed"]
<1>1. TypeOK /\ CallOK(c)
  BY DEF RecoveryInv
<1>2. k \in Keys /\ ops[k] \in Operation /\ Len(attempts) \in Nat
  BY Tables
<1>3. ops[k].attempt = n
  BY <1>1 DEF CallOK
<1>4. n \in 1..Len(attempts)
  BY <1>3, Tables
<1>5. attempts \in Seq(Attempt) /\ attempts[n] \in Attempt
      /\ \A i \in 1..Len(attempts) : attempts[i] \in Attempt
  <2>1. attempts \in Seq(Attempt)
    BY <1>1 DEF TypeOK
  <2>. HIDE DEF n, k
  <2>. QED  BY <1>4, <2>1
<1>6. row \in Attempt /\ row.result = r /\ row.epoch = attempts[n].epoch
  BY <1>5 DEF Attempt
<1>7. attempts' = [attempts EXCEPT ![n] = row]
  BY DEF row
<1>8. /\ attempts' \in Seq(Attempt) /\ Len(attempts') = Len(attempts)
      /\ \A i \in 1..Len(attempts) : attempts'[i] = IF i = n THEN row ELSE attempts[i]
  <2>. HIDE DEF row, n
  <2>1. attempts \in Seq(Attempt) /\ n \in 1..Len(attempts) /\ row \in Attempt
    BY <1>4, <1>5, <1>6
  <2>2. attempts' \in Seq(Attempt)
    <3>1. attempts \in [1..Len(attempts) -> Attempt]
      BY <2>1
    <3>2. attempts' \in [1..Len(attempts) -> Attempt]
      BY <1>7, <2>1, <3>1
    <3>. QED  BY <1>2, <3>2, SeqOfFunction
  <2>3. Len(attempts') = Len(attempts)
    BY <1>7, <2>1
  <2>4. \A i \in 1..Len(attempts) : attempts'[i] = IF i = n THEN row ELSE attempts[i]
    BY <1>7, <2>1
  <2>. QED  BY <2>2, <2>3, <2>4
<1>9. op \in Operation /\ op.status = "completed" /\ op.attempt = ops[k].attempt
  BY <1>2 DEF Operation
<1>10. ops' = [ops EXCEPT ![k] = op]
  OBVIOUS
<1>11. ops' \in [Keys -> Operation] /\ ops'[k] = op
       /\ \A j \in Keys : j # k => ops'[j] = ops[j]
  <2>. HIDE DEF op, k
  <2>. QED  BY <1>1, <1>2, <1>9, <1>10 DEF TypeOK
<1>. HIDE DEF row, op
<1>12. /\ \A i \in 1..Len(attempts) : attempts'[i].epoch = attempts[i].epoch
       /\ \A i \in 1..Len(attempts) : i # n => attempts'[i] = attempts[i]
       /\ attempts'[n].result = r
  BY <1>4, <1>6, <1>8
<1>13. /\ ops'[k].status = "completed"
       /\ \A j \in Keys : ops'[j].attempt = ops[j].attempt
  BY <1>9, <1>11
<1>. QED  BY <1>3, <1>4, <1>8, <1>11, <1>12, <1>13

\* Finalizing: the attempt and its operation together, or nothing.
LEMMA FinalizeStep == ASSUME RecoveryInv, NEW c \in Callers, finalize(c)
                      PROVE  RecoveryInv'
<1>. USE RecoveryAssumption
<1>. DEFINE k == Key(c)
            n == call[c].attempt
<1>1. TypeOK /\ EpochNamesAttempt /\ LedgerConsistent /\ KeysAdvance
      /\ \A d \in Callers : CallOK(d)
  BY DEF RecoveryInv
<1>2. /\ call[c].phase = "executed" /\ call[c] \in Call /\ k \in Keys
      /\ n \in {NoAttempt} \cup AttemptIds
      /\ UNCHANGED <<epoch, authority, cursor>>
  BY Tables DEF finalize, Call
<1>3. CASE ~Finalized(n) /\ ops[k].status = "pending"
  <2>1. PICK r \in Results : attempts' = [attempts EXCEPT ![n].result = r]
    BY <1>3 DEF finalize, existing, Key
  <2>2. /\ ops' = [ops EXCEPT ![k].status = "completed"]
        /\ Answer(c, "recovered", n)
    BY <1>3 DEF finalize, existing, Key
  <2>3. /\ ops[k].attempt = n /\ n \in 1..Len(attempts)
        /\ attempts' \in Seq(Attempt) /\ Len(attempts') = Len(attempts)
        /\ \A i \in 1..Len(attempts) : attempts'[i].epoch = attempts[i].epoch
        /\ \A i \in 1..Len(attempts) : i # n => attempts'[i] = attempts[i]
        /\ attempts'[n].result = r
        /\ ops' \in [Keys -> Operation] /\ ops'[k].status = "completed"
        /\ \A j \in Keys : ops'[j].attempt = ops[j].attempt
        /\ \A j \in Keys : j # k => ops'[j] = ops[j]
    BY <1>2, <1>3, <2>1, <2>2, FinalizeTables
  <2>4. /\ call' \in [Callers -> Call]
        /\ call'[c].phase = "recovered" /\ call'[c].attempt = n
        /\ call'[c].source = call[c].source /\ call'[c].verb = call[c].verb
        /\ \A d \in Callers : d # c => call'[d] = call[d]
    BY <1>1, <1>2, <2>2, AnswerCall DEF TypeOK, Phases, Outcomes
  <2>. HIDE DEF k, n
  <2>5. TypeOK'
    BY <1>1, <1>2, <2>3, <2>4 DEF TypeOK
  <2>6. EpochNamesAttempt'
    BY <1>1, <1>2, <2>3 DEF EpochNamesAttempt
  <2>7. \A j \in Keys : ops'[j].status # "none" <=> ops[j].status # "none"
    BY <1>2, <1>3, <2>3
  <2>8. LedgerConsistent'
    <3>1. ASSUME NEW j \in Keys, ops'[j].status # "none"
          PROVE  /\ ops'[j].attempt \in 1..Len(attempts')
                 /\ ops'[j].status = "completed"
                       <=> attempts'[ops'[j].attempt].result # "started"
      <4>1. CASE j = k
        BY <2>3, <4>1
      <4>2. CASE j # k
        <5>1. ops[j].attempt # n
          BY <1>1, <1>2, <1>3, <2>3, <2>7, <3>1, <4>2 DEF LedgerConsistent
        <5>. QED  BY <1>1, <2>3, <2>7, <3>1, <4>2, <5>1 DEF LedgerConsistent, Finalized
      <4>. QED  BY <4>1, <4>2
    <3>2. ASSUME NEW k1 \in Keys, NEW k2 \in Keys, ops'[k1].status # "none",
                 ops'[k2].status # "none", ops'[k1].attempt = ops'[k2].attempt
          PROVE  k1 = k2
      BY <1>1, <2>3, <2>7, <3>2 DEF LedgerConsistent
    <3>3. ASSUME NEW i \in 1..Len(attempts')
          PROVE  \E j \in Keys : ops'[j].status # "none" /\ ops'[j].attempt = i
      BY <1>1, <2>3, <2>7, <3>3 DEF LedgerConsistent
    <3>. QED  BY <3>1, <3>2, <3>3 DEF LedgerConsistent, Finalized
  <2>9. KeysAdvance'
    BY <1>1, <2>3, <2>7 DEF KeysAdvance
  <2>10. ASSUME NEW d \in Callers PROVE CallOK(d)'
    <3>0. Key(d)' = Key(d) /\ Key(d) \in Keys /\ call'[d].source = call[d].source
      BY <1>1, <2>4, KeyType DEF Key, logical_request_key, TypeOK
    <3>1. CASE d = c
      <4>1. n > call[c].source
        BY <1>3, <2>3, Tables DEF k
      <4>. QED  BY <1>1, <2>3, <2>4, <3>0, <3>1, <4>1 DEF CallOK
    <3>2. CASE d # c
      BY <1>1, <2>3, <2>4, <2>7, <3>0, <3>2 DEF CallOK
    <3>. QED  BY <3>1, <3>2
  <2>. QED  BY <2>5, <2>6, <2>8, <2>9, <2>10 DEF RecoveryInv
<1>4. CASE ~(~Finalized(n) /\ ops[k].status = "pending")
  <2>1. Answer(c, "error", n) /\ UNCHANGED <<attempts, ops>>
    BY <1>4 DEF finalize, existing, Key
  <2>. QED  BY <1>2, <2>1, ShortCircuit DEF Outcomes
<1>. QED  BY <1>3, <1>4

\* The invariant is inductive.
LEMMA RecoveryNext == RecoveryInv /\ [Next]_vars => RecoveryInv'
<1>. SUFFICES ASSUME RecoveryInv, [Next]_vars PROVE RecoveryInv'
  OBVIOUS
<1>. USE RecoveryAssumption
<1>0. TypeOK /\ \A d \in Callers : CallOK(d)
  BY DEF RecoveryInv
<1>1. ASSUME NEW c \in Callers, NEW s \in Steps, NEW v \in Verbs, Request(c, s, v)
      PROVE  RecoveryInv'
  <2>. DEFINE r == [Idle EXCEPT !.phase = "requested", !.step = s, !.verb = v,
                                !.expected = epoch]
  <2>1. r \in Call /\ r.phase = "requested" /\ r.source = 0
    BY <1>0, IdleType DEF TypeOK, Call, Phases, Idle, NoAttempt
  <2>2. SetCall(c, r) /\ UNCHANGED <<epoch, attempts, ops, authority, cursor>>
    BY <1>1 DEF Request
  <2>. HIDE DEF r
  <2>3. r.source <= Len(attempts)
    BY <2>1, Tables
  <2>. QED  BY <2>1, <2>2, <2>3, CallMoves
<1>2. ASSUME NEW c \in Callers, prepare(c) PROVE RecoveryInv'
  <2>1. PICK n \in 0..Len(attempts) :
           SetCall(c, [call[c] EXCEPT !.phase = "prepared", !.source = n,
                                      !.seen = authority])
    BY <1>2 DEF prepare
  <2>. DEFINE r == [call[c] EXCEPT !.phase = "prepared", !.source = n, !.seen = authority]
  <2>2. n \in {NoAttempt} \cup AttemptIds
    BY <1>0 DEF TypeOK, NoAttempt, AttemptIds
  <2>3. r \in Call /\ r.phase = "prepared" /\ r.source = n
    BY <1>0, <2>2 DEF TypeOK, Call, Phases
  <2>4. SetCall(c, r) /\ UNCHANGED <<epoch, attempts, ops, authority, cursor>>
    BY <1>2, <2>1 DEF prepare
  <2>5. n <= Len(attempts)
    BY Tables
  <2>. HIDE DEF r
  <2>. QED  BY <2>3, <2>4, <2>5, CallMoves
<1>3. ASSUME NEW c \in Callers, prepare_failed(c) PROVE RecoveryInv'
  BY <1>3, ShortCircuit DEF prepare_failed, Outcomes
<1>4. ASSUME NEW c \in Callers, reserve_already_applied(c) PROVE RecoveryInv'
  <2>1. /\ ops[Key(c)].status # "none" /\ Answer(c, "already_applied", ops[Key(c)].attempt)
        /\ UNCHANGED <<epoch, attempts, ops, authority, cursor>>
    BY <1>4 DEF reserve_already_applied, existing, Key
  <2>2. ops[Key(c)] \in Operation /\ ops[Key(c)].attempt > call[c].source
    BY <2>1, Tables
  <2>3. ops[Key(c)].attempt \in {NoAttempt} \cup AttemptIds
    BY <2>2 DEF Operation
  <2>. QED  BY <2>1, <2>2, <2>3, ShortCircuit DEF Outcomes
<1>5. ASSUME NEW c \in Callers, reserve_stale(c) PROVE RecoveryInv'
  BY <1>5, ShortCircuit DEF reserve_stale, Outcomes
<1>6. ASSUME NEW c \in Callers, reserve_authority_changed(c) PROVE RecoveryInv'
  BY <1>6, ShortCircuit DEF reserve_authority_changed, Outcomes
<1>7. ASSUME NEW c \in Callers, reserve_refused(c) PROVE RecoveryInv'
  <2>1. PICK o \in {"refused", "error"} : Answer(c, o, NoAttempt)
    BY <1>7 DEF reserve_refused
  <2>. QED  BY <1>7, <2>1, ShortCircuit DEF reserve_refused, Outcomes
<1>8. ASSUME NEW c \in Callers, run_step(c) PROVE RecoveryInv'
  BY <1>8, AuthorityMoves DEF run_step
<1>9. ASSUME NEW c \in Callers, execute(c) PROVE RecoveryInv'
  <2>. DEFINE r == [call[c] EXCEPT !.phase = "executed"]
  <2>1. /\ r \in Call /\ r.phase = "executed" /\ r.source = call[c].source
        /\ r.verb = call[c].verb /\ r.attempt = call[c].attempt
    BY <1>0 DEF TypeOK, Call, Phases
  <2>2. /\ SetCall(c, r) /\ call[c].phase = "executing"
        /\ UNCHANGED <<epoch, attempts, ops, authority, cursor>>
    BY <1>9 DEF execute
  <2>. HIDE DEF r
  <2>3. r.source <= Len(attempts)
    BY <2>1, Tables
  <2>. QED  BY <2>1, <2>2, <2>3, CallMoves
<1>10. ASSUME NEW c \in Callers, execute_failed(c) PROVE RecoveryInv'
  <2>1. call[c].attempt \in {NoAttempt} \cup AttemptIds
    BY <1>0 DEF TypeOK, Call
  <2>. QED  BY <1>10, <2>1, ShortCircuit DEF execute_failed, Outcomes
<1>11. ASSUME NEW c \in Callers, Crash(c) PROVE RecoveryInv'
  <2>1. Idle.phase = "idle" /\ Idle.source = 0
    BY DEF Idle, NoAttempt
  <2>2. Idle.source <= Len(attempts)
    BY <2>1, Tables
  <2>. QED  BY <1>11, <2>1, <2>2, IdleType, CallMoves DEF Crash
<1>12. CASE write_authority
  BY <1>12, AuthorityMoves DEF write_authority
<1>13. CASE UNCHANGED vars
  <2>1. authority' \in Snapshots /\ cursor' \in Steps
    BY <1>0, <1>13 DEF vars, TypeOK
  <2>. QED  BY <1>13, <2>1, AuthorityMoves DEF vars
<1>14. ASSUME NEW c \in Callers, CallStep(c) PROVE RecoveryInv'
  BY <1>1, <1>2, <1>3, <1>4, <1>5, <1>6, <1>7, <1>8, <1>9, <1>10, <1>11, <1>14,
     FreshStep, AdoptStep, FinalizeStep DEF CallStep
<1>. QED  BY <1>12, <1>13, <1>14, ExpireStep DEF Next

\* The inductive invariant, of every reachable state.
THEOREM RecoveryInvariant == Spec => []RecoveryInv
  BY RecoveryInit, RecoveryNext, PTL DEF Spec

\* The recovery tables and the calls are well typed whatever the callers do.
THEOREM TypeCorrect == Spec => []TypeOK
<1>1. RecoveryInv => TypeOK
  BY DEF RecoveryInv
<1>. QED  BY <1>1, RecoveryInvariant, PTL

\* The n-th attempt holds epoch n: no two reservations share an epoch and no
\* epoch is skipped (cas_advance_epoch, record_attempt_start).
THEOREM EpochsNameAttempts == Spec => []EpochNamesAttempt
<1>1. RecoveryInv => EpochNamesAttempt
  BY DEF RecoveryInv
<1>. QED  BY <1>1, RecoveryInvariant, PTL

\* Operations and attempts agree in every reachable state
\* (append_attempt_outcome and finalize_completed are one transaction).
THEOREM LedgerStaysConsistent == Spec => []LedgerConsistent
<1>1. RecoveryInv => LedgerConsistent
  BY DEF RecoveryInv
<1>. QED  BY <1>1, RecoveryInvariant, PTL

\* No caller is handed an attempt it had already seen
\* (compute_logical_request_key).
THEOREM AnswersAreNewer == Spec => []AnswerIsNewer
<1>1. RecoveryInv => AnswerIsNewer
  BY DEF RecoveryInv, AnswerIsNewer, CallOK
<1>. QED  BY <1>1, RecoveryInvariant, PTL

----------------------------------------------------------------------------
(* The tables implement the abstract ledger.                                *)

\* The results column of recovery_attempts, the ledger's second variable.
Column == [n \in 1..Len(attempts) |-> attempts[n].result]

\* A fresh reservation is the ledger's Reserve.
LEMMA FreshRefines == ASSUME RecoveryInv, NEW c \in Callers, reserve_fresh(c)
                      PROVE  Ledger!Reserve
<1>. DEFINE row == [step |-> call[c].step, source |-> call[c].source,
                    epoch |-> epoch + 1, result |-> "started"]
<1>1. attempts \in Seq(Attempt) /\ Len(attempts) \in Nat /\ epoch = Len(attempts)
  BY Tables DEF RecoveryInv, TypeOK
<1>2. epoch' = epoch + 1 /\ attempts' = Append(attempts, row)
  BY DEF reserve_fresh
<1>3. row.result = "started"
  OBVIOUS
<1>. HIDE DEF row
<1>4. /\ Len(attempts') = Len(attempts) + 1
      /\ \A i \in 1..Len(attempts) : attempts'[i] = attempts[i]
      /\ attempts'[Len(attempts) + 1] = row
  BY <1>1, <1>2
<1>5. [n \in 1..Len(attempts') |-> attempts'[n].result]
        = [n \in 1..epoch + 1 |-> IF n = epoch + 1 THEN "started"
                                  ELSE [i \in 1..Len(attempts) |-> attempts[i].result][n]]
  BY <1>1, <1>3, <1>4
<1>. QED  BY <1>2, <1>5 DEF Ledger!Reserve

\* Finalizing is the ledger's Complete, or changes nothing in the tables.
LEMMA FinalizeRefines ==
  ASSUME RecoveryInv, NEW c \in Callers, finalize(c)
  PROVE  Ledger!Complete \/ UNCHANGED <<epoch, attempts>>
<1>. DEFINE n == call[c].attempt
<1>1. CASE ~(~Finalized(n) /\ ops[Key(c)].status = "pending")
  BY <1>1 DEF finalize, existing, Key
<1>2. CASE ~Finalized(n) /\ ops[Key(c)].status = "pending"
  <2>1. PICK r \in Results : attempts' = [attempts EXCEPT ![n].result = r]
    BY <1>2 DEF finalize, existing, Key
  <2>2. /\ ops' = [ops EXCEPT ![Key(c)].status = "completed"] /\ epoch' = epoch
        /\ call[c].phase = "executed"
    BY <1>2 DEF finalize, existing, Key
  <2>3. /\ n \in 1..Len(attempts) /\ Len(attempts') = Len(attempts)
        /\ \A i \in 1..Len(attempts) : i # n => attempts'[i] = attempts[i]
        /\ attempts'[n].result = r
    BY <1>2, <2>1, <2>2, FinalizeTables
  <2>4. epoch = Len(attempts)
    BY Tables
  <2>. HIDE DEF n
  <2>5. [i \in 1..Len(attempts) |-> attempts[i].result][n] = "started"
    BY <1>2, <2>3 DEF Finalized
  <2>6. [i \in 1..Len(attempts') |-> attempts'[i].result]
          = [[i \in 1..Len(attempts) |-> attempts[i].result] EXCEPT ![n] = r]
    BY <2>3
  <2>. QED  BY <2>2, <2>3, <2>4, <2>5, <2>6 DEF Ledger!Complete
<1>. QED  BY <1>1, <1>2

\* The recovery tables implement AttemptLedger: one attempt per epoch, whose
\* result is written once, across racing, adopting, failing and dying callers.
THEOREM LedgerImplemented == Spec => LedgerSpec
<1>1. Init => Ledger!Init
  <2>. SUFFICES ASSUME Init PROVE Ledger!Init
    OBVIOUS
  <2>1. Len(attempts) = 0
    BY DEF Init
  <2>2. [n \in 1..Len(attempts) |-> attempts[n].result] = [n \in 1..0 |-> "started"]
    BY <2>1
  <2>. QED  BY <2>2 DEF Init, Ledger!Init
<1>2. RecoveryInv /\ [Next]_vars => [Ledger!Next]_<<epoch, Column>>
  <2>. SUFFICES ASSUME RecoveryInv, [Next]_vars
                PROVE  Ledger!Next \/ UNCHANGED <<epoch, attempts>>
    BY DEF Column
  <2>1. ASSUME NEW c \in Callers, CallStep(c)
        PROVE  Ledger!Next \/ UNCHANGED <<epoch, attempts>>
    <3>1. CASE reserve_fresh(c)
      BY <3>1, FreshRefines DEF Ledger!Next
    <3>2. CASE finalize(c)
      BY <3>2, FinalizeRefines DEF Ledger!Next
    <3>. QED  BY <2>1, <3>1, <3>2
              DEF CallStep, Request, prepare, prepare_failed, reserve_already_applied,
                  reserve_stale, reserve_authority_changed, reserve_refused,
                  reserve_adopted, run_step, execute, execute_failed, Crash
  <2>. QED  BY <2>1 DEF Next, Expire, write_authority, vars
<1>. QED  BY <1>1, <1>2, RecoveryInvariant, PTL DEF Spec, LedgerSpec, Ledger!Spec, Column

----------------------------------------------------------------------------
(* One executor per operation.                                              *)

\* An executor that has not outlived its lease.
Busy(c) == call[c].phase \in {"executing", "executed"} /\ ~call[c].late

\* The lease under which such a caller executes is live, and two of them
\* never execute under the same key.
OwnerInv ==
    /\ \A c \in Callers : Busy(c) => ~adoptable(ops[Key(c)])
    /\ \A c, d \in Callers : Busy(c) /\ Busy(d) /\ Key(c) = Key(d) => c = d

\* Nobody becomes an owner and no operation changes.
LEMMA NoNewOwner ==
  ASSUME OwnerInv, ops' = ops,
         \A c \in Callers : Busy(c)' => Busy(c) /\ Key(c)' = Key(c)
  PROVE  OwnerInv'
  BY DEF OwnerInv, adoptable

\* The caller changes its call and stays what it was, or stops being an owner.
LEMMA CallerStays ==
  ASSUME RecoveryInv, OwnerInv, NEW c \in Callers, NEW r, SetCall(c, r), ops' = ops,
         r.phase \in {"executing", "executed"} /\ ~r.late =>
            Busy(c) /\ r.source = call[c].source /\ r.verb = call[c].verb
  PROVE  OwnerInv'
<1>1. call' = [call EXCEPT ![c] = r] /\ call \in [Callers -> Call]
  BY DEF SetCall, RecoveryInv, TypeOK
<1>2. ASSUME NEW d \in Callers, Busy(d)' PROVE Busy(d) /\ Key(d)' = Key(d)
  <2>1. CASE d = c
    BY <1>1, <1>2, <2>1 DEF Busy, Key, logical_request_key
  <2>2. CASE d # c
    BY <1>1, <1>2, <2>2 DEF Busy, Key, logical_request_key
  <2>. QED  BY <2>1, <2>2
<1>. QED  BY <1>2, NoNewOwner

\* A caller that gets an answer is not an owner any more.
LEMMA AnswerLeaves ==
  ASSUME RecoveryInv, OwnerInv, NEW c \in Callers, NEW o \in Outcomes, NEW a,
         Answer(c, o, a), ops' = ops
  PROVE  OwnerInv'
<1>1. call[c] \in Call
  BY Tables
<1>2. [call[c] EXCEPT !.phase = o, !.attempt = a, !.expected = Idle.expected,
                      !.seen = Idle.seen, !.late = FALSE].phase = o
  BY <1>1 DEF Call
<1>. QED  BY <1>2, CallerStays DEF Answer, Outcomes

\* The caller becomes the owner of an operation nobody was executing.
LEMMA NewOwner ==
  ASSUME RecoveryInv, OwnerInv, NEW c \in Callers, ~Busy(c),
         NEW a \in {NoAttempt} \cup AttemptIds, Answer(c, "executing", a),
         \A d \in Callers : Busy(d) => Key(d) # Key(c),
         \A k \in Keys : k # Key(c) => ops'[k] = ops[k],
         ~adoptable(ops'[Key(c)])
  PROVE  OwnerInv'
<1>1. call \in [Callers -> Call]
  BY DEF RecoveryInv, TypeOK
<1>2. /\ call'[c].source = call[c].source /\ call'[c].verb = call[c].verb
      /\ \A d \in Callers : d # c => call'[d] = call[d]
  BY <1>1, AnswerCall DEF Phases
<1>3. \A d \in Callers : Key(d)' = Key(d) /\ Key(d) \in Keys
  BY <1>1, <1>2, KeyType DEF Key, logical_request_key
<1>4. \A d \in Callers : d # c => (Busy(d)' <=> Busy(d))
  BY <1>2 DEF Busy
<1>5. ASSUME NEW d \in Callers, Busy(d)' PROVE ~adoptable(ops[Key(d)])'
  <2>1. CASE d = c
    BY <1>3, <2>1 DEF adoptable
  <2>2. CASE d # c
    BY <1>3, <1>4, <1>5, <2>2 DEF OwnerInv, adoptable
  <2>. QED  BY <2>1, <2>2
<1>6. ASSUME NEW d \in Callers, NEW e \in Callers, Busy(d)', Busy(e)', Key(d)' = Key(e)'
      PROVE  d = e
  <2>1. CASE d = c \/ e = c
    BY <1>3, <1>4, <1>6, <2>1
  <2>2. CASE d # c /\ e # c
    BY <1>3, <1>4, <1>6, <2>2 DEF OwnerInv
  <2>. QED  BY <2>1, <2>2
<1>. QED  BY <1>5, <1>6 DEF OwnerInv

\* Ownership is preserved, whichever leases run out.
LEMMA OwnerNext ==
  ASSUME RecoveryInv, OwnerInv, [Next]_vars
  PROVE  OwnerInv'
<1>1. TypeOK /\ \A d \in Callers : CallOK(d)
  BY DEF RecoveryInv
<1>2. ASSUME NEW c \in Callers, reserve_fresh(c) PROVE OwnerInv'
  <2>1. /\ call[c].phase = "prepared" /\ ops[Key(c)].status = "none"
        /\ ops' = [ops EXCEPT ![Key(c)] =
              [status |-> "pending", step |-> call[c].step,
               attempt |-> Len(attempts) + 1, expired |-> FALSE]]
        /\ Answer(c, "executing", Len(attempts) + 1) /\ Len(attempts) < MaxAttempts
    BY <1>2 DEF reserve_fresh, existing, Key
  <2>2. Len(attempts) + 1 \in {NoAttempt} \cup AttemptIds
    BY <2>1, Tables, RecoveryAssumption DEF AttemptIds
  <2>3. \A d \in Callers : Busy(d) => Key(d) # Key(c)
    BY <1>1, <2>1 DEF Busy, CallOK
  <2>4. /\ \A k \in Keys : k # Key(c) => ops'[k] = ops[k]
        /\ ~adoptable(ops'[Key(c)])
    BY <1>1, <2>1, Tables DEF TypeOK, adoptable
  <2>. QED  BY <2>1, <2>2, <2>3, <2>4, NewOwner DEF Busy
<1>3. ASSUME NEW c \in Callers, reserve_adopted(c) PROVE OwnerInv'
  <2>1. /\ call[c].phase = "prepared" /\ adoptable(ops[Key(c)])
        /\ ops' = [ops EXCEPT ![Key(c)].expired = FALSE]
        /\ Answer(c, "executing", ops[Key(c)].attempt)
    BY <1>3 DEF reserve_adopted, existing, Key
  <2>2. ops[Key(c)].attempt \in {NoAttempt} \cup AttemptIds /\ Key(c) \in Keys
    BY Tables DEF Operation
  <2>3. \A d \in Callers : Busy(d) => Key(d) # Key(c)
    BY <2>1 DEF OwnerInv
  <2>4. /\ \A k \in Keys : k # Key(c) => ops'[k] = ops[k]
        /\ ~adoptable(ops'[Key(c)])
    BY <2>1, <2>2, LeaseMoves DEF adoptable
  <2>. QED  BY <2>1, <2>2, <2>3, <2>4, NewOwner DEF Busy
<1>4. ASSUME NEW c \in Callers, finalize(c) PROVE OwnerInv'
  <2>1. CASE ~Finalized(call[c].attempt) /\ ops[Key(c)].status = "pending"
    <3>1. /\ ops' = [ops EXCEPT ![Key(c)].status = "completed"]
          /\ Answer(c, "recovered", call[c].attempt)
      BY <1>4, <2>1 DEF finalize, existing, Key
    <3>2. Key(c) \in Keys /\ ops \in [Keys -> Operation] /\ call[c] \in Call
      BY <1>1, Tables DEF TypeOK
    <3>3. /\ \A k \in Keys : k # Key(c) => ops'[k] = ops[k]
          /\ ops'[Key(c)].status = "completed"
      BY <3>1, <3>2 DEF Operation
    <3>4. call[c].attempt \in {NoAttempt} \cup AttemptIds
      BY <3>2 DEF Call
    <3>5. /\ call'[c].phase = "recovered"
          /\ call'[c].source = call[c].source /\ call'[c].verb = call[c].verb
          /\ \A d \in Callers : d # c => call'[d] = call[d]
      BY <1>1, <3>1, <3>4, AnswerCall DEF TypeOK, Phases, Outcomes
    <3>6. \A d \in Callers : Busy(d)' => Busy(d)
      BY <3>5 DEF Busy
    <3>7. \A d \in Callers : Key(d)' = Key(d) /\ Key(d) \in Keys
      BY <1>1, <3>5, KeyType DEF Key, logical_request_key, TypeOK
    <3>. QED  BY <3>3, <3>6, <3>7 DEF OwnerInv, adoptable
  <2>2. CASE ~(~Finalized(call[c].attempt) /\ ops[Key(c)].status = "pending")
    BY <1>4, <2>2, AnswerLeaves DEF finalize, existing, Key, Outcomes
  <2>. QED  BY <2>1, <2>2
<1>5. ASSUME NEW k \in Keys, Expire(k) PROVE OwnerInv'
  <2>1. \A j \in Keys : j # k => ops'[j] = ops[j]
    BY <1>5, LeaseMoves DEF Expire
  <2>2. ASSUME NEW c \in Callers, Busy(c)' PROVE Busy(c) /\ ~Working(c, ops[k].attempt)
    BY <1>1, <1>5, <2>2, LateCalls DEF Busy
  <2>3. \A c \in Callers : Busy(c)' => Key(c) # k
    BY <1>1, <2>2 DEF Busy, Working, CallOK
  <2>4. \A c \in Callers : Key(c)' = Key(c) /\ Key(c) \in Keys
    BY <1>1, <1>5, KeyType, LateCalls DEF Key, logical_request_key, TypeOK
  <2>. QED  BY <2>1, <2>2, <2>3, <2>4 DEF OwnerInv, adoptable
<1>6. ASSUME NEW c \in Callers, NEW s \in Steps, NEW v \in Verbs, Request(c, s, v)
      PROVE  OwnerInv'
  BY <1>6, CallerStays DEF Request, Idle
<1>7. ASSUME NEW c \in Callers, prepare(c) PROVE OwnerInv'
  <2>1. PICK n : SetCall(c, [call[c] EXCEPT !.phase = "prepared", !.source = n,
                                            !.seen = authority])
    BY <1>7 DEF prepare
  <2>2. [call[c] EXCEPT !.phase = "prepared", !.source = n, !.seen = authority].phase
          = "prepared"
    BY Tables DEF Call
  <2>. QED  BY <1>7, <2>1, <2>2, CallerStays DEF prepare
<1>8. ASSUME NEW c \in Callers,
             \/ prepare_failed(c) \/ reserve_already_applied(c) \/ reserve_stale(c)
             \/ reserve_authority_changed(c) \/ reserve_refused(c) \/ execute_failed(c)
      PROVE  OwnerInv'
  <2>1. \E o \in Outcomes, a \in {NoAttempt, existing(c).attempt, call[c].attempt} :
           Answer(c, o, a) /\ ops' = ops
    BY <1>8 DEF prepare_failed, reserve_already_applied, reserve_stale,
                reserve_authority_changed, reserve_refused, execute_failed, Outcomes
  <2>. QED  BY <2>1, AnswerLeaves
<1>9. ASSUME NEW c \in Callers, execute(c) PROVE OwnerInv'
  <2>1. /\ [call[c] EXCEPT !.phase = "executed"].source = call[c].source
        /\ [call[c] EXCEPT !.phase = "executed"].verb = call[c].verb
        /\ [call[c] EXCEPT !.phase = "executed"].late = call[c].late
    BY Tables DEF Call
  <2>. QED  BY <1>9, <2>1, CallerStays DEF execute, Busy
<1>10. ASSUME NEW c \in Callers, Crash(c) PROVE OwnerInv'
  <2>1. Idle.phase = "idle"
    BY DEF Idle
  <2>. QED  BY <1>10, <2>1, CallerStays DEF Crash
<1>11. ASSUME UNCHANGED <<ops, call>> PROVE OwnerInv'
  BY <1>11, NoNewOwner DEF Busy, Key, logical_request_key
<1>12. ASSUME NEW c \in Callers, CallStep(c) PROVE OwnerInv'
  <2>1. CASE run_step(c)
    BY <1>11, <2>1 DEF run_step
  <2>. QED  BY <1>2, <1>3, <1>4, <1>6, <1>7, <1>8, <1>9, <1>10, <1>12, <2>1 DEF CallStep
<1>13. CASE write_authority \/ UNCHANGED vars
  BY <1>11, <1>13 DEF write_authority, vars
<1>. QED  BY <1>5, <1>12, <1>13 DEF Next

\* Of the callers that execute one operation at most one has not outlived
\* RECOVERY_LEASE_MINUTES, whoever crashes, races or adopts, however long
\* executions take (insert_pending, try_adopt_pending).
THEOREM OneExecutorPerLease == Spec => []OperationExclusive
<1>1. Init => OwnerInv
  <2>. SUFFICES ASSUME Init PROVE OwnerInv
    OBVIOUS
  <2>1. \A c \in Callers : ~Busy(c)
    BY DEF Init, Idle, Busy
  <2>. QED  BY <2>1 DEF OwnerInv
<1>2. RecoveryInv /\ OwnerInv /\ [Next]_vars => OwnerInv'
  BY OwnerNext
<1>3. RecoveryInv /\ OwnerInv => OperationExclusive
  <2>. SUFFICES ASSUME RecoveryInv, OwnerInv, NEW c \in Callers, NEW d \in Callers,
                       NEW n \in AttemptIds, Working(c, n), ~call[c].late, Working(d, n),
                       ~call[d].late
                PROVE  c = d
    BY DEF OperationExclusive
  <2>1. /\ Busy(c) /\ ops[Key(c)].status # "none" /\ ops[Key(c)].attempt = n
        /\ Busy(d) /\ ops[Key(d)].status # "none" /\ ops[Key(d)].attempt = n
    BY DEF RecoveryInv, CallOK, Busy, Working
  <2>2. Key(c) = Key(d)
    BY <2>1, Tables DEF RecoveryInv, LedgerConsistent
  <2>. QED  BY <2>1, <2>2 DEF OwnerInv
<1>. QED  BY <1>1, <1>2, <1>3, RecoveryInvariant, PTL DEF Spec
=============================================================================
