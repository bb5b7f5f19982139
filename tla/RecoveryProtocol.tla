--------------------------- MODULE RecoveryProtocol ---------------------------
(***************************************************************************)
(* RecoveryProtocolV1 (engine/recovery/protocol): how a suspended or       *)
(* failed run is executed again.  A call runs                              *)
(*                                                                         *)
(*     prepare -> reserve -> execute -> finalize                           *)
(*                                                                         *)
(* Prepare only reads; reserve and finalize are one IMMEDIATE transaction  *)
(* each; the engine runs between them, outside any transaction.  Callers   *)
(* are daemons, operators (`runs resume / retry / rewind') and parent      *)
(* workflows, in processes of their own: everything may happen between two *)
(* phases of a call, and a caller may die there.                           *)
(*                                                                         *)
(* The module is about one run, whose rows no other run shares.  Its       *)
(* execution capsule is immutable (persistence/capsule_store.rs), so the   *)
(* digest every operation is compared with is always the same one.  The    *)
(* protocol never finalizes an operation as refused or conflicting.        *)
(***************************************************************************)
EXTENDS Naturals, Sequences, FiniteSets

CONSTANTS
    Callers,        \* processes that may recover the run
    Steps,          \* steps of its workflow
    Verbs,          \* operator verbs: resume, retry, rewind
    Results,        \* how the engine can end: the durable runner results
    Snapshots,      \* values of the authority snapshot: run row, checkpoint,
                    \* wait row and lease, which reserve compares as a whole
    MaxAttempts     \* bound: recoveries of the run

ASSUME RecoveryAssumption ==
    /\ Steps # {} /\ Verbs # {}
    /\ Snapshots # {}
    /\ MaxAttempts \in Nat
    /\ "started" \notin Results

NoAttempt == 0
AttemptIds == 1..MaxAttempts

\* compute_logical_request_key: the run, the source attempt and the verb.
Keys == [source : {NoAttempt} \cup AttemptIds, verb : Verbs]

NoOperation == [status |-> "none", step |-> CHOOSE s \in Steps : TRUE,
                attempt |-> NoAttempt, expired |-> FALSE]

VARIABLES
    epoch,      \* recovery_epoch
    attempts,   \* recovery_attempts, by attempt id
    ops,        \* recovery_operations, by logical_request_key (UNIQUE)
    authority,  \* the rows of the authority snapshot
    cursor,     \* step of the newest checkpoint
    call        \* what each caller is doing

vars == <<epoch, attempts, ops, authority, cursor, call>>

Outcomes == {"recovered", "already_applied", "stale_epoch", "refused", "error"}
Phases == {"idle", "requested", "prepared", "executing", "executed"} \cup Outcomes

\* RecoveryRequest, PreparedRecovery, ReservedRecovery and, in the end, the
\* outcome of one call.  `late' is history: the lease that the call executes
\* under has run out.  The code does not look at it again.
Idle == [phase |-> "idle", step |-> CHOOSE s \in Steps : TRUE,
         verb |-> CHOOSE v \in Verbs : TRUE, expected |-> 0, source |-> NoAttempt,
         seen |-> CHOOSE a \in Snapshots : TRUE, attempt |-> NoAttempt, late |-> FALSE]

Init ==
    /\ epoch = 0
    /\ attempts = <<>>
    /\ ops = [k \in Keys |-> NoOperation]
    /\ authority \in Snapshots
    /\ cursor \in Steps
    /\ call = [c \in Callers |-> Idle]

SetCall(c, r) == call' = [call EXCEPT ![c] = r]

\* Reserve has decided.  What it compared, the epoch and the snapshot, is not
\* looked at again.
Answer(c, outcome, attempt) ==
    SetCall(c, [call[c] EXCEPT !.phase = outcome, !.attempt = attempt,
                               !.expected = Idle.expected, !.seen = Idle.seen,
                               !.late = FALSE])

----------------------------------------------------------------------------
(* The phases of a call.                                                    *)

\* The caller picks the step, the newest checkpoint's unless it rewinds, and
\* reads the epoch.  Nothing tells it that another recovery is under way: a
\* recovering run keeps its resumable status (run_from_current_step).
Request(c, step, verb) ==
    /\ call[c].phase \in {"idle"} \cup Outcomes
    /\ step = cursor \/ verb = "rewind"
    /\ SetCall(c, [Idle EXCEPT !.phase = "requested", !.step = step, !.verb = verb,
                               !.expected = epoch])
    /\ UNCHANGED <<epoch, attempts, ops, authority, cursor>>

Finalized(n) == attempts[n].result # "started"

\* n is the newest finalized attempt of the step; NoAttempt when there is none.
latest_for_step(step, n) ==
    LET found == {m \in 1..Len(attempts) : attempts[m].step = step /\ Finalized(m)}
    IN  n \in (IF found = {} THEN {NoAttempt} ELSE found) /\ \A m \in found : m <= n

\* Capsule, policy and workspace are verified; the source attempt and the
\* authority snapshot are captured.
prepare(c) ==
    /\ call[c].phase = "requested"
    /\ \E n \in 0..Len(attempts) :
          /\ latest_for_step(call[c].step, n)
          /\ SetCall(c, [call[c] EXCEPT !.phase = "prepared", !.source = n,
                                        !.seen = authority])
    /\ UNCHANGED <<epoch, attempts, ops, authority, cursor>>

\* The capsule does not verify, or workspace evidence is missing or foreign.
prepare_failed(c) ==
    /\ call[c].phase = "requested"
    /\ Answer(c, "error", NoAttempt)
    /\ UNCHANGED <<epoch, attempts, ops, authority, cursor>>

\* Mutant: the key forgets which attempt the caller saw.
logical_request_key_by_verb(c) == [source |-> NoAttempt, verb |-> call[c].verb]

logical_request_key(c) == [source |-> call[c].source, verb |-> call[c].verb]

existing(c) == ops[logical_request_key(c)]

\* Mutant: a pending operation is adopted whoever owns it.
adoptable_always(op) == op.status = "pending"

\* try_adopt_pending: the owner's lease is over.
adoptable(op) == op.status = "pending" /\ op.expired

\* resolve_completed, and resolve_pending while the lease is live.  Of the
\* bindings only the capsule digest is compared.
reserve_already_applied(c) ==
    /\ call[c].phase = "prepared"
    /\ existing(c).status # "none"
    /\ ~adoptable(existing(c))
    /\ Answer(c, "already_applied", existing(c).attempt)
    /\ UNCHANGED <<epoch, attempts, ops, authority, cursor>>

\* Nothing found, or an expired operation adopted in this transaction.
unresolved(c) == existing(c).status = "none" \/ adoptable(existing(c))

\* revalidate_epoch.
reserve_stale(c) ==
    /\ call[c].phase = "prepared"
    /\ unresolved(c)
    /\ call[c].expected # epoch
    /\ Answer(c, "stale_epoch", NoAttempt)
    /\ UNCHANGED <<epoch, attempts, ops, authority, cursor>>

\* revalidate_authority_snapshot.
reserve_authority_changed(c) ==
    /\ call[c].phase = "prepared"
    /\ unresolved(c)
    /\ call[c].expected = epoch
    /\ call[c].seen # authority
    /\ Answer(c, "error", NoAttempt)
    /\ UNCHANGED <<epoch, attempts, ops, authority, cursor>>

current(c) == call[c].expected = epoch /\ call[c].seen = authority

\* The strategy refuses, or the workspace marker has changed hands.
reserve_refused(c) ==
    /\ call[c].phase = "prepared"
    /\ unresolved(c)
    /\ current(c)
    /\ \E outcome \in {"refused", "error"} : Answer(c, outcome, NoAttempt)
    /\ UNCHANGED <<epoch, attempts, ops, authority, cursor>>

\* The CAS of the epoch, record_attempt_start and insert_pending.
reserve_fresh(c) ==
    /\ call[c].phase = "prepared"
    /\ existing(c).status = "none"
    /\ current(c)
    /\ Len(attempts) < MaxAttempts
    /\ epoch' = epoch + 1
    /\ attempts' = Append(attempts, [step |-> call[c].step, source |-> call[c].source,
                                     epoch |-> epoch + 1, result |-> "started"])
    /\ ops' = [ops EXCEPT ![logical_request_key(c)] =
           [status |-> "pending", step |-> call[c].step,
            attempt |-> Len(attempts) + 1, expired |-> FALSE]]
    /\ Answer(c, "executing", Len(attempts) + 1)
    /\ UNCHANGED <<authority, cursor>>

\* Mutant: the adopter claims an epoch of its own for the attempt it adopts.
reserve_adopted_with_cas(c) ==
    /\ call[c].phase = "prepared"
    /\ adoptable(existing(c))
    /\ current(c)
    /\ epoch' = epoch + 1
    /\ ops' = [ops EXCEPT ![logical_request_key(c)].expired = FALSE]
    /\ Answer(c, "executing", existing(c).attempt)
    /\ UNCHANGED <<attempts, authority, cursor>>

\* AdoptedPending: a new owner and lease for the same operation and attempt.
\* The step executed is the one requested now, not the one recorded then.
reserve_adopted(c) ==
    /\ call[c].phase = "prepared"
    /\ adoptable(existing(c))
    /\ current(c)
    /\ ops' = [ops EXCEPT ![logical_request_key(c)].expired = FALSE]
    /\ Answer(c, "executing", existing(c).attempt)
    /\ UNCHANGED <<epoch, attempts, authority, cursor>>

\* The engine works: it writes checkpoints, the current step, heartbeats.
run_step(c) ==
    /\ call[c].phase = "executing"
    /\ \E s \in Steps, a \in Snapshots \ {authority} : cursor' = s /\ authority' = a
    /\ UNCHANGED <<epoch, attempts, ops, call>>

\* RecoveryExecutor::execute returns a runner result ...
execute(c) ==
    /\ call[c].phase = "executing"
    /\ SetCall(c, [call[c] EXCEPT !.phase = "executed"])
    /\ UNCHANGED <<epoch, attempts, ops, authority, cursor>>

\* ... or an engine error, which leaves the operation pending.
execute_failed(c) ==
    /\ call[c].phase = "executing"
    /\ Answer(c, "error", call[c].attempt)
    /\ UNCHANGED <<epoch, attempts, ops, authority, cursor>>

\* Mutant: the attempt is written, its operation is left pending.
finalize_attempt_only(c) ==
    /\ call[c].phase = "executed"
    /\ ~Finalized(call[c].attempt)
    /\ \E r \in Results :
          attempts' = [attempts EXCEPT ![call[c].attempt].result = r]
    /\ Answer(c, "recovered", call[c].attempt)
    /\ UNCHANGED <<epoch, ops, authority, cursor>>

\* Mutant: neither update asks whether the attempt still has no outcome.
finalize_unguarded(c) ==
    /\ call[c].phase = "executed"
    /\ \E r \in Results :
          attempts' = [attempts EXCEPT ![call[c].attempt].result = r]
    /\ ops' = [ops EXCEPT ![logical_request_key(c)].status = "completed"]
    /\ Answer(c, "recovered", call[c].attempt)
    /\ UNCHANGED <<epoch, authority, cursor>>

\* append_attempt_outcome and finalize_completed; if either guard fails the
\* transaction is rolled back and the call returns an error.
finalize(c) ==
    /\ call[c].phase = "executed"
    /\ IF ~Finalized(call[c].attempt) /\ existing(c).status = "pending"
       THEN /\ \E r \in Results :
                  attempts' = [attempts EXCEPT ![call[c].attempt].result = r]
            /\ ops' = [ops EXCEPT ![logical_request_key(c)].status = "completed"]
            /\ Answer(c, "recovered", call[c].attempt)
       ELSE /\ Answer(c, "error", call[c].attempt)
            /\ UNCHANGED <<attempts, ops>>
    /\ UNCHANGED <<epoch, authority, cursor>>

----------------------------------------------------------------------------
(* The rest of the system.                                                  *)

\* The poller, the launcher or an engine of another process writes a row of
\* the snapshot.
write_authority ==
    /\ \E s \in Steps, a \in Snapshots \ {authority} : cursor' = s /\ authority' = a
    /\ UNCHANGED <<epoch, attempts, ops, call>>

\* The caller's process dies.
Crash(c) ==
    /\ call[c].phase \in {"requested", "prepared", "executing", "executed"}
    /\ SetCall(c, Idle)
    /\ UNCHANGED <<epoch, attempts, ops, authority, cursor>>

Working(c, n) == call[c].phase \in {"executing", "executed"} /\ call[c].attempt = n

\* RECOVERY_LEASE_MINUTES go by; nobody renews the lease of an operation, and
\* an engine run may well take longer.
Expire(k) ==
    /\ ops[k].status = "pending"
    /\ ~ops[k].expired
    /\ ops' = [ops EXCEPT ![k].expired = TRUE]
    /\ call' = [c \in Callers |-> IF Working(c, ops[k].attempt)
                                  THEN [call[c] EXCEPT !.late = TRUE] ELSE call[c]]
    /\ UNCHANGED <<epoch, attempts, authority, cursor>>

CallStep(c) ==
    \/ \E s \in Steps, v \in Verbs : Request(c, s, v)
    \/ prepare(c)
    \/ prepare_failed(c)
    \/ reserve_already_applied(c)
    \/ reserve_stale(c)
    \/ reserve_authority_changed(c)
    \/ reserve_refused(c)
    \/ reserve_fresh(c)
    \/ reserve_adopted(c)
    \/ run_step(c)
    \/ execute(c)
    \/ execute_failed(c)
    \/ finalize(c)
    \/ Crash(c)

Next ==
    \/ \E c \in Callers : CallStep(c)
    \/ \E k \in Keys : Expire(k)
    \/ write_authority

Spec == Init /\ [][Next]_vars

----------------------------------------------------------------------------
(* Properties.                                                              *)

Attempt == [step : Steps, source : {NoAttempt} \cup AttemptIds, epoch : AttemptIds,
            result : Results \cup {"started"}]

Operation == [status : {"none", "pending", "completed"}, step : Steps,
              attempt : {NoAttempt} \cup AttemptIds, expired : BOOLEAN]

Call == [phase : Phases, step : Steps, verb : Verbs, expected : Nat,
         source : {NoAttempt} \cup AttemptIds, seen : Snapshots,
         attempt : {NoAttempt} \cup AttemptIds, late : BOOLEAN]

\* The type of the recovery tables and of every call.
TypeOK ==
    /\ epoch \in Nat
    /\ attempts \in Seq(Attempt)
    /\ Len(attempts) <= MaxAttempts
    /\ ops \in [Keys -> Operation]
    /\ authority \in Snapshots
    /\ cursor \in Steps
    /\ call \in [Callers -> Call]

\* Every epoch was claimed by exactly one reservation: however calls race,
\* adopt, fail and die, the n-th attempt holds epoch n (cas_advance_epoch,
\* and no second CAS when an operation is adopted).
EpochNamesAttempt ==
    /\ epoch = Len(attempts)
    /\ \A n \in 1..Len(attempts) : attempts[n].epoch = n

\* The two tables agree: an operation is completed exactly when its attempt is
\* finalized, no attempt belongs to two operations, and none to no operation.
LedgerConsistent ==
    /\ \A k \in Keys : ops[k].status # "none" =>
          /\ ops[k].attempt \in 1..Len(attempts)
          /\ ops[k].status = "completed" <=> Finalized(ops[k].attempt)
    /\ \A k1, k2 \in Keys :
          ops[k1].status # "none" /\ ops[k2].status # "none"
              /\ ops[k1].attempt = ops[k2].attempt => k1 = k2
    /\ \A n \in 1..Len(attempts) :
          \E k \in Keys : ops[k].status # "none" /\ ops[k].attempt = n

\* A call is never answered with an attempt the caller already knew: what it
\* gets, executed or replayed, is newer than the source attempt it prepared
\* from (logical_request_key binds the source attempt).
AnswerIsNewer ==
    \A c \in Callers :
        call[c].phase \in {"recovered", "already_applied"} => call[c].attempt > call[c].source

\* However calls race, adopt and die, of the processes that execute one
\* operation at most one has not outlived the lease it was given: a second
\* process joins in only when the first has overrun its five minutes
\* (insert_pending, try_adopt_pending).  What insert_pending's comment says,
\* "exactly one process may execute", holds of the leases and not of the engine
\* runs, which nothing stops when their lease is adopted.
OperationExclusive ==
    \A c1, c2 \in Callers, n \in AttemptIds :
        /\ Working(c1, n) /\ ~call[c1].late
        /\ Working(c2, n) /\ ~call[c2].late
        => c1 = c2

\* The recovery tables implement the abstract ledger: epochs grow by one, with
\* one attempt each, whose result is written once, also when two processes
\* execute the attempt (append_attempt_outcome's and finalize_completed's guards).
Ledger == INSTANCE AttemptLedger WITH
    results <- [n \in 1..Len(attempts) |-> attempts[n].result]

LedgerSpec == Ledger!Spec
=============================================================================
