--------------------------- MODULE DaemonLifecycle ---------------------------
(***************************************************************************)
(* The scheduler daemons of luther-workflow.  Several daemon processes     *)
(* share one checkpoints.db.  Each runs passes                             *)
(*                                                                         *)
(*     reconcile claims -> poll waits -> resume -> launch -> dispatch      *)
(*                                                                         *)
(* (daemon/scheduler.rs) over the leases, run rows and wait rows of that   *)
(* database, and every engine thread it dispatches writes the same rows.   *)
(* An action is one SQLite statement or transaction together with the      *)
(* local control that follows it, so statements of different daemons and   *)
(* threads interleave freely and a process may die between any two.        *)
(*                                                                         *)
(* All issues belong to one config and one repository.  Of the remote      *)
(* claim, an assignee and a label on GitHub, the module keeps the receipts *)
(* and that every call may fail (daemon/claim.rs).  The recovery of a      *)
(* resumed run enters the engine, replays an earlier attempt or is         *)
(* refused: RecoveryProtocol.tla models which.                             *)
(***************************************************************************)
EXTENDS LeaseStore, FiniteSets, Sequences

CONSTANTS
    Daemons,        \* daemon processes sharing the database
    Issues,         \* GitHub issues the discovery config can return
    MaxClaims,      \* bound: claims of one issue
    MaxSuspensions, \* bound: external waits of one run
    MaxPolls,       \* polls of one wait before max_wait_seconds times it out
    MaxCrashes,     \* bound: process deaths
    ConfigLimit,    \* max_concurrent_runs_per_config
    GlobalLimit,    \* max_concurrent_active_runs; also the chunk size
    ResumeRefusals, \* may an external validation refuse a ready lease?
    LongSteps,      \* may a live holder go a whole stale timeout without heartbeat?
    WaitsAtNewSteps \* may a run suspend at a step it was never resumed at?

ASSUME LifecycleAssumption ==
    /\ MaxClaims \in Nat
    /\ MaxSuspensions \in Nat
    /\ MaxPolls \in Nat
    /\ MaxCrashes \in Nat
    /\ ConfigLimit \in Nat \ {0}
    /\ GlobalLimit \in Nat \ {0}
    /\ ResumeRefusals \in BOOLEAN
    /\ LongSteps \in BOOLEAN
    /\ WaitsAtNewSteps \in BOOLEAN

Claims == 1..MaxClaims

RunStatus == {"none", "running", "waiting_external", "ready_to_resume",
              "paused", "completed", "failed", "abandoned"}

TerminalRun == {"completed", "failed", "abandoned"}

Phase == {"down", "idle", "reconcile", "poll", "resume", "launch", "dispatch"}

\* What a daemon's launch or resume of one claim is doing: being claimed by
\* the scheduler, queued, running in an engine thread, returned with a
\* result, or, after a failed launch, giving up its remote claim.
Claiming == {"claimed", "cleared", "announced", "abandoning", "marked"}
Prepared == Claiming \cup {"queued"}
InThread == {"starting", "executing", "cleaning", "suspending"}
Returned == {"success", "failure", "denied", "cleanup", "suspended", "error"}
Releasing == {"launch_failed", "releasing"}
Stage == {"none"} \cup Prepared \cup InThread \cup Returned \cup Releasing

NoWait == [sid |-> 0, lease_id |-> NoLease, polls |-> 0]

VARIABLES
    lease,     \* issue_leases, one row per issue
    run,       \* runs.status of the run of each claim
    wait,      \* wait_states row of each run (sid = 0: no row)
    sids,      \* suspension ids minted for each run
    pass,      \* where each daemon is in its pass
    todo,      \* the rows its current phase listed and has not handled
    admitted,  \* the row it found capacity for and handles next
    queue,     \* dispatch units not yet spawned, in order of preparation
    chunk,     \* dispatch units spawned and not yet joined, in join order
    stage,     \* state of each daemon's unit for each claim
    crashes    \* process deaths so far

dbVars == <<lease, run, wait, sids>>
unitVars == <<queue, chunk, stage>>
vars == <<lease, run, wait, sids, pass, todo, admitted, queue, chunk, stage,
          crashes>>

Live(d, i, n) == stage[d][i][n] # "none"

SetStage(d, i, n, s) == stage' = [stage EXCEPT ![d][i][n] = s]

SetLease(i, row) == lease' = [lease EXCEPT ![i] = row]

SetRun(i, n, s) == run' = [run EXCEPT ![i][n] = s]

\* Which row an item of todo is about; `run' is 0 for an issue to launch.
Item(i, n) == [issue |-> i, run |-> n]

DispatchUnit(i, n, resume) == [issue |-> i, run |-> n, resume |-> resume]

Enqueue(d, unit) == queue' = [queue EXCEPT ![d] = Append(@, unit)]

\* Some claim of daemon d is between try_claim and its dispatch unit.
claim_open(d) == \E i \in Issues, n \in Claims : stage[d][i][n] \in Claiming

Init ==
    /\ lease = [i \in Issues |-> AbsentRow]
    /\ run = [i \in Issues |-> [n \in Claims |-> "none"]]
    /\ wait = [i \in Issues |-> [n \in Claims |-> NoWait]]
    /\ sids = [i \in Issues |-> [n \in Claims |-> 0]]
    /\ pass = [d \in Daemons |-> "down"]
    /\ todo = [d \in Daemons |-> {}]
    /\ admitted = [d \in Daemons |-> {}]
    /\ queue = [d \in Daemons |-> <<>>]
    /\ chunk = [d \in Daemons |-> <<>>]
    /\ stage = [d \in Daemons |-> [i \in Issues |-> [n \in Claims |-> "none"]]]
    /\ crashes = 0

----------------------------------------------------------------------------
(* Process start, death, and the passing of time.                           *)

\* run_daemon_discovery_loop / run_daemon_supervisor_loop: stale recovery runs
\* once, before the first pass.
Start(d) ==
    /\ pass[d] = "down"
    /\ lease' = [i \in Issues |-> recover_stale(lease[i])]
    /\ pass' = [pass EXCEPT ![d] = "idle"]
    /\ UNCHANGED <<run, wait, sids, todo, admitted, unitVars, crashes>>

\* A pass that ends in an error, and a dead process, forget their units.
DropUnits(d) ==
    /\ todo' = [todo EXCEPT ![d] = {}]
    /\ admitted' = [admitted EXCEPT ![d] = {}]
    /\ queue' = [queue EXCEPT ![d] = <<>>]
    /\ chunk' = [chunk EXCEPT ![d] = <<>>]
    /\ stage' = [stage EXCEPT ![d] = [i \in Issues |-> [n \in Claims |-> "none"]]]

\* A database error propagates to the loop, which reports it and goes on.
AbortPass(d) ==
    /\ pass' = [pass EXCEPT ![d] = "idle"]
    /\ DropUnits(d)

\* kill -9, power loss, or another daemon started with --force.
Crash(d) ==
    /\ pass[d] # "down"
    /\ crashes < MaxCrashes
    /\ crashes' = crashes + 1
    /\ pass' = [pass EXCEPT ![d] = "down"]
    /\ DropUnits(d)
    /\ UNCHANGED dbVars

\* The stale timeout goes by without a write to the row's heartbeat.
Age(i) ==
    /\ is_active(lease[i].status) \/ lease[i].status = "ready_to_resume"
    /\ ~lease[i].overdue
    /\ LongSteps \/ \A d \in Daemons : \A n \in Claims :
                        n = lease[i].lease_id => ~Live(d, i, n)
    /\ SetLease(i, [lease[i] EXCEPT !.overdue = TRUE])
    /\ UNCHANGED <<run, wait, sids, pass, todo, admitted, unitVars, crashes>>

----------------------------------------------------------------------------
(* Reconcile phase: reconcile_claim_cleanups.                               *)

\* `at' is how far the daemon has come with the item.
CleanupItem(i) == [issue |-> i, lease_id |-> lease[i].lease_id,
                   status |-> lease[i].status, at |-> "listed"]

list_pending_claim_cleanups(d) ==
    /\ pass[d] = "idle"
    /\ pass' = [pass EXCEPT ![d] = "reconcile"]
    /\ todo' = [todo EXCEPT ![d] =
           {CleanupItem(i) : i \in {j \in Issues : cleanup_listed(lease[j])}}]
    /\ UNCHANGED <<dbVars, admitted, unitVars, crashes>>

\* The items are handled one after the other.
Reconciling(d, w) ==
    /\ pass[d] = "reconcile"
    /\ w \in todo[d]
    /\ \A v \in todo[d] : v.at # "listed" => v = w

\* An interrupted claim, or one that is still being made, is withdrawn first.
withdraw_claim(d, w) ==
    /\ Reconciling(d, w)
    /\ w.at = "listed" /\ w.status = "claimed"
    /\ IF cas_applies(lease[w.issue], w.lease_id, {"claimed"}, AnyOwner)
       THEN todo' = [todo EXCEPT ![d] = (@ \ {w}) \cup {[w EXCEPT !.at = "withdrawn"]}]
       ELSE todo' = [todo EXCEPT ![d] = @ \ {w}]
    /\ SetLease(w.issue, update_lease_status_conditional(lease[w.issue], w.lease_id,
                              "pending", {"claimed"}, NoRun, AnyOwner))
    /\ UNCHANGED <<run, wait, sids, pass, admitted, unitVars, crashes>>

\* The remote claim is removed, or that fails and the next pass tries again.
\* The receipt of a lease that was claimed again meanwhile ends the pass.
reconcile_pending_cleanup(d, w) ==
    /\ Reconciling(d, w)
    /\ w.at = "withdrawn" \/ (w.at = "listed" /\ w.status # "claimed")
    /\ \/ /\ todo' = [todo EXCEPT ![d] = @ \ {w}]
          /\ UNCHANGED <<lease, pass, admitted, unitVars>>
       \/ /\ lease[w.issue].lease_id = w.lease_id
          /\ SetLease(w.issue, upsert_claim_metadata(lease[w.issue], w.lease_id, FALSE))
          /\ todo' = [todo EXCEPT ![d] = (@ \ {w}) \cup
                 IF w.status \in {"claimed", "pending"}
                 THEN {[w EXCEPT !.at = "settled"]} ELSE {}]
          /\ UNCHANGED <<pass, admitted, unitVars>>
       \/ /\ lease[w.issue].lease_id # w.lease_id
          /\ AbortPass(d)
          /\ UNCHANGED lease
    /\ UNCHANGED <<run, wait, sids, crashes>>

\* Mutant: only a claim found Pending is released, not one withdrawn just now.
release_withdrawn_claim_if_pending(d, w) ==
    /\ Reconciling(d, w)
    /\ w.at = "settled"
    /\ todo' = [todo EXCEPT ![d] = @ \ {w}]
    /\ SetLease(w.issue,
           IF w.status = "pending"
           THEN update_lease_status_conditional(lease[w.issue], w.lease_id,
                    "abandoned", {"pending"}, NoRun, AnyOwner)
           ELSE lease[w.issue])
    /\ UNCHANGED <<run, wait, sids, pass, admitted, unitVars, crashes>>

release_withdrawn_claim(d, w) ==
    /\ Reconciling(d, w)
    /\ w.at = "settled"
    /\ todo' = [todo EXCEPT ![d] = @ \ {w}]
    /\ SetLease(w.issue, update_lease_status_conditional(lease[w.issue], w.lease_id,
                              "abandoned", {"pending"}, NoRun, AnyOwner))
    /\ UNCHANGED <<run, wait, sids, pass, admitted, unitVars, crashes>>

----------------------------------------------------------------------------
(* Poll phase: daemon/scheduler/polling.rs, daemon/poller/apply.rs.         *)

\* Mutant: only a wait that was never polled is listed again.
Pollable_once(i, n) ==
    /\ wait[i][n].sid # 0
    /\ wait[i][n].polls = 0
    /\ lease[i].lease_id = wait[i][n].lease_id
    /\ lease[i].status = "waiting_external"
    /\ lease[i].run_id = n

\* list_pollable_wait_states: the wait's own lease is waiting for this run.
Pollable(i, n) ==
    /\ wait[i][n].sid # 0
    /\ lease[i].lease_id = wait[i][n].lease_id
    /\ lease[i].status = "waiting_external"
    /\ lease[i].run_id = n

PollItem(i, n) == [issue |-> i, run |-> n, row |-> wait[i][n]]

\* Of the pollable waits, those whose next_poll_at has come.
list_pollable_wait_states(d, due) ==
    /\ pass[d] = "reconcile"
    /\ todo[d] = {}
    /\ pass' = [pass EXCEPT ![d] = "poll"]
    /\ todo' = [todo EXCEPT ![d] =
           {w \in {PollItem(i, n) : i \in due, n \in Claims} : Pollable(w.issue, w.run)}]
    /\ UNCHANGED <<dbVars, admitted, unitVars, crashes>>

\* The guards of apply_ready_to_resume; a failed guard rolls the whole
\* transaction back.
ready_applies(i, n, w) ==
    /\ wait[i][n].sid = w.row.sid
    /\ run[i][n] = "waiting_external"
    /\ cas_applies(lease[i], w.row.lease_id,
                   {"waiting_external", "ready_to_resume"}, {n})

terminal_applies(i, n, w) ==
    /\ wait[i][n].sid = w.row.sid
    /\ run[i][n] = "waiting_external"
    /\ cas_applies(lease[i], w.row.lease_id,
           {"waiting_external", "ready_to_resume", "running", "claimed"}, {n})

still_waiting_applies(i, n, w) ==
    /\ run[i][n] = "waiting_external"
    /\ wait[i][n].sid = w.row.sid
    /\ wait[i][n].polls = w.row.polls
    /\ cas_applies(lease[i], w.row.lease_id, {"waiting_external"}, {n})

apply_ready_to_resume(i, n, w) ==
    /\ ready_applies(i, n, w)
    /\ wait' = [wait EXCEPT ![i][n] = NoWait]
    /\ SetRun(i, n, "ready_to_resume")
    /\ SetLease(i, update_lease_status_conditional(lease[i], w.row.lease_id,
           "ready_to_resume", {"waiting_external", "ready_to_resume"}, NoRun, {n}))

apply_terminal_failure(i, n, w) ==
    /\ terminal_applies(i, n, w)
    /\ wait' = [wait EXCEPT ![i][n] = NoWait]
    /\ SetRun(i, n, "failed")
    /\ SetLease(i, update_lease_status_conditional(lease[i], w.row.lease_id, "failed",
           {"waiting_external", "ready_to_resume", "running", "claimed"}, NoRun, {n}))

\* A wait that was polled MaxPolls times has reached max_wait_seconds and is
\* classified TimedOut instead.
apply_still_waiting(i, n, w) ==
    /\ w.row.polls < MaxPolls
    /\ still_waiting_applies(i, n, w)
    /\ wait' = [wait EXCEPT ![i][n].polls = @ + 1]
    /\ SetLease(i, update_lease_status_conditional(lease[i], w.row.lease_id,
           "waiting_external", {"waiting_external"}, NoRun, {n}))
    /\ UNCHANGED run

\* One of the guards fails: recorded as a skipped poll.
skipped_poll(i, n, w) ==
    /\ \/ ~ready_applies(i, n, w)
       \/ ~terminal_applies(i, n, w)
       \/ w.row.polls < MaxPolls /\ ~still_waiting_applies(i, n, w)
    /\ UNCHANGED <<lease, run, wait>>

\* poll_due_waits: the decision of the external poller, then the transaction.
ApplyPoll(d, w) ==
    /\ pass[d] = "poll"
    /\ w \in todo[d]
    /\ \/ apply_ready_to_resume(w.issue, w.run, w)
       \/ apply_terminal_failure(w.issue, w.run, w)
       \/ apply_still_waiting(w.issue, w.run, w)
       \/ skipped_poll(w.issue, w.run, w)
    /\ todo' = [todo EXCEPT ![d] = @ \ {w}]
    /\ UNCHANGED <<sids, pass, admitted, unitVars, crashes>>

----------------------------------------------------------------------------
(* Resume phase: collect_resume_units, prepare_resume_lease.                *)

Active == {i \in Issues : is_active(lease[i].status)}

\* has_capacity: three counts over issue_leases, read before the claim.
has_capacity == /\ Cardinality(Active) < GlobalLimit
                /\ Cardinality(Active) < ConfigLimit

list_ready_to_resume_leases(d) ==
    /\ pass[d] = "poll"
    /\ todo[d] = {}
    /\ pass' = [pass EXCEPT ![d] = "resume"]
    /\ todo' = [todo EXCEPT ![d] =
           {Item(i, lease[i].run_id) : i \in
                {j \in Issues : lease[j].status = "ready_to_resume"}}]
    /\ UNCHANGED <<dbVars, admitted, unitVars, crashes>>

\* The next listed row, in the resume or the launch phase, has capacity ...
Admit(d, w) ==
    /\ pass[d] \in {"resume", "launch"}
    /\ w \in todo[d]
    /\ admitted[d] = {}
    /\ ~claim_open(d)
    /\ has_capacity
    /\ admitted' = [admitted EXCEPT ![d] = {w}]
    /\ UNCHANGED <<dbVars, pass, todo, unitVars, crashes>>

\* ... or is skipped, for want of it or because an external validation (the
\* workspace, the provenance, the route) refuses it.
Skip(d, w) ==
    /\ pass[d] \in {"resume", "launch"}
    /\ w \in todo[d]
    /\ \/ admitted[d] = {} /\ ~has_capacity
       \/ admitted[d] = {w} /\ pass[d] = "resume" /\ ResumeRefusals
    /\ todo' = [todo EXCEPT ![d] = @ \ {w}]
    /\ admitted' = [admitted EXCEPT ![d] = {}]
    /\ UNCHANGED <<dbVars, pass, unitVars, crashes>>

\* validate_resume_read_only, then acquire_resume_lease: the exact-owner CAS.
\* Validation refuses a run whose status is not resumable.
resumable(s) == s \in {"ready_to_resume", "waiting_external", "paused", "failed"}

\* Mutant: the CAS expects the status the wait left behind, not the ready one.
prepare_resume_lease_wrong_expectation(d, w) ==
    LET i == w.issue  n == w.run IN
    /\ pass[d] = "resume"
    /\ admitted[d] = {w}
    /\ todo' = [todo EXCEPT ![d] = @ \ {w}]
    /\ admitted' = [admitted EXCEPT ![d] = {}]
    /\ IF resumable(run[i][n])
             /\ cas_applies(lease[i], n, {"waiting_external"}, {n})
       THEN /\ SetLease(i, update_lease_status_conditional(lease[i], n, "running",
                                {"waiting_external"}, n, {n}))
            /\ SetStage(d, i, n, "queued")
            /\ Enqueue(d, DispatchUnit(i, n, TRUE))
       ELSE UNCHANGED <<lease, stage, queue>>
    /\ UNCHANGED <<run, wait, sids, pass, chunk, crashes>>

prepare_resume_lease(d, w) ==
    LET i == w.issue  n == w.run IN
    /\ pass[d] = "resume"
    /\ admitted[d] = {w}
    /\ todo' = [todo EXCEPT ![d] = @ \ {w}]
    /\ admitted' = [admitted EXCEPT ![d] = {}]
    /\ IF resumable(run[i][n])
             /\ cas_applies(lease[i], n, {"ready_to_resume"}, {n})
       THEN /\ SetLease(i, update_lease_status_conditional(lease[i], n, "running",
                                {"ready_to_resume"}, n, {n}))
            /\ SetStage(d, i, n, "queued")
            /\ Enqueue(d, DispatchUnit(i, n, TRUE))
       ELSE UNCHANGED <<lease, stage, queue>>
    /\ UNCHANGED <<run, wait, sids, pass, chunk, crashes>>

----------------------------------------------------------------------------
(* Launch phase: discover, claim_for_launch_pending, prepare_launch_unit.   *)

\* Any of the claimable issues may be filtered out by its labels, its route,
\* an open pull request; the rest is cut at the config's free slots.
discover(d) ==
    /\ pass[d] = "resume"
    /\ todo[d] = {}
    /\ pass' = [pass EXCEPT ![d] = "launch"]
    /\ \E eligible \in SUBSET {i \in Issues : /\ claim_wins(lease[i])
                                              /\ lease[i].lease_id < MaxClaims} :
          /\ Cardinality(eligible) + Cardinality(Active) <= ConfigLimit \/ eligible = {}
          /\ todo' = [todo EXCEPT ![d] = {Item(i, NoRun) : i \in eligible}]
    /\ UNCHANGED <<dbVars, admitted, unitVars, crashes>>

\* acquire_lease_with_receipt.
claim_for_launch(d, w) ==
    LET i == w.issue  n == lease[i].lease_id + 1 IN
    /\ pass[d] = "launch"
    /\ admitted[d] = {w}
    /\ n <= MaxClaims
    /\ todo' = [todo EXCEPT ![d] = @ \ {w}]
    /\ admitted' = [admitted EXCEPT ![d] = {}]
    /\ SetLease(i, try_claim(lease[i]))
    /\ IF claim_wins(lease[i]) THEN SetStage(d, i, n, "claimed") ELSE UNCHANGED stage
    /\ UNCHANGED <<run, wait, sids, pass, queue, chunk, crashes>>

\* MaxClaims is a bound of the model: the issue is not claimed again.
claim_bound(d, w) ==
    /\ pass[d] = "launch"
    /\ admitted[d] = {w}
    /\ lease[w.issue].lease_id >= MaxClaims
    /\ todo' = [todo EXCEPT ![d] = @ \ {w}]
    /\ admitted' = [admitted EXCEPT ![d] = {}]
    /\ UNCHANGED <<dbVars, pass, unitVars, crashes>>

\* Mutant: the claim is trusted, nothing is counted again after it.
recheck_capacity_skipped(d, i, n) ==
    /\ stage[d][i][n] = "claimed"
    /\ SetStage(d, i, n, "cleared")
    /\ UNCHANGED <<lease, run, wait, sids, pass, todo, admitted, queue, chunk, crashes>>

\* The count after the claim: over the config's limit, the claim is given up.
\* A run directory that cannot be derived gives it up too.
recheck_capacity(d, i, n) ==
    /\ stage[d][i][n] = "claimed"
    /\ \/ /\ Cardinality(Active) <= ConfigLimit
          /\ SetStage(d, i, n, "cleared")
          /\ UNCHANGED lease
       \/ /\ SetLease(i, update_lease_status(lease[i], n, "abandoned"))
          /\ SetStage(d, i, n, "none")
    /\ UNCHANGED <<run, wait, sids, pass, todo, admitted, queue, chunk, crashes>>

\* persist_claim_ownership: the receipt says that a remote claim may be left
\* behind, before it is made.
announce_claim(d, i, n) ==
    /\ stage[d][i][n] = "cleared"
    /\ SetLease(i, upsert_claim_metadata(lease[i], n, TRUE))
    /\ IF lease[i].lease_id = n
       THEN SetStage(d, i, n, "announced") /\ UNCHANGED <<pass, todo, admitted, queue, chunk>>
       ELSE AbortPass(d)
    /\ UNCHANGED <<run, wait, sids, crashes>>

\* Mutant: the claimant takes its lease back after startup recovery staled it.
mark_running_revives_stale(d, i, n) ==
    /\ stage[d][i][n] = "announced"
    /\ cas_applies(lease[i], n, {"claimed", "stale"}, AnyOwner)
    /\ SetLease(i, update_lease_status_conditional(lease[i], n, "running",
                        {"claimed", "stale"}, n, AnyOwner))
    /\ SetStage(d, i, n, "marked")
    /\ UNCHANGED <<run, wait, sids, pass, todo, admitted, queue, chunk, crashes>>

\* The remote claim is made and verified: the CAS Claimed -> Running.
mark_running(d, i, n) ==
    /\ stage[d][i][n] = "announced"
    /\ cas_applies(lease[i], n, {"claimed"}, AnyOwner)
    /\ SetLease(i, update_lease_status_conditional(lease[i], n, "running",
                        {"claimed"}, n, AnyOwner))
    /\ SetStage(d, i, n, "marked")
    /\ UNCHANGED <<run, wait, sids, pass, todo, admitted, queue, chunk, crashes>>

\* The claim stands: its receipt is settled and its unit queued.
settle_claim(d, i, n) ==
    /\ stage[d][i][n] = "marked"
    /\ SetLease(i, upsert_claim_metadata(lease[i], n, FALSE))
    /\ IF lease[i].lease_id = n
       THEN /\ SetStage(d, i, n, "queued")
            /\ Enqueue(d, DispatchUnit(i, n, FALSE))
            /\ UNCHANGED <<pass, todo, admitted, chunk>>
       ELSE AbortPass(d)
    /\ UNCHANGED <<run, wait, sids, crashes>>

\* A call of the remote claim failed, or the CAS was refused.  What was done
\* on GitHub is undone; the receipt says whether that worked.
abandon_failed_claim(d, i, n) ==
    /\ stage[d][i][n] \in {"cleared", "announced"}
    /\ \E cleanup_pending \in BOOLEAN :
          SetLease(i, upsert_claim_metadata(lease[i], n, cleanup_pending))
    /\ IF lease[i].lease_id = n
       THEN SetStage(d, i, n, "abandoning") /\ UNCHANGED <<pass, todo, admitted, queue, chunk>>
       ELSE AbortPass(d)
    /\ UNCHANGED <<run, wait, sids, crashes>>

abandon_lease(d, i, n) ==
    /\ stage[d][i][n] = "abandoning"
    /\ SetLease(i, update_lease_status_conditional(lease[i], n, "abandoned",
                        {"claimed", "pending"}, n, AnyOwner))
    /\ SetStage(d, i, n, "none")
    /\ UNCHANGED <<run, wait, sids, pass, todo, admitted, queue, chunk, crashes>>

----------------------------------------------------------------------------
(* Dispatch phase: daemon/scheduler/dispatch.rs.                            *)

begin_dispatch(d) ==
    /\ pass[d] = "launch"
    /\ todo[d] = {}
    /\ ~claim_open(d)
    /\ pass' = [pass EXCEPT ![d] = "dispatch"]
    /\ UNCHANGED <<dbVars, todo, admitted, unitVars, crashes>>

Least(a, b) == IF a < b THEN a ELSE b

\* The next chunk: one thread per unit, all joined before the next chunk.
dispatch_unit_chunk(d) ==
    LET k == Least(Len(queue[d]), GlobalLimit)
        spawned == {Item(queue[d][j].issue, queue[d][j].run) : j \in 1..k}
    IN  /\ pass[d] = "dispatch"
        /\ chunk[d] = <<>>
        /\ queue[d] # <<>>
        /\ chunk' = [chunk EXCEPT ![d] = SubSeq(queue[d], 1, k)]
        /\ queue' = [queue EXCEPT ![d] = SubSeq(queue[d], k + 1, Len(queue[d]))]
        /\ stage' = [stage EXCEPT ![d] =
               [i \in Issues |-> [n \in Claims |->
                   IF Item(i, n) \in spawned THEN "starting" ELSE stage[d][i][n]]]]
        /\ UNCHANGED <<dbVars, pass, todo, admitted, crashes>>

end_pass(d) ==
    /\ pass[d] = "dispatch"
    /\ queue[d] = <<>>
    /\ chunk[d] = <<>>
    /\ pass' = [pass EXCEPT ![d] = "idle"]
    /\ UNCHANGED <<dbVars, todo, admitted, unitVars, crashes>>

----------------------------------------------------------------------------
(* The engine thread of a unit: app/daemon_run.rs and the engine runner.    *)

\* A launch writes its run row and mark_run_started; a resume enters the loop
\* through run_from_current_step, which leaves the status as the poller set
\* it.  Neither looks at the lease first.
start_run(d, i, n) ==
    /\ stage[d][i][n] = "starting"
    /\ SetRun(i, n, IF run[i][n] = "none" THEN "running" ELSE run[i][n])
    /\ SetStage(d, i, n, "executing")
    /\ UNCHANGED <<lease, wait, sids, pass, todo, admitted, queue, chunk, crashes>>

\* map_daemon_recovery_outcome of AlreadyApplied: a resume at a step that was
\* never resumed finds the operation of the run's first resume, and hands on
\* that attempt's result, the wait it ended in, without executing anything.
replay_recovery(d, i, n) ==
    /\ WaitsAtNewSteps
    /\ stage[d][i][n] = "starting"
    /\ run[i][n] # "none"
    /\ sids[i][n] >= 2
    /\ SetStage(d, i, n, "suspending")
    /\ UNCHANGED <<dbVars, pass, todo, admitted, queue, chunk, crashes>>

\* heartbeat_owned_lease, at the start of every step.
heartbeat_owned_lease(d, i, n) ==
    /\ stage[d][i][n] = "executing"
    /\ lease[i].overdue
    /\ SetLease(i, touch_owned_running_lease_heartbeat(lease[i], lease[i].lease_id, n))
    /\ UNCHANGED <<run, wait, sids, pass, todo, admitted, unitVars, crashes>>

\* record_run_completion, and the result run_daemon_runner makes of it.
finish_run(d, i, n) ==
    /\ stage[d][i][n] = "executing"
    /\ \E o \in {<<"completed", "success">>, <<"failed", "failure">>,
                 <<"abandoned", "failure">>, <<"paused", "failure">>} :
          /\ SetRun(i, n, o[1])
          /\ SetStage(d, i, n, o[2])
    /\ UNCHANGED <<lease, wait, sids, pass, todo, admitted, queue, chunk, crashes>>

\* A step failed into the failure_cleanup step: the lease is protected in the
\* transaction that records it, or the engine stops with an error.
enter_cleanup(d, i, n) ==
    /\ stage[d][i][n] = "executing"
    /\ IF cas_applies(lease[i], lease[i].lease_id, {"running", "cleanup_abandoned"}, {n})
       THEN SetStage(d, i, n, "cleaning")
       ELSE SetStage(d, i, n, "error")
    /\ SetLease(i, update_lease_status_conditional(lease[i], lease[i].lease_id,
           "cleanup_abandoned", {"running", "cleanup_abandoned"}, NoRun, {n}))
    /\ UNCHANGED <<run, wait, sids, pass, todo, admitted, queue, chunk, crashes>>

\* The cleanup step ends: Abandoned when it succeeded, else Failed.
finish_cleanup(d, i, n) ==
    /\ stage[d][i][n] = "cleaning"
    /\ IF cas_applies(lease[i], lease[i].lease_id, {"running", "cleanup_abandoned"}, {n})
       THEN /\ SetStage(d, i, n, "cleanup")
            /\ \E s \in {"abandoned", "failed"} : SetRun(i, n, s)
       ELSE SetStage(d, i, n, "error") /\ UNCHANGED run
    /\ SetLease(i, update_lease_status_conditional(lease[i], lease[i].lease_id,
           "cleanup_abandoned", {"running", "cleanup_abandoned"}, NoRun, {n}))
    /\ UNCHANGED <<wait, sids, pass, todo, admitted, queue, chunk, crashes>>

\* persist_terminal_ownership_failure: the workspace is not the run's, so the
\* run fails and takes its lease with it, in one transaction.
deny_ownership(d, i, n) ==
    /\ stage[d][i][n] = "executing"
    /\ SetRun(i, n, "failed")
    /\ SetLease(i, update_lease_status_conditional(lease[i], lease[i].lease_id,
           "failed", {"running"}, NoRun, {n}))
    /\ SetStage(d, i, n, "denied")
    /\ UNCHANGED <<wait, sids, pass, todo, admitted, queue, chunk, crashes>>

\* pause_for_external_wait: the run row goes first ...
pause_for_external_wait(d, i, n) ==
    /\ stage[d][i][n] = "executing"
    /\ sids[i][n] < MaxSuspensions
    /\ SetRun(i, n, "waiting_external")
    /\ SetStage(d, i, n, "suspending")
    /\ UNCHANGED <<lease, wait, sids, pass, todo, admitted, queue, chunk, crashes>>

\* Mutant: the lease is moved with the wait row, while the thread still lives.
persist_external_wait_state_eager(d, i, n) ==
    /\ stage[d][i][n] = "suspending"
    /\ wait' = [wait EXCEPT ![i][n] =
           [sid |-> sids[i][n] + 1, lease_id |-> lease[i].lease_id, polls |-> 0]]
    /\ sids' = [sids EXCEPT ![i][n] = @ + 1]
    /\ SetLease(i, update_lease_status_conditional(lease[i], n, "waiting_external",
                        {"running"}, n, {n}))
    /\ SetStage(d, i, n, "suspended")
    /\ UNCHANGED <<run, pass, todo, admitted, queue, chunk, crashes>>

\* ... then persist_external_wait_state writes the wait row, naming whatever
\* lease the issue has now.  The lease itself changes only when the thread is
\* joined.  A row that is still there keeps its suspension id.
persist_external_wait_state(d, i, n) ==
    /\ stage[d][i][n] = "suspending"
    /\ LET fresh == wait[i][n].sid = 0 IN
       /\ wait' = [wait EXCEPT ![i][n] =
              [sid |-> IF fresh THEN sids[i][n] + 1 ELSE @.sid,
               lease_id |-> lease[i].lease_id,
               polls |-> @.polls]]
       /\ sids' = [sids EXCEPT ![i][n] = IF fresh THEN @ + 1 ELSE @]
    /\ SetStage(d, i, n, "suspended")
    /\ UNCHANGED <<lease, run, pass, todo, admitted, queue, chunk, crashes>>

\* A refused recovery, a persistence error or a panic: the thread returns Err.
thread_error(d, i, n) ==
    /\ stage[d][i][n] \in InThread
    /\ SetStage(d, i, n, "error")
    /\ UNCHANGED <<dbVars, pass, todo, admitted, queue, chunk, crashes>>

----------------------------------------------------------------------------
(* Joining a thread: daemon/launcher/lease_finalization.rs.                 *)

has_pollable_external_wait(i, n) ==
    /\ run[i][n] = "waiting_external"
    /\ Pollable(i, n)

\* Mutant: an Err result is taken for a suspension without looking for its row.
finish_lease_error_as_wait(i, n, result) ==
    LET row == lease[i]
        status == CASE result = "success" -> "completed"
                    [] result \in {"failure", "denied"} -> "failed"
                    [] result = "cleanup" -> "cleanup_abandoned"
                    [] result \in {"suspended", "error"} -> "waiting_external"
    IN  update_lease_status_conditional(row, n, status, {"running", status}, n, {n})

\* Mutant: an Err result is logged and the lease forgotten.
finish_lease_error_forgotten(i, n, result) ==
    LET row == lease[i]
        status == CASE result = "success" -> "completed"
                    [] result \in {"failure", "denied"} -> "failed"
                    [] result = "cleanup" -> "cleanup_abandoned"
                    [] result = "suspended" -> "waiting_external"
    IN  IF result = "error" THEN row
        ELSE update_lease_status_conditional(row, n, status, {"running", status}, n, {n})

\* finish_lease_after_result: every arm is one conditional update by the lease
\* id of the unit, and all of them name the run as the expected owner.
finish_lease_after_result(i, n, result) ==
    LET row == lease[i] IN
    CASE result = "success" ->
           update_lease_status_conditional(row, n, "completed", {"running"}, n, {n})
      [] result \in {"failure", "denied"} ->
           update_lease_status_conditional(row, n, "failed", {"running"}, n, {n})
      [] result = "cleanup" ->
           update_lease_status_conditional(row, n, "cleanup_abandoned",
                                {"running", "cleanup_abandoned"}, n, {n})
      [] result = "suspended" ->
           update_lease_status_conditional(row, n, "waiting_external",
                                {"running", "waiting_external"}, n, {n})
      [] result = "error" ->
           update_lease_status_conditional(row, n,
               IF has_pollable_external_wait(i, n) THEN "waiting_external" ELSE "failed",
               {"running", "waiting_external"}, n, {n})

\* An ownership denial must find its lease Running, or Failed and still its
\* own; anything else is an error, and the pass ends after this chunk.
denial_error(i, n) ==
    /\ ~cas_applies(lease[i], n, {"running"}, {n})
    /\ ~(lease[i].lease_id = n /\ lease[i].status = "failed" /\ lease[i].run_id = n)

\* The outcome Launched { success: false }: the lease was finished as failed.
launch_failed(i, n, result) ==
    \/ result = "failure" /\ cas_applies(lease[i], n, {"running"}, {n})
    \/ result = "denied" /\ ~denial_error(i, n)
    \/ /\ result = "cleanup"
       /\ cas_applies(lease[i], n, {"running", "cleanup_abandoned"}, {n})
    \/ /\ result = "error"
       /\ ~has_pollable_external_wait(i, n)
       /\ cas_applies(lease[i], n, {"running", "waiting_external"}, {n})

\* The head of the chunk is done with.  An error lets the rest of the chunk be
\* joined and then ends the pass: the units still queued are forgotten.
Retire(d, fails) ==
    LET u == Head(chunk[d]) IN
    /\ chunk' = [chunk EXCEPT ![d] = Tail(@)]
    /\ queue' = [queue EXCEPT ![d] = IF fails THEN <<>> ELSE @]
    /\ stage' = [stage EXCEPT ![d] =
           [j \in Issues |-> [m \in Claims |->
               IF \/ j = u.issue /\ m = u.run
                  \/ fails /\ stage[d][j][m] = "queued"
               THEN "none" ELSE stage[d][j][m]]]]

\* Threads are joined in the order they were spawned.  A failed launch, unlike
\* a failed resume, still has its remote claim to give up.
join_unit(d) ==
    LET u == Head(chunk[d])
        i == u.issue
        n == u.run
        result == stage[d][i][n]
    IN  /\ chunk[d] # <<>>
        /\ result \in Returned
        /\ SetLease(i, finish_lease_after_result(i, n, result))
        /\ IF ~u.resume /\ launch_failed(i, n, result)
           THEN SetStage(d, i, n, "launch_failed") /\ UNCHANGED <<queue, chunk>>
           ELSE Retire(d, result = "denied" /\ denial_error(i, n))
        /\ UNCHANGED <<run, wait, sids, pass, todo, admitted, crashes>>

\* finalize_claim_after_outcome: the receipt is read and marked.  A lease that
\* was claimed again has no receipt to read, or none to write.
mark_claim_cleanup(d) ==
    LET u == Head(chunk[d])
        i == u.issue
        n == u.run
    IN  /\ chunk[d] # <<>>
        /\ stage[d][i][n] = "launch_failed"
        /\ SetLease(i, upsert_claim_metadata(lease[i], n, TRUE))
        /\ IF lease[i].lease_id = n
           THEN SetStage(d, i, n, "releasing") /\ UNCHANGED <<queue, chunk>>
           ELSE \E fails \in BOOLEAN : Retire(d, fails)
        /\ UNCHANGED <<run, wait, sids, pass, todo, admitted, crashes>>

\* The remote claim is removed and the receipt settled, or it stays marked.
settle_claim_cleanup(d) ==
    LET u == Head(chunk[d])
        i == u.issue
        n == u.run
    IN  /\ chunk[d] # <<>>
        /\ stage[d][i][n] = "releasing"
        /\ \/ UNCHANGED lease /\ Retire(d, FALSE)
           \/ /\ SetLease(i, upsert_claim_metadata(lease[i], n, FALSE))
              /\ Retire(d, lease[i].lease_id # n)
        /\ UNCHANGED <<run, wait, sids, pass, todo, admitted, crashes>>

----------------------------------------------------------------------------

ThreadStep(d, i, n) ==
    \/ start_run(d, i, n)
    \/ replay_recovery(d, i, n)
    \/ heartbeat_owned_lease(d, i, n)
    \/ finish_run(d, i, n)
    \/ enter_cleanup(d, i, n)
    \/ finish_cleanup(d, i, n)
    \/ deny_ownership(d, i, n)
    \/ pause_for_external_wait(d, i, n)
    \/ persist_external_wait_state(d, i, n)
    \/ thread_error(d, i, n)

ItemStep(d, w) ==
    \/ withdraw_claim(d, w)
    \/ reconcile_pending_cleanup(d, w)
    \/ release_withdrawn_claim(d, w)
    \/ ApplyPoll(d, w)
    \/ Admit(d, w)
    \/ Skip(d, w)
    \/ prepare_resume_lease(d, w)
    \/ claim_for_launch(d, w)
    \/ claim_bound(d, w)

ClaimStep(d, i, n) ==
    \/ recheck_capacity(d, i, n)
    \/ announce_claim(d, i, n)
    \/ mark_running(d, i, n)
    \/ settle_claim(d, i, n)
    \/ abandon_failed_claim(d, i, n)
    \/ abandon_lease(d, i, n)

PassStep(d) ==
    \/ list_pending_claim_cleanups(d)
    \/ \E due \in SUBSET Issues : list_pollable_wait_states(d, due)
    \/ list_ready_to_resume_leases(d)
    \/ discover(d)
    \/ begin_dispatch(d)
    \/ dispatch_unit_chunk(d)
    \/ end_pass(d)
    \/ join_unit(d)
    \/ mark_claim_cleanup(d)
    \/ settle_claim_cleanup(d)

DaemonStep(d) ==
    \/ PassStep(d)
    \/ \E w \in todo[d] : ItemStep(d, w)
    \/ \E i \in Issues, n \in Claims : ClaimStep(d, i, n) \/ ThreadStep(d, i, n)

Next ==
    \/ \E d \in Daemons : DaemonStep(d) \/ Start(d) \/ Crash(d)
    \/ \E i \in Issues : Age(i)

Spec == Init /\ [][Next]_vars

----------------------------------------------------------------------------
(* Properties.                                                              *)

ItemType == [issue : Issues, run : {NoRun} \cup Claims]

PollItemType == [issue : Issues, run : Claims, row : [sid : Nat, lease_id : Nat, polls : Nat]]

CleanupItemType == [issue : Issues, lease_id : Nat, status : LeaseStatus \cup {"absent"},
                    at : {"listed", "withdrawn", "settled"}]

Unit == [issue : Issues, run : Claims, resume : BOOLEAN]

\* The type of the database rows and of every daemon's local state.
TypeOK ==
    /\ lease \in [Issues -> IssueLease]
    /\ run \in [Issues -> [Claims -> RunStatus]]
    /\ wait \in [Issues -> [Claims -> [sid : Nat, lease_id : Nat, polls : Nat]]]
    /\ sids \in [Issues -> [Claims -> Nat]]
    /\ pass \in [Daemons -> Phase]
    /\ todo \in [Daemons -> SUBSET (ItemType \cup PollItemType \cup CleanupItemType)]
    /\ admitted \in [Daemons -> SUBSET ItemType]
    /\ queue \in [Daemons -> Seq(Unit)]
    /\ chunk \in [Daemons -> Seq(Unit)]
    /\ stage \in [Daemons -> [Issues -> [Claims -> Stage]]]
    /\ crashes \in Nat

\* Of all the daemons that share the database, at most one holds a unit for a
\* given claim, from its preparation to the join: a run is never executed by
\* two processes, whatever was suspended, polled, resumed or marked stale in
\* between (prepare_resume_lease's and prepare_launch_unit's CAS).
SingleExecutor ==
    \A i \in Issues, n \in Claims, d1, d2 \in Daemons :
        Live(d1, i, n) /\ Live(d2, i, n) => d1 = d2

\* Two engine threads never work on the same issue: what try_claim's comment
\* calls the concurrency guarantee of the lease table.
IssueExclusive ==
    \A i \in Issues, n1, n2 \in Claims, d1, d2 \in Daemons :
        stage[d1][i][n1] \in InThread /\ stage[d2][i][n2] \in InThread
            => d1 = d2 /\ n1 = n2

\* The run whose resume was answered with the wait of its first one: its row
\* still says what the poller wrote, and every poll of its wait rolls back.
replayed(i, n) == run[i][n] = "ready_to_resume" /\ sids[i][n] >= 2

\* A lease in WaitingExternal is listed by the next pass: its run's wait row
\* names it, and the run is waiting, so a poll may consume the wait.  The one
\* exception is a run that replay_recovery answered.  Otherwise the lease,
\* which unlike an active one is never marked stale, would block its issue for
\* good.  A lease in ReadyToResume belongs to a run that may resume.
LeaseAgreesWithRun ==
    \A i \in Issues, n \in Claims : n = lease[i].lease_id =>
        /\ lease[i].status = "waiting_external" =>
               Pollable(i, n) /\ (run[i][n] = "waiting_external" \/ replayed(i, n))
        /\ lease[i].status = "ready_to_resume" =>
               lease[i].run_id = n /\ run[i][n] = "ready_to_resume"

\* What a unit does from the moment its lease runs until its thread returns.
AtWork == {"marked", "queued"} \cup InThread

Protecting == {"running", "cleanup_abandoned"}

\* Whoever claims, polls, resumes, reconciles or joins: the lease of a unit at
\* work goes on protecting its issue, unless a startup finds its heartbeat
\* overdue and marks it stale.  So two engine threads come to work on one issue
\* in no other way (try_claim and every conditional update).
WorkingLeaseKept ==
    [][\A d \in Daemons, i \in Issues, n \in Claims :
          /\ stage[d][i][n] \in AtWork /\ stage'[d][i][n] \in AtWork
          /\ lease[i].lease_id = n /\ lease[i].status \in Protecting
          => /\ lease'[i].lease_id = n
             /\ \/ lease'[i].status \in Protecting
                \/ lease[i].overdue /\ lease'[i].status = "stale"]_vars

Running(i, n) == lease[i].lease_id = n /\ lease[i].status = "running"

Held(i, n) == \E d \in Daemons : Live(d, i, n)

\* Another claim of the same pass lost its lease to a second process, and the
\* error this is to its claimant or its join ended the pass.
ErrorElsewhere(i, n) ==
    \E d \in Daemons, j \in Issues \ {i}, m \in Claims :
        /\ Live(d, i, n) /\ Live(d, j, m) /\ ~Live(d, j, m)'
        /\ lease[j].lease_id # m \/ lease[j].status = "stale"

\* A lease is left Running without a unit in two ways only: its process dies,
\* or the pass that prepared it ends in the error of another issue's claim,
\* which drops the units it had not spawned.  Nothing that happens to the claim
\* itself, to its thread or to its join does so ("a Running lease is never an
\* acceptable terminal state", finish_lease_after_result).
RunningLeaseHeld ==
    [][\A i \in Issues, n \in Claims : Running(i, n)' =>
          \/ Held(i, n)'
          \/ Running(i, n) /\ ~Held(i, n)
          \/ crashes' # crashes
          \/ ErrorElsewhere(i, n)]_vars

\* While no process dies, a Pending lease, which neither startup recovery nor a
\* claim may take over, is still to be reconciled: its receipt says so, or a process is about to
\* abandon it ("reconciles interrupted claim and makes issue reclaimable").
PendingIsListed ==
    crashes = 0 => \A i \in Issues : lease[i].status = "pending" =>
        \/ lease[i].cleanup
        \/ \E d \in Daemons :
              \/ /\ pass[d] = "reconcile"
                 /\ \E w \in todo[d] : /\ w.issue = i /\ w.at = "settled"
                                        /\ w.lease_id = lease[i].lease_id
              \/ stage[d][i][lease[i].lease_id] = "abandoning"

\* Launches alone never exceed the config's limit, however they interleave with
\* each other and with resumes: the count before a claim is stale by the time of
\* the claim, the recheck after it makes up for that.  (Resumes are not counted
\* again, so together with resumed runs the limit may be exceeded.)
LaunchCapacity ==
    Cardinality({i \in Issues : /\ lease[i].status = "running"
                                /\ sids[i][lease[i].lease_id] = 0}) <= ConfigLimit

\* No step of any actor moves a lease backwards: a claim's lease runs, waits,
\* becomes ready, runs again; once terminal or stale it never protects the
\* issue again, except under the new id of a new claim.  A run that reached a
\* terminal status keeps it, whatever a late poll, a second resume or a
\* launcher that lost its lease decides.
LeaseMoves ==
    {<<"claimed", "running">>, <<"claimed", "abandoned">>, <<"claimed", "stale">>,
     <<"claimed", "pending">>, <<"pending", "abandoned">>, <<"stale", "abandoned">>,
     <<"running", "completed">>, <<"running", "failed">>, <<"running", "stale">>,
     <<"running", "waiting_external">>, <<"running", "cleanup_abandoned">>,
     <<"waiting_external", "ready_to_resume">>, <<"waiting_external", "failed">>,
     <<"ready_to_resume", "running">>, <<"ready_to_resume", "stale">>}

LeaseMovesForward ==
    [][\A i \in Issues :
          /\ \/ lease'[i].status = lease[i].status /\ lease'[i].lease_id = lease[i].lease_id
             \/ /\ lease'[i].lease_id = lease[i].lease_id
                /\ <<lease[i].status, lease'[i].status>> \in LeaseMoves
             \/ /\ lease'[i].lease_id = lease[i].lease_id + 1
                /\ claim_wins(lease[i]) /\ lease'[i].status = "claimed"
          /\ \A n \in Claims : run[i][n] \in TerminalRun => run'[i][n] = run[i][n]]_vars

\* Weak fairness of every process: the threads of a chunk run concurrently and
\* the daemon loop has no other exit than a shutdown.  Time passes (Age), a
\* wait falls due again and again, and a service manager restarts a dead daemon.
Fairness ==
    /\ \A d \in Daemons :
          /\ WF_vars(Start(d))
          /\ WF_vars(PassStep(d))
          /\ WF_vars(\E w \in todo[d] : ItemStep(d, w))
          /\ \A i \in Issues, n \in Claims :
                WF_vars(ClaimStep(d, i, n)) /\ WF_vars(ThreadStep(d, i, n))
    /\ \A i \in Issues :
          /\ WF_vars(Age(i))
          /\ SF_vars(\E d \in Daemons, due \in SUBSET Issues :
                        i \in due /\ list_pollable_wait_states(d, due))

FairSpec == Spec /\ Fairness

\* A wait row, once written, is polled until it is ready, terminal or timed
\* out, and then consumed: the run that suspended is neither forgotten nor
\* left waiting for good.
CommittedWaitResolves ==
    \A i \in Issues, n \in Claims : wait[i][n].sid # 0 ~> wait[i][n].sid = 0

\* A lease that became ready is picked up by some daemon's resume phase, and
\* an active lease is eventually released or suspended.
ReadyRunsAndEnds ==
    \A i \in Issues :
        /\ lease[i].status = "ready_to_resume" ~> lease[i].status # "ready_to_resume"
        /\ is_active(lease[i].status) ~> ~is_active(lease[i].status)
=============================================================================
