----------------------------- MODULE LeaseStore -----------------------------
(***************************************************************************)
(* The issue_leases table (persistence/leases.rs): one row per issue, and  *)
(* the statements that change it.  Every operator here is one SQLite       *)
(* statement, so it maps a row to the row that replaces it.                *)
(*                                                                         *)
(* A row's lease_id is minted afresh by every successful claim and is      *)
(* never used again, so the claims of an issue are numbered 1, 2, ... and  *)
(* the number is the lease id.  A run id is minted with the claim, so the  *)
(* run of claim n is called n too; NoRun is SQL's NULL.  The age of        *)
(* heartbeat_at / updated_at is one bit: `overdue' says that it lies       *)
(* beyond the stale timeout.                                               *)
(*                                                                         *)
(* The receipt of a claim (claim_metadata) is keyed by the lease id and    *)
(* follows it when the row is claimed again (ON UPDATE CASCADE), so it is  *)
(* part of the row: `cleanup' is its cleanup_pending.                      *)
(***************************************************************************)
EXTENDS Naturals

NoRun == 0
NoLease == 0

LeaseStatus == {"pending", "claimed", "running", "waiting_external",
                "ready_to_resume", "completed", "failed", "abandoned",
                "cleanup_abandoned", "stale"}

\* Mutant: a finished cleanup no longer protects its issue.
RECLAIMABLE_with_cleanup ==
    {"completed", "failed", "abandoned", "stale", "cleanup_abandoned"}

RECLAIMABLE == {"completed", "failed", "abandoned", "stale"}

is_active(s) == s \in {"claimed", "running"}

blocks_duplicate_work(s) == s \notin RECLAIMABLE

\* The row before the first claim of its issue.
AbsentRow == [lease_id |-> NoLease, status |-> "absent",
              run_id |-> NoRun, overdue |-> FALSE, cleanup |-> FALSE]

IssueLease == [lease_id : Nat, status : LeaseStatus \cup {"absent"},
               run_id : Nat, overdue : BOOLEAN, cleanup : BOOLEAN]

\* INSERT ... ON CONFLICT DO UPDATE ... WHERE status IN RECLAIMABLE.
claim_wins(row) == row.status \in RECLAIMABLE \cup {"absent"}

\* A claim that wins writes its receipt in the same transaction.
try_claim(row) ==
    IF claim_wins(row)
    THEN [lease_id |-> row.lease_id + 1, status |-> "claimed",
          run_id |-> NoRun, overdue |-> FALSE, cleanup |-> FALSE]
    ELSE row

\* The receipt of a lease id that is gone violates its foreign key: the
\* statement fails, and so does whoever issued it.
upsert_claim_metadata(row, id, pending) ==
    IF row.lease_id = id THEN [row EXCEPT !.cleanup = pending] ELSE row

\* list_pending_claim_cleanups.
cleanup_listed(row) ==
    /\ row.cleanup
    /\ row.status \in {"pending", "claimed", "completed", "failed", "abandoned", "stale"}

\* A conditional update names a lease id, the statuses it may leave, and
\* the owners it accepts: {run}, or AnyOwner when no run is expected.
AnyOwner == Nat

cas_applies(row, id, expected, owners) ==
    /\ row.lease_id = id
    /\ row.status \in expected
    /\ row.run_id \in owners

update_lease_status_conditional(row, id, status, expected, new_run, owners) ==
    IF cas_applies(row, id, expected, owners)
    THEN [row EXCEPT !.status = status,
                     !.run_id = IF new_run = NoRun THEN @ ELSE new_run,
                     !.overdue = FALSE]
    ELSE row

\* Unconditional on the status, but it still names the lease id.
update_lease_status(row, id, status) ==
    IF row.lease_id = id THEN [row EXCEPT !.status = status] ELSE row

touch_owned_running_lease_heartbeat(row, id, run) ==
    IF cas_applies(row, id, {"running"}, {run})
    THEN [row EXCEPT !.overdue = FALSE]
    ELSE row

\* Mutant: the status literal of the SQL drifts from LeaseStatus::as_str.
recover_stale_literal_drift(row) ==
    IF row.overdue /\ (is_active(row.status) \/ row.status = "ready_to_resume")
    THEN [row EXCEPT !.status = "Stale"]
    ELSE row

\* Startup recovery: mark_stale_leases, then mark_stale_ready_to_resume_leases.
recover_stale(row) ==
    IF row.overdue /\ (is_active(row.status) \/ row.status = "ready_to_resume")
    THEN [row EXCEPT !.status = "stale"]
    ELSE row
=============================================================================
