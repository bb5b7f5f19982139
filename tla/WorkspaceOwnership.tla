------------------------- MODULE WorkspaceOwnership -------------------------
(***************************************************************************)
(* Who owns a workspace directory.                                         *)
(*                                                                         *)
(* Several runs may be configured with one workspace path.  A directory    *)
(* belongs to the run whose id is in its bootstrap record                  *)
(* (.luther/workspace-owner) or in its durable record                      *)
(* (.git/luther/workspace-owner).  A launch publishes the bootstrap record,*)
(* the graph verifies it, initialises Git, publishes the Git configuration *)
(* and promotes the record to the durable one; a resume verifies before it *)
(* promotes; `runs migrate-legacy-ownership` gives a record to a run that  *)
(* predates them.  Publication is a temporary file, a link that never      *)
(* replaces, and the removal of the temporary file.  Processes die between *)
(* any two of these steps, and the path can come to name another           *)
(* directory, no directory, or a symbolic link at any moment; so can the   *)
(* configuration file come to hold another version, which the digests of   *)
(* the launch are compared with at a resume.                               *)
(*                                                                         *)
(* A directory is an inode: descriptors and authorizations hold inodes,    *)
(* the path names one of them.                                             *)
(***************************************************************************)
EXTENDS WorkflowConfig, FiniteSets

CONSTANTS
    Procs,       \* the processes: launches, resumes and migrations
    run_of,      \* the run a process acts for
    DaemonRuns,  \* runs launched by the daemon, the others by a parent run
    Legacy,      \* runs recorded before ownership records existed
    Files,       \* versions of the configuration file, by name
    FirstVersion, \* the version that is there at first
    Requests,    \* the launch request of each run
    MaxDirs,     \* directories the path ever names
    MaxDeaths,   \* processes that die
    MaxChanges   \* changes from outside

ASSUME OwnershipAssumption ==
    /\ \A p \in Procs : run_of[p] \in STRING \ {"no run", "malformed"}
    /\ FirstVersion \in DOMAIN Files /\ "none" \notin DOMAIN Files
    /\ MaxDirs \in Nat \ {0} /\ MaxDeaths \in Nat /\ MaxChanges \in Nat

VARIABLES
    path,    \* the directory the workspace path names, NoDir if none
    linked,  \* the last component of the path is a symbolic link
    dirs,    \* the directories, by inode
    used,    \* how many inodes were ever created
    proc,    \* the processes: program counter, descriptor, authorization
    mig,     \* rows of legacy_ownership_migrations
    prov,    \* launch provenance of the run rows: the version launched
    step,    \* the graph step a resume of the run continues at
    disk,    \* the version of the configuration file
    moved,   \* the path was replaced at some time
    cleaned, \* how bootstrap records were cleaned: "none", "quietly", "racing"
    deaths, changes

vars == <<path, linked, dirs, used, proc, mig, prov, step, disk, moved, cleaned, deaths,
          changes>>

NoDir == 0
NoRun == "no run"
Malformed == "malformed"    \* empty, oversized, not a regular file, unreadable
Runs == {run_of[p] : p \in Procs}
Inodes == 1 .. MaxDirs
Marks == Runs \cup {NoRun, Malformed}
Places == {"luther", "git"}

\* A directory: both records, the temporary files beside them, what .git is,
\* whose configuration is in it, other content, and the run that created it.
Blank == [luther |-> NoRun, git |-> NoRun, temps |-> {}, repo |-> "none",
          config |-> NoRun, files |-> FALSE, creator |-> NoRun]

GraphSteps == {"verify", "init", "config", "promote", "work"}
Idle == [pc |-> "off", fd |-> NoDir, auth |-> NoDir, created |-> FALSE,
         place |-> "luther", then |-> "off", version |-> "none"]

-----------------------------------------------------------------------------
(* Reading the records                                                     *)

\* A record that is present and is not exactly this run's id is rejected.
classify_opened_marker(mark, r) ==
    IF mark = NoRun THEN "absent" ELSE IF mark = r THEN "trusted" ELSE "rejected"

snapshot_bootstrap_marker(i, r) == classify_opened_marker(dirs[i].luther, r)

\* Without a .git directory there is no durable record.
snapshot_durable_marker(i, r) ==
    IF dirs[i].repo = "none" THEN "absent" ELSE classify_opened_marker(dirs[i].git, r)

\* A .git that is a file or a symbolic link could redirect the record.
validate_durable_directory(i) == dirs[i].repo # "other"

reject_symlinked_workspace_root == linked

\* A record found by path is accepted when it is a regular file with this id.
inspect_existing_marker(i, r) == dirs[i].luther = r

\* The anchor is one open of the path whose inode is the one seen before.
WorkspaceAnchor_open(i) == i = path /\ path # NoDir /\ ~reject_symlinked_workspace_root

verify_anchored(i, r) ==
    /\ validate_durable_directory(i)
    /\ "rejected" \notin {snapshot_bootstrap_marker(i, r), snapshot_durable_marker(i, r)}
    /\ "trusted" \in {snapshot_bootstrap_marker(i, r), snapshot_durable_marker(i, r)}

\* The verdict on the directory the path names now.
adjudicate_workspace_ownership(r) ==
    IF path = NoDir \/ reject_symlinked_workspace_root THEN "rejected"
    ELSE IF verify_anchored(path, r) THEN "owned"
    ELSE IF /\ validate_durable_directory(path)
            /\ snapshot_bootstrap_marker(path, r) = "absent"
            /\ snapshot_durable_marker(path, r) = "absent" THEN "no_evidence"
    ELSE "rejected"

verify_workspace_ownership(r) == adjudicate_workspace_ownership(r) = "owned"

\* Anything where a record could be, a .git of the wrong kind included.
anchored_evidence_exists(i) ==
    \/ dirs[i].luther # NoRun
    \/ dirs[i].repo = "other"
    \/ dirs[i].repo = "repo" /\ dirs[i].git # NoRun

workspace_ownership_evidence_exists == path # NoDir /\ anchored_evidence_exists(path)

\* The device and inode behind a descriptor.
FileIdentity(i) == i

\* Mutant: any open workspace will do.
descriptor_matches_any(i, auth) == auth # NoDir

descriptor_matches_authorization(i, auth) == FileIdentity(i) = auth

-----------------------------------------------------------------------------
(* Steps of a process                                                      *)

r_(p) == run_of[p]

At(p, pc) == proc[p].pc = pc

Goto(p, pc) == proc' = [proc EXCEPT ![p].pc = pc]

\* The process gives up: descriptors and the authorization die with it.
Deny(p) == proc' = [proc EXCEPT ![p] = Idle]

Quiet == UNCHANGED <<path, linked, used, mig, prov, disk, moved, cleaned, deaths, changes>>

\* The checkpoint follows the graph step the run is about to execute.
Enter(p, s) ==
    /\ proc' = [proc EXCEPT ![p].pc = s, ![p].fd = NoDir]
    /\ step' = [step EXCEPT ![r_(p)] = s]

-----------------------------------------------------------------------------
(* Publication of a record through a descriptor                            *)

MyTemp(p, full) == [by |-> r_(p), full |-> full, live |-> TRUE, place |-> proc[p].place]

Fd(p) == dirs[proc[p].fd]

\* The descriptor opened once is the one everything is written through.
PublishThrough(p, i, place, then) ==
    proc' = [proc EXCEPT ![p].pc = "temp", ![p].fd = i, ![p].place = place, ![p].then = then]

\* The temporary file is created with O_EXCL ...
create_marker_temp(p) ==
    /\ At(p, "temp")
    /\ dirs' = [dirs EXCEPT ![proc[p].fd].temps = @ \cup {MyTemp(p, FALSE)}]
    /\ Goto(p, "write")
    /\ Quiet /\ UNCHANGED step

\* ... written and synced ...
write_and_sync_temp(p) ==
    /\ At(p, "write")
    /\ dirs' = [dirs EXCEPT ![proc[p].fd].temps =
                    (@ \ {MyTemp(p, FALSE)}) \cup {MyTemp(p, TRUE)}]
    /\ Goto(p, "link")
    /\ Quiet /\ UNCHANGED step

\* Mutant: the temporary file is renamed over the record.
link_replacing(d, place, r) == [d EXCEPT ![place] = r]

\* ... and linked to the final name, which fails when the name exists.
linkat(d, place, r) == IF d[place] = NoRun THEN [d EXCEPT ![place] = r] ELSE d

link_temp_to_final(p) ==
    /\ At(p, "link")
    /\ dirs' = [dirs EXCEPT ![proc[p].fd] = linkat(@, proc[p].place, r_(p))]
    /\ Goto(p, IF Fd(p)[proc[p].place] = NoRun THEN "linked" ELSE "exists")
    /\ Quiet /\ UNCHANGED step

\* The link is made: the temporary name goes, the record is read back.
publish_marker_relative(p) ==
    /\ At(p, "linked")
    /\ dirs' = [dirs EXCEPT ![proc[p].fd].temps = @ \ {MyTemp(p, TRUE)}]
    /\ Goto(p, proc[p].then)
    /\ Quiet /\ UNCHANGED step

\* The name existed.  A launch looks at the record by path and accepts its
\* own; a promotion accepts a durable record with the same bytes; a migration
\* reports the error.
publication_lost(p) ==
    /\ At(p, "exists")
    /\ dirs' = [dirs EXCEPT ![proc[p].fd].temps = @ \ {MyTemp(p, TRUE)}]
    /\ IF proc[p].then = "complete" THEN Deny(p)
       ELSE IF proc[p].place = "git"
            THEN IF Fd(p).git = r_(p) THEN Goto(p, proc[p].then) ELSE Deny(p)
       ELSE IF path # NoDir /\ dirs[path].luther # NoRun
            THEN IF inspect_existing_marker(path, r_(p)) THEN Goto(p, proc[p].then) ELSE Deny(p)
       ELSE Goto(p, "create")
    /\ Quiet /\ UNCHANGED step

\* promote_via_anchor: the bootstrap bytes read through the descriptor are
\* this run's, and .git is a directory.
read_bootstrap_bytes(i) == dirs[i].luther

open_git_directory_relative(i) == dirs[i].repo = "repo"

promotable(i, r) == read_bootstrap_bytes(i) = r /\ open_git_directory_relative(i)

Promote(p, i, then) ==
    IF promotable(i, r_(p))
    THEN PublishThrough(p, i, "git", then) ELSE Deny(p)

-----------------------------------------------------------------------------
(* Provisioning at launch                                                  *)

\* What the loader makes of each version: {} or {configuration}.
Loaded == [v \in DOMAIN Files |-> resolve_and_validate_workflow_config(Files[v])]

\* The configuration a launch of r runs with.
Launch(r, c) ==
    IF r \in DaemonRuns THEN launch_daemon_workflow(c, Requests[r])
    ELSE apply_child_overrides(c, Requests[r])

\* The configurations the two checks of a daemon resume, or that of a child
\* resume, reconstruct from the file and the row.
Reconstruct(r, c, md) ==
    IF r \in DaemonRuns
    THEN {resume_config(c, md, Requests[r]), resolve_daemon_resume_workflow(c, md, Requests[r])}
    ELSE {apply_child_overrides(c, Requests[r])}

\* A resume of r from version w agrees with its launch from version v.
DigestsAgree ==
    [r \in DOMAIN Requests, v \in DOMAIN Files, w \in DOMAIN Files |->
       \E c \in Loaded[v], d \in Loaded[w] :
          LET launched == Launch(r, c)
              md == build_run_context(launched, r)
          IN  /\ \A again \in Reconstruct(r, d, md) :
                     compute_config_digest(again) = compute_config_digest(launched)
              /\ IF r \in DaemonRuns
                 THEN /\ validate_resume_identity_against_metadata(md, Requests[r])
                      /\ resolve_resume_workspace_path(md, Requests[r])
                 ELSE /\ validate_child_resume_identity(md, Requests[r])
                      /\ validate_child_resume_artifact(md, Requests[r])]

\* The file loads and takes the overrides of the run.
resolved(r) ==
    \E c \in Loaded[disk] :
        apply_overrides_ok(c, launch_overrides(Requests[r])) /\ compute_config_digest_ok(c)

\* The row records the digests of what was launched: the version stands for them.
from_resolved(r, version) == [prov EXCEPT ![r] = version]

\* The daemon inserts the run row first, a parent run after provisioning.
launch(p) ==
    /\ At(p, "off")
    /\ r_(p) \notin Legacy /\ prov[r_(p)] = "none"
    /\ resolved(r_(p))
    /\ prov' = IF r_(p) \in DaemonRuns THEN from_resolved(r_(p), disk) ELSE prov
    /\ proc' = [proc EXCEPT ![p].pc = "provision", ![p].then = "provisioned",
                            ![p].version = disk]
    /\ UNCHANGED <<path, linked, dirs, used, mig, step, disk, moved, cleaned, deaths, changes>>

\* A path with a .git only ever has its record verified and promoted.
provision_workspace_ownership(p) ==
    /\ At(p, "provision")
    /\ Goto(p, IF path # NoDir /\ dirs[path].repo # "none" THEN "ensure" ELSE "create")
    /\ Quiet /\ UNCHANGED <<dirs, step>>

\* create_dir tells who made the directory: this launch or another.
bootstrap_workspace_creation(p) ==
    /\ At(p, "create")
    /\ UNCHANGED <<linked, mig, prov, step, disk, moved, cleaned, deaths, changes>>
    /\ \/ /\ reject_symlinked_workspace_root
          /\ Deny(p) /\ UNCHANGED <<path, dirs, used>>
       \/ /\ ~reject_symlinked_workspace_root /\ path # NoDir
          /\ proc' = [proc EXCEPT ![p].pc = "claim", ![p].created = FALSE]
          /\ UNCHANGED <<path, dirs, used>>
       \/ /\ ~reject_symlinked_workspace_root /\ path = NoDir /\ used < MaxDirs
          /\ used' = used + 1 /\ path' = used + 1
          /\ dirs' = [dirs EXCEPT ![used + 1] = [Blank EXCEPT !.creator = r_(p)]]
          /\ proc' = [proc EXCEPT ![p].pc = "claim", ![p].created = TRUE]

\* A temporary file whose writer died before the write reads as empty.
read_marker_bounded(t) == IF t.full THEN t.by ELSE Malformed

\* .luther holds nothing but completely written temporary files of this run.
luther_dir_is_claimable(i, r) ==
    /\ dirs[i].temps # {}
    /\ \A t \in dirs[i].temps : read_marker_bounded(t) = r

\* ... and it is the only entry of the directory.
workspace_has_interrupted_publication_evidence(i, r) ==
    /\ ~dirs[i].files /\ dirs[i].repo = "none" /\ dirs[i].luther = NoRun
    /\ luther_dir_is_claimable(i, r)

\* A record decides; without one only a directory this launch created, or one
\* an interrupted publication of this run left, may be claimed.  Everything
\* else is tried again, up to 100 times.
claim(p) ==
    /\ At(p, "claim")
    /\ IF path = NoDir THEN Goto(p, "create")
       ELSE IF linked THEN Deny(p)
       ELSE IF dirs[path].luther # NoRun
            THEN IF inspect_existing_marker(path, r_(p)) THEN Goto(p, "provisioned") ELSE Deny(p)
       ELSE IF proc[p].created \/ workspace_has_interrupted_publication_evidence(path, r_(p))
            THEN Goto(p, "open")
       ELSE \/ Goto(p, "create")
            \/ Deny(p)
    /\ Quiet /\ UNCHANGED <<dirs, step>>

\* The anchor is opened from the path after the claim was judged.
open_for_publication(p) ==
    /\ At(p, "open")
    /\ IF path = NoDir THEN Goto(p, "create")
       ELSE IF ~WorkspaceAnchor_open(path) THEN Deny(p)
       ELSE PublishThrough(p, path, "luther", "provisioned")
    /\ Quiet /\ UNCHANGED <<dirs, step>>

\* The run starts at its first graph step, a child's row is inserted now.
provisioned(p) ==
    /\ At(p, "provisioned")
    /\ proc' = [proc EXCEPT ![p].pc = "verify", ![p].fd = NoDir, ![p].version = "none"]
    /\ step' = [step EXCEPT ![r_(p)] = "verify"]
    /\ prov' = from_resolved(r_(p), proc[p].version)
    /\ UNCHANGED <<path, linked, dirs, used, mig, disk, moved, cleaned, deaths, changes>>

-----------------------------------------------------------------------------
(* The ownership steps of the graph                                        *)

\* workspace_ownership_verify records the inode it verified, once.
WorkspaceOwnershipVerifyExecutor(p) ==
    /\ At(p, "verify")
    /\ LET verdict == adjudicate_workspace_ownership(r_(p))
       IN  CASE verdict = "owned" ->
                  /\ proc' = [proc EXCEPT ![p].pc = "init",
                                ![p].auth = IF @ = NoDir THEN path ELSE @]
                  /\ step' = [step EXCEPT ![r_(p)] = "init"]
             [] verdict = "no_evidence" /\ r_(p) \notin DaemonRuns -> Enter(p, "init")
             [] OTHER -> Deny(p) /\ UNCHANGED step
    /\ Quiet /\ UNCHANGED dirs

\* A shell step changes into the directory through a descriptor that must be
\* the authorized one; without an authorization it creates the path.
configure_command_cwd(p) ==
    /\ At(p, "init")
    /\ IF /\ WorkspaceAnchor_open(path)
          /\ proc[p].auth = NoDir \/ descriptor_matches_authorization(path, proc[p].auth)
       THEN proc' = [proc EXCEPT ![p].pc = "git_init", ![p].fd = path]
       ELSE Deny(p)
    /\ Quiet /\ UNCHANGED <<dirs, step>>

\* setup_workspace_init: git init in that directory.
setup_workspace_init(p) ==
    /\ At(p, "git_init")
    /\ dirs' = [dirs EXCEPT ![proc[p].fd].repo = IF @ = "none" THEN "repo" ELSE @]
    /\ Enter(p, "config")
    /\ Quiet

\* git_config_publish opens the workspace again and compares the inodes ...
GitConfigPublishExecutor(p) ==
    /\ At(p, "config")
    /\ IF /\ proc[p].auth # NoDir
          /\ WorkspaceAnchor_open(path)
          /\ descriptor_matches_authorization(path, proc[p].auth)
          /\ dirs[path].repo = "repo"
       THEN proc' = [proc EXCEPT ![p].pc = "config_write", ![p].fd = path]
       ELSE Deny(p)
    /\ Quiet /\ UNCHANGED <<dirs, step>>

\* ... and renames the new configuration over the old one through that
\* descriptor, wherever the path leads by then.
publish_config(p) ==
    /\ At(p, "config_write")
    /\ dirs' = [dirs EXCEPT ![proc[p].fd].config = r_(p)]
    /\ Enter(p, "promote")
    /\ Quiet

\* workspace_ownership: verified again, same inode, promoted.
WorkspaceOwnershipExecutor(p) ==
    /\ At(p, "promote")
    /\ IF ~workspace_ownership_evidence_exists
       THEN IF r_(p) \in DaemonRuns THEN Deny(p) ELSE Goto(p, "promoted")
       ELSE IF ~verify_workspace_ownership(r_(p)) THEN Deny(p)
       ELSE IF proc[p].auth = NoDir
            THEN proc' = [proc EXCEPT ![p].pc = "ensure", ![p].then = "promoted"]
       ELSE IF ~descriptor_matches_authorization(path, proc[p].auth) THEN Deny(p)
       ELSE Promote(p, path, "promoted")
    /\ Quiet /\ UNCHANGED <<dirs, step>>

\* The step ends with one more verification by path.
promoted(p) ==
    /\ At(p, "promoted")
    /\ \/ /\ workspace_ownership_evidence_exists /\ ~verify_workspace_ownership(r_(p))
          /\ Deny(p) /\ UNCHANGED step
       \/ /\ ~workspace_ownership_evidence_exists \/ verify_workspace_ownership(r_(p))
          /\ Enter(p, "work")
    /\ Quiet /\ UNCHANGED dirs

finish(p) ==
    /\ At(p, "work")
    /\ Deny(p)
    /\ Quiet /\ UNCHANGED <<dirs, step>>

-----------------------------------------------------------------------------
(* Resume                                                                  *)

\* Rows without provenance are admitted with a warning, migrated rows on the
\* configuration root alone, launched ones when the digests still agree.
verify_provenance(r) ==
    /\ resolved(r)
    /\ prov[r] \in DOMAIN Files => DigestsAgree[r, prov[r], disk]

migration_is_pending(r) == mig[r] = "pending"

\* A row that exists and a checkpoint to continue at.
resume_daemon_workflow(p) ==
    /\ At(p, "off")
    /\ r_(p) \in Legacy \/ prov[r_(p)] # "none"
    /\ step[r_(p)] # "none"
    /\ ~migration_is_pending(r_(p))
    /\ Goto(p, "authorize")
    /\ Quiet /\ UNCHANGED <<dirs, step>>

\* Mutant: a workspace without any record is authorized.
prepare_resume_authorization_lax(r) == adjudicate_workspace_ownership(r) \in {"owned", "no_evidence"}

prepare_resume_authorization(r) == adjudicate_workspace_ownership(r) = "owned"

\* Everything is verified before anything is written.
authorize_daemon_resume(p) ==
    /\ At(p, "authorize")
    /\ IF prepare_resume_authorization(r_(p)) /\ verify_provenance(r_(p))
       THEN proc' = [proc EXCEPT ![p].pc = "ensure", ![p].auth = path, ![p].then = "resumed"]
       ELSE Deny(p)
    /\ Quiet /\ UNCHANGED <<dirs, step>>

\* Verified through one anchor; before Git and with a durable record there is
\* nothing to do, otherwise the bootstrap record is promoted through it.
ensure_durable_with_anchor(p) ==
    /\ At(p, "ensure")
    /\ IF ~(WorkspaceAnchor_open(path) /\ verify_anchored(path, r_(p))) THEN Deny(p)
       ELSE IF dirs[path].repo = "none" \/ snapshot_durable_marker(path, r_(p)) # "absent"
            THEN Goto(p, proc[p].then)
       ELSE Promote(p, path, proc[p].then)
    /\ Quiet /\ UNCHANGED <<dirs, step>>

\* The graph continues with the authorization of the resume in its context.
resumed(p) ==
    /\ At(p, "resumed")
    /\ Goto(p, step[r_(p)])
    /\ Quiet /\ UNCHANGED <<dirs, step>>

-----------------------------------------------------------------------------
(* Migration of a legacy run                                               *)

validate_legacy_row(r) == prov[r] \in {"none", "migrated"}

\* INSERT OR IGNORE: the row of an earlier attempt is kept.
persist_migration_intent(r) == IF mig[r] = "none" THEN [mig EXCEPT ![r] = "pending"] ELSE mig

\* The intent is durable before the first change of the file system.
migrate_legacy_ownership(p) ==
    /\ At(p, "off") /\ r_(p) \in Legacy
    /\ validate_legacy_row(r_(p))
    /\ mig[r_(p)] # "completed"
    /\ mig' = persist_migration_intent(r_(p))
    /\ Goto(p, "safety")
    /\ UNCHANGED <<path, linked, dirs, used, prov, step, disk, moved, cleaned, deaths, changes>>

validate_workspace_safety(p) ==
    /\ At(p, "safety")
    /\ IF adjudicate_workspace_ownership(r_(p)) \in {"owned", "no_evidence"}
       THEN Goto(p, "reconcile") ELSE Deny(p)
    /\ Quiet /\ UNCHANGED <<dirs, step>>

\* A record this run already has is kept: an earlier attempt died after it.
publish_or_reconcile_migration_marker(p) ==
    /\ At(p, "reconcile")
    /\ IF ~WorkspaceAnchor_open(path) THEN Deny(p)
       ELSE IF snapshot_bootstrap_marker(path, r_(p)) = "trusted" THEN Goto(p, "complete")
       ELSE PublishThrough(p, path, "luther", "complete")
    /\ Quiet /\ UNCHANGED <<dirs, step>>

tag_migrated_provenance(r) == IF prov[r] = "none" THEN [prov EXCEPT ![r] = "migrated"] ELSE prov

\* UPDATE ... WHERE status = 'pending': one writer makes the transition.
guarded_complete_migration_in_transaction(r) ==
    IF mig[r] = "pending" THEN [mig EXCEPT ![r] = "completed"] ELSE mig

\* One transaction: the guarded change of status, its audit event, the tag.
record_completion(p) ==
    /\ At(p, "complete")
    /\ mig' = guarded_complete_migration_in_transaction(r_(p))
    /\ prov' = IF mig[r_(p)] = "pending" THEN tag_migrated_provenance(r_(p)) ELSE prov
    /\ Deny(p)
    /\ UNCHANGED <<path, linked, dirs, used, step, disk, moved, cleaned, deaths, changes>>

-----------------------------------------------------------------------------
(* Faults                                                                  *)

Change == changes < MaxChanges /\ changes' = changes + 1 /\ UNCHANGED deaths

\* The process dies: its temporary file stays, its authorization is gone.
die(p) ==
    /\ ~At(p, "off") /\ deaths < MaxDeaths /\ deaths' = deaths + 1
    /\ proc' = [proc EXCEPT ![p] = Idle]
    /\ dirs' = [i \in Inodes |-> [dirs[i] EXCEPT !.temps =
                    {IF t.by = r_(p) /\ t.place = proc[p].place /\ i = proc[p].fd
                     THEN [t EXCEPT !.live = FALSE] ELSE t : t \in @}]]
    /\ UNCHANGED <<path, linked, used, mig, prov, step, disk, moved, cleaned, changes>>

\* The path comes to name another directory, an earlier one included.
path_replaced ==
    /\ Change
    /\ \/ \E i \in 0 .. used : i # path /\ path' = i /\ UNCHANGED <<dirs, used, linked>>
       \/ /\ used < MaxDirs
          /\ used' = used + 1 /\ path' = used + 1
          /\ dirs' = [dirs EXCEPT ![used + 1] = Blank]
          /\ UNCHANGED linked
       \/ path # NoDir /\ linked' = ~linked /\ UNCHANGED <<path, dirs, used>>
    /\ moved' = TRUE
    /\ UNCHANGED <<proc, mig, prov, step, disk, cleaned>>

\* The bootstrap record goes with the untracked files once it is promoted:
\* quietly, or while a launch, a resume or a migration is under way.
bootstrap_cleaned ==
    /\ Change
    /\ cleaned' = IF cleaned # "racing" /\ \A p \in Procs : proc[p].pc \in {"off", "work"}
                  THEN "quietly" ELSE "racing"
    /\ \E i \in 1 .. used :
         /\ dirs[i].luther # NoRun /\ dirs[i].git = dirs[i].luther
         /\ dirs' = [dirs EXCEPT ![i].luther = NoRun]
    /\ UNCHANGED <<path, linked, used, proc, mig, prov, step, disk, moved>>

config_edited ==
    /\ Change
    /\ \E v \in DOMAIN Files \ {disk} : disk' = v
    /\ UNCHANGED <<path, linked, dirs, used, proc, mig, prov, step, moved, cleaned>>

-----------------------------------------------------------------------------

\* A legacy run left a checked-out workspace behind, or there is nothing.
Init ==
    /\ linked = FALSE /\ disk = FirstVersion /\ moved = FALSE /\ cleaned = "none"
    /\ deaths = 0 /\ changes = 0
    /\ \/ path = NoDir /\ used = 0 /\ dirs = [i \in Inodes |-> Blank]
       \/ \E repo \in {"none", "repo", "other"}, mark \in {NoRun, Malformed} :
             /\ path = 1 /\ used = 1
             /\ dirs = [i \in Inodes |-> IF i # 1 THEN Blank ELSE
                          [Blank EXCEPT !.repo = repo, !.luther = mark, !.files = TRUE]]
    /\ proc = [p \in Procs |-> Idle]
    /\ mig = [r \in Runs |-> "none"]
    /\ prov = [r \in Runs |-> "none"]
    /\ step = [r \in Runs |-> IF r \in Legacy THEN "work" ELSE "none"]

Publish(p) ==
    \/ create_marker_temp(p) \/ write_and_sync_temp(p) \/ link_temp_to_final(p)
    \/ publish_marker_relative(p) \/ publication_lost(p)

Provision(p) ==
    \/ launch(p) \/ provision_workspace_ownership(p) \/ bootstrap_workspace_creation(p)
    \/ claim(p) \/ open_for_publication(p) \/ provisioned(p)

Graph(p) ==
    \/ WorkspaceOwnershipVerifyExecutor(p) \/ configure_command_cwd(p)
    \/ setup_workspace_init(p) \/ GitConfigPublishExecutor(p) \/ publish_config(p)
    \/ WorkspaceOwnershipExecutor(p) \/ promoted(p) \/ finish(p)

Resume(p) ==
    \/ resume_daemon_workflow(p) \/ authorize_daemon_resume(p)
    \/ ensure_durable_with_anchor(p) \/ resumed(p)

Migrate(p) ==
    \/ migrate_legacy_ownership(p) \/ validate_workspace_safety(p)
    \/ publish_or_reconcile_migration_marker(p) \/ record_completion(p)

Next ==
    \/ \E p \in Procs :
          Publish(p) \/ Provision(p) \/ Graph(p) \/ Resume(p) \/ Migrate(p) \/ die(p)
    \/ path_replaced \/ bootstrap_cleaned \/ config_edited

Spec == Init /\ [][Next]_vars

-----------------------------------------------------------------------------
(* Properties                                                              *)

Owners(i) == {dirs[i].luther, dirs[i].git} \ {NoRun}

\* What the code takes for granted of the world outside: nobody removes a
\* bootstrap record while a process is between its check of both records and
\* its own record, and nobody replaces the path of a workspace whose bootstrap
\* record is gone.
Undisturbed == cleaned # "racing" /\ (cleaned = "quietly" => ~moved)

\* The two records of a directory never name two runs, and the Git
\* configuration in it was published by the run the records name, however
\* launches, resumes and migrations race, die and find the path replaced
\* between verification and use (publish_marker_relative, promote_via_anchor,
\* GitConfigPublishExecutor).  While nobody replaces the path, a run first
\* claims only a directory it made itself, also after launches that died half
\* way: the only other way to a record is the migration command.
OneOwner ==
    \A i \in Inodes :
       /\ Undisturbed =>
             /\ Cardinality(Owners(i)) <= 1
             /\ dirs[i].config # NoRun => Owners(i) = {dirs[i].config}
       /\ ~moved => \A r \in Runs :
              dirs[i].luther = r => dirs[i].creator = r \/ mig[r] # "none"

\* Two runs are never authorized for one directory, and no run executes in a
\* directory whose record names another (WorkspaceAuthorization in
\* workspace_ownership_verify and authorize_daemon_resume).
AuthorizedIsExclusive ==
    \A p \in Procs : Undisturbed /\ proc[p].auth # NoDir =>
       /\ Owners(proc[p].auth) = {r_(p)}
       /\ \A q \in Procs : proc[q].auth = proc[p].auth => r_(q) = r_(p)

\* A completed migration left the run a record, whenever the command died and
\* was repeated and whatever happened to the directory since, and its row
\* admits a resume (record_completion).
MigrationLeavesRecord ==
    \A r \in Runs : mig[r] = "completed" =>
       prov[r] = "migrated" /\ \E i \in Inodes : r \in Owners(i)
=============================================================================
