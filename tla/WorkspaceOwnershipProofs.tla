----------------------- MODULE WorkspaceOwnershipProofs -----------------------
(***************************************************************************)
(* Safety of workspace ownership, for every number of runs, processes,     *)
(* directories, deaths and changes from outside.                           *)
(***************************************************************************)
EXTENDS WorkspaceOwnership, FiniteSetTheorems, TLAPS

Publishing == {"temp", "write", "link", "linked", "exists"}
Pcs == GraphSteps \cup Publishing \cup
       {"off", "none", "provision", "create", "claim", "open", "provisioned", "git_init",
        "config_write", "promoted", "ensure", "authorize", "resumed", "safety", "reconcile",
        "complete"}
Continuations == {"off", "provisioned", "promoted", "resumed", "complete"}
Versions == DOMAIN Files \cup {"none", "migrated"}
Someone == Runs \cup {NoRun}

Process == [pc : Pcs, fd : 0 .. used, auth : 0 .. used, created : BOOLEAN, place : Places,
            then : Continuations, version : Versions]
Temporary == [by : Runs, full : BOOLEAN, live : BOOLEAN, place : Places]
Directory == [luther : Marks, git : Marks, temps : SUBSET Temporary,
              repo : {"none", "repo", "other"}, config : Someone, files : BOOLEAN,
              creator : Someone]

TypeInv ==
    /\ used \in 0 .. MaxDirs /\ path \in 0 .. used
    /\ linked \in BOOLEAN /\ moved \in BOOLEAN /\ cleaned \in {"none", "quietly", "racing"}
    /\ dirs \in [Inodes -> Directory]
    /\ proc \in [Procs -> Process]
    /\ mig \in [Runs -> {"none", "pending", "completed"}]
    /\ prov \in [Runs -> Versions]
    /\ step \in [Runs -> GraphSteps \cup {"none"}]
    /\ disk \in DOMAIN Files

\* A process between the decision to publish in a place and its result.
Publishes(p, place) == proc[p].pc \in Publishing /\ proc[p].place = place

\* A durable record that is alone in its directory is r's, if there is one.
Admits(i, r) == dirs[i].luther # NoRun \/ dirs[i].git \in {NoRun, r}

\* What each place of the program rests on.
PlaceInv(p) ==
    /\ proc[p].pc \in Publishing => proc[p].fd # NoDir
    /\ proc[p].pc = "config_write" => proc[p].fd = proc[p].auth /\ proc[p].auth # NoDir
    /\ proc[p].pc = "provision" => proc[p].then = "provisioned"
    /\ proc[p].pc = "ensure" => proc[p].then \notin {"off", "complete"}
    /\ Publishes(p, "luther") => proc[p].then \in {"provisioned", "complete"}
    /\ Publishes(p, "git") => proc[p].then \notin {"off", "complete"}
    /\ Publishes(p, "luther") /\ proc[p].then = "complete" => mig[r_(p)] # "none"
    /\ proc[p].pc \in {"safety", "reconcile", "complete"} => mig[r_(p)] # "none"
    /\ r_(p) \in Legacy =>
          /\ proc[p].pc \notin {"provision", "create", "claim", "open", "provisioned"}
          /\ proc[p].then # "provisioned"

\* A durable record lives in a repository, and one in the making has the
\* bootstrap record of its run beside it.
DurableInv ==
    /\ \A i \in Inodes : dirs[i].git # NoRun => dirs[i].repo = "repo"
    /\ \A i \in Inodes : \A t \in dirs[i].temps : t.place = "git" => dirs[i].repo = "repo"
    /\ \A p \in Procs : Publishes(p, "git") =>
          /\ dirs[proc[p].fd].repo = "repo"
          /\ cleaned # "racing" => dirs[proc[p].fd].luther = r_(p)

\* Before a bootstrap record is ever removed, none is missing; after it was
\* removed quietly nothing can claim the directory that has lost it.
CleanedInv ==
    /\ cleaned = "none" => \A i \in Inodes : dirs[i].git \in {NoRun, dirs[i].luther}
    /\ ~moved => path = used /\ used <= 1
    /\ cleaned = "quietly" /\ ~moved =>
          /\ path # NoDir /\ dirs[path].repo # "none"
          /\ \A p \in Procs :
                /\ proc[p].pc \notin {"create", "claim", "open"}
                /\ Publishes(p, "luther") => proc[p].then = "complete"
                /\ proc[p].pc = "reconcile" => Admits(path, r_(p))
    /\ Undisturbed => \A p \in Procs : Publishes(p, "luther") => Admits(proc[p].fd, r_(p))

\* The records agree with each other, with the authorizations and with the
\* configuration.
AgreeInv ==
    Undisturbed =>
       /\ \A i \in Inodes : \/ dirs[i].luther = NoRun \/ dirs[i].git = NoRun
                            \/ dirs[i].luther = dirs[i].git
       /\ \A i \in Inodes : dirs[i].config # NoRun => Owners(i) = {dirs[i].config}
       /\ \A p \in Procs : proc[p].auth # NoDir => Owners(proc[p].auth) = {r_(p)}

\* Directory i was made by run r, or r is being migrated.
MayClaim(i, r) == dirs[i].creator = r \/ mig[r] # "none"

\* Whoever claims a directory made it.
CreatorInv ==
    ~moved =>
       /\ \A p \in Procs :
             /\ proc[p].pc = "claim" /\ proc[p].created => path # NoDir /\ MayClaim(path, r_(p))
             /\ proc[p].pc = "open" => path # NoDir /\ MayClaim(path, r_(p))
             /\ Publishes(p, "luther") => MayClaim(proc[p].fd, r_(p))
       /\ \A i \in Inodes : \A t \in dirs[i].temps : t.place = "luther" => MayClaim(i, t.by)
       /\ \A i \in Inodes, r \in Runs : dirs[i].luther = r => MayClaim(i, r)

\* The run has a record somewhere.
HasRecord(r) == \E i \in 1 .. used : r \in Owners(i)

MigrationInv ==
    /\ \A r \in Runs : mig[r] # "none" => r \in Legacy
    /\ \A r \in Runs : r \in Legacy => prov[r] \in {"none", "migrated"}
    /\ \A r \in Runs : mig[r] = "completed" => prov[r] = "migrated" /\ HasRecord(r)
    /\ \A p \in Procs :
          /\ proc[p].pc = "linked" => r_(p) \in Owners(proc[p].fd)
          /\ proc[p].pc = "complete" => HasRecord(r_(p))

OwnerInv ==
    /\ TypeInv /\ (\A p \in Procs : PlaceInv(p)) /\ DurableInv
    /\ CleanedInv /\ AgreeInv /\ CreatorInv /\ MigrationInv

-----------------------------------------------------------------------------
(* Inodes, paths and what the checks of the records mean.                  *)

LEMMA Constants ==
    /\ MaxDirs \in Nat \ {0}
    /\ \A p \in Procs : r_(p) \in Runs /\ r_(p) # NoRun /\ r_(p) # Malformed
    /\ \A r \in Runs : r # NoRun /\ r # Malformed
    /\ FirstVersion \in DOMAIN Files
BY OwnershipAssumption DEF OwnershipAssumption, Runs, r_, NoRun, Malformed

\* Everything that is named, opened or authorized exists.
LEMMA Existing ==
    ASSUME TypeInv
    PROVE  /\ used \in Nat /\ used <= MaxDirs /\ path \in Nat /\ path <= used
           /\ \A i \in 0 .. used : i # NoDir => i \in Inodes /\ i \in 1 .. used
           /\ path # NoDir => path \in Inodes /\ path \in 1 .. used
           /\ \A p \in Procs : proc[p].fd # NoDir => proc[p].fd \in Inodes /\ proc[p].fd \in 1 .. used
           /\ \A p \in Procs :
                 proc[p].auth # NoDir => proc[p].auth \in Inodes /\ proc[p].auth \in 1 .. used
           /\ 1 .. used \subseteq Inodes
<1>1. used \in Nat /\ used <= MaxDirs /\ path \in Nat /\ path <= used
  BY Constants DEF TypeInv
<1>2. \A i \in 0 .. used : i # NoDir => i \in Inodes /\ i \in 1 .. used
  BY <1>1, Constants DEF Inodes, NoDir
<1>3. \A p \in Procs : proc[p].fd \in 0 .. used /\ proc[p].auth \in 0 .. used
  BY DEF TypeInv, Process
<1>4. path \in 0 .. used
  BY DEF TypeInv
<1>5. 1 .. used \subseteq Inodes
  BY <1>1, Constants DEF Inodes
<1>. QED  BY <1>1, <1>2, <1>3, <1>4, <1>5

\* A workspace that verifies holds a record of the run and no other's.
LEMMA Verified ==
    ASSUME TypeInv, DurableInv, NEW r \in Runs, NEW i \in Inodes, verify_anchored(i, r)
    PROVE  /\ Owners(i) = {r}
           /\ dirs[i].luther \in {NoRun, r} /\ dirs[i].git \in {NoRun, r}
<1>1. dirs[i].luther \in {NoRun, r}
  BY DEF verify_anchored, snapshot_bootstrap_marker, classify_opened_marker
<1>2. dirs[i].git \in {NoRun, r}
  <2>1. CASE dirs[i].repo = "none"
    BY <2>1 DEF DurableInv
  <2>2. CASE dirs[i].repo # "none"
    BY <2>2 DEF verify_anchored, snapshot_durable_marker, classify_opened_marker
  <2>. QED  BY <2>1, <2>2
<1>3. dirs[i].luther = r \/ dirs[i].git = r
  BY DEF verify_anchored, snapshot_bootstrap_marker, snapshot_durable_marker,
         classify_opened_marker
<1>4. r # NoRun
  BY Constants
<1>. QED  BY <1>1, <1>2, <1>3, <1>4 DEF Owners

\* What the verdict on the path says of the directory behind it.
LEMMA Judged ==
    ASSUME TypeInv, DurableInv, NEW r \in Runs
    PROVE  /\ adjudicate_workspace_ownership(r) = "owned" =>
                 /\ path # NoDir /\ Owners(path) = {r}
                 /\ dirs[path].luther \in {NoRun, r} /\ dirs[path].git \in {NoRun, r}
           /\ adjudicate_workspace_ownership(r) = "no_evidence" =>
                 /\ path # NoDir /\ dirs[path].luther = NoRun /\ dirs[path].git = NoRun
<1>1. ASSUME adjudicate_workspace_ownership(r) = "owned"
      PROVE  path # NoDir /\ verify_anchored(path, r)
  BY <1>1 DEF adjudicate_workspace_ownership
<1>2. ASSUME adjudicate_workspace_ownership(r) = "no_evidence"
      PROVE  /\ path # NoDir
             /\ snapshot_bootstrap_marker(path, r) = "absent"
             /\ snapshot_durable_marker(path, r) = "absent"
  BY <1>2 DEF adjudicate_workspace_ownership
<1>3. ASSUME path # NoDir, snapshot_durable_marker(path, r) = "absent"
      PROVE  dirs[path].git = NoRun
  <2>1. path \in Inodes
    BY <1>3, Existing
  <2>2. CASE dirs[path].repo = "none"
    BY <2>1, <2>2 DEF DurableInv
  <2>3. CASE dirs[path].repo # "none"
    BY <1>3, <2>3 DEF snapshot_durable_marker, classify_opened_marker
  <2>. QED  BY <2>2, <2>3
<1>4. ASSUME snapshot_bootstrap_marker(path, r) = "absent" PROVE dirs[path].luther = NoRun
  BY <1>4 DEF snapshot_bootstrap_marker, classify_opened_marker
<1>5. path # NoDir => path \in Inodes
  BY Existing
<1>. QED  BY <1>1, <1>2, <1>3, <1>4, <1>5, Verified

-----------------------------------------------------------------------------
(* Types                                                                   *)

ProcType == proc \in [Procs -> Process]
DirType == dirs \in [Inodes -> Directory]
StepType == step \in [Runs -> GraphSteps \cup {"none"}]

\* A process that changes in its fields is still a process.
LEMMA ProcessType ==
    ASSUME TypeInv, NEW p \in Procs, used' = used,
           NEW x \in Process, proc' = [proc EXCEPT ![p] = x]
    PROVE  ProcType'
BY DEF TypeInv, ProcType, Process

LEMMA Fields ==
    ASSUME TypeInv, NEW p \in Procs
    PROVE  /\ proc[p].pc \in Pcs /\ proc[p].place \in Places
           /\ proc[p].then \in Continuations /\ proc[p].created \in BOOLEAN
           /\ proc[p].fd \in 0 .. used /\ proc[p].auth \in 0 .. used
           /\ proc[p].version \in Versions
BY DEF TypeInv, Process

LEMMA GotoType ==
    ASSUME TypeInv, used' = used, NEW p \in Procs, NEW pc \in Pcs, Goto(p, pc)
    PROVE  ProcType'
<1>. DEFINE x == [proc[p] EXCEPT !.pc = pc]
<1>1. x \in Process
  BY DEF TypeInv, Process
<1>2. proc' = [proc EXCEPT ![p] = x]
  BY DEF Goto
<1>. QED  BY <1>1, <1>2, ProcessType

LEMMA DenyType ==
    ASSUME TypeInv, used' = used, NEW p \in Procs, Deny(p)
    PROVE  ProcType'
<1>1. used \in Nat
  BY Existing
<1>2. Idle \in Process
  BY <1>1 DEF Idle, Process, Pcs, Places, Continuations, Versions, NoDir
<1>. QED  BY <1>2, ProcessType DEF Deny

\* One field of a process at a time.
LEMMA OneField ==
    ASSUME NEW x \in Process
    PROVE  /\ \A v \in Pcs : [x EXCEPT !.pc = v] \in Process
           /\ \A v \in 0 .. used : [x EXCEPT !.fd = v] \in Process
           /\ \A v \in 0 .. used : [x EXCEPT !.auth = v] \in Process
           /\ \A v \in Places : [x EXCEPT !.place = v] \in Process
           /\ \A v \in Continuations : [x EXCEPT !.then = v] \in Process
           /\ \A v \in BOOLEAN : [x EXCEPT !.created = v] \in Process
           /\ \A v \in Versions : [x EXCEPT !.version = v] \in Process
BY DEF Process

LEMMA PublishType ==
    ASSUME TypeInv, used' = used, NEW p \in Procs, NEW i \in 0 .. used,
           NEW place \in Places, NEW then \in Continuations,
           PublishThrough(p, i, place, then)
    PROVE  ProcType'
<1>. DEFINE x == [proc[p] EXCEPT !.pc = "temp"]
            y == [x EXCEPT !.fd = i]
            z == [y EXCEPT !.place = place]
            u == [z EXCEPT !.then = then]
<1>1. proc[p] \in Process /\ "temp" \in Pcs
  BY DEF TypeInv, Pcs, Publishing
<1>2. x \in Process
  BY <1>1, OneField
<1>3. y \in Process
  BY <1>2, OneField
<1>4. z \in Process
  BY <1>3, OneField
<1>5. u \in Process
  BY <1>4, OneField
<1>6. proc' = [proc EXCEPT ![p] = u]
  BY DEF PublishThrough
<1>. HIDE DEF u
<1>. QED  BY <1>5, <1>6, ProcessType

LEMMA EnterType ==
    ASSUME TypeInv, used' = used, NEW p \in Procs, NEW s \in GraphSteps, Enter(p, s)
    PROVE  ProcType' /\ StepType'
<1>. DEFINE x == [proc[p] EXCEPT !.pc = s]
            y == [x EXCEPT !.fd = NoDir]
<1>1. proc[p] \in Process /\ s \in Pcs /\ NoDir \in 0 .. used
  BY Existing DEF TypeInv, Pcs, NoDir
<1>2. x \in Process
  BY <1>1, OneField
<1>3. y \in Process
  BY <1>1, <1>2, OneField
<1>4. proc' = [proc EXCEPT ![p] = y]
  BY DEF Enter
<1>5. StepType'
  BY DEF Enter, TypeInv, StepType
<1>. HIDE DEF y
<1>. QED  BY <1>3, <1>4, <1>5, ProcessType

\* Most steps change a process, its graph step and one directory.
LEMMA QuietType ==
    ASSUME TypeInv, Quiet, ProcType', DirType', StepType'
    PROVE  TypeInv'
<1>. USE DEF Quiet
<1>1. /\ used' \in 0 .. MaxDirs /\ path' \in 0 .. used'
      /\ linked' \in BOOLEAN /\ moved' \in BOOLEAN
      /\ cleaned' \in {"none", "quietly", "racing"} /\ disk' \in DOMAIN Files
  BY DEF TypeInv
<1>2. /\ mig' \in [Runs -> {"none", "pending", "completed"}]
      /\ prov' \in [Runs -> Versions]
  BY DEF TypeInv
<1>. QED  BY <1>1, <1>2 DEF TypeInv, ProcType, DirType, StepType, Process

LEMMA DirectoryType ==
    ASSUME TypeInv, NEW i, NEW d, i \in Inodes => d \in Directory,
           dirs' = [dirs EXCEPT ![i] = d]
    PROVE  DirType'
<1>1. dirs \in [Inodes -> Directory]
  BY DEF TypeInv
<1>2. Directory' = Directory
  BY DEF Directory, Temporary
<1>3. dirs' \in [Inodes -> Directory]
  BY <1>1
<1>. QED  BY <1>2, <1>3 DEF DirType

\* One field of a directory at a time.
LEMMA OneEntry ==
    ASSUME NEW d \in Directory
    PROVE  /\ \A v \in Marks : [d EXCEPT !.luther = v] \in Directory
           /\ \A v \in Marks : [d EXCEPT !.git = v] \in Directory
           /\ \A v \in SUBSET Temporary : [d EXCEPT !.temps = v] \in Directory
           /\ \A v \in {"none", "repo", "other"} : [d EXCEPT !.repo = v] \in Directory
           /\ \A v \in Someone : [d EXCEPT !.config = v] \in Directory
           /\ d.temps \in SUBSET Temporary /\ d.repo \in {"none", "repo", "other"}
BY DEF Directory

LEMMA NewDirectory ==
    ASSUME NEW r \in Someone PROVE [Blank EXCEPT !.creator = r] \in Directory /\ Blank \in Directory
BY DEF Blank, Directory, Someone, Marks

LEMMA SameTypes ==
    ASSUME TypeInv
    PROVE  /\ UNCHANGED dirs => DirType'
           /\ UNCHANGED step => StepType'
           /\ \A i \in Inodes : dirs[i] \in Directory
BY DEF TypeInv, DirType, StepType, Directory, Temporary

LEMMA TempIsTemporary ==
    ASSUME TypeInv, NEW p \in Procs, NEW full \in BOOLEAN
    PROVE  MyTemp(p, full) \in Temporary
BY Constants, Fields DEF MyTemp, Temporary

\* The temporary files of one directory change.
LEMMA TempsType ==
    ASSUME TypeInv, NEW i \in Inodes, NEW T \in SUBSET Temporary,
           dirs' = [dirs EXCEPT ![i].temps = T]
    PROVE  DirType'
<1>. DEFINE d == [dirs[i] EXCEPT !.temps = T]
<1>1. dirs[i] \in Directory
  BY DEF TypeInv
<1>2. d \in Directory
  BY <1>1, OneEntry
<1>3. dirs' = [dirs EXCEPT ![i] = d]
  OBVIOUS
<1>. HIDE DEF d
<1>. QED  BY <1>2, <1>3, DirectoryType

LEMMA PublishTypes ==
    ASSUME TypeInv, NEW p \in Procs, PlaceInv(p), Publish(p)
    PROVE  TypeInv'
<1>. DEFINE i == proc[p].fd
<1>1. proc[p].pc \in Publishing
  BY DEF Publish, create_marker_temp, write_and_sync_temp, link_temp_to_final,
         publish_marker_relative, publication_lost, At, Publishing
<1>2. i \in Inodes /\ dirs[i] \in Directory /\ dirs[i].temps \in SUBSET Temporary
  BY <1>1, Existing, SameTypes, OneEntry DEF PlaceInv
<1>3. Quiet /\ UNCHANGED step
  BY DEF Publish, create_marker_temp, write_and_sync_temp, link_temp_to_final,
         publish_marker_relative, publication_lost
<1>4. used' = used /\ StepType'
  BY <1>3, SameTypes DEF Quiet
<1>5. MyTemp(p, TRUE) \in Temporary /\ MyTemp(p, FALSE) \in Temporary
  BY TempIsTemporary
<1>6. {"write", "link", "linked", "exists", "create"} \subseteq Pcs /\ Continuations \subseteq Pcs
  BY DEF Pcs, Publishing, Continuations, GraphSteps
<1>. SUFFICES ProcType' /\ DirType'
  BY <1>3, <1>4, QuietType
<1>7. CASE create_marker_temp(p)
  <2>1. ProcType'
    BY <1>4, <1>6, <1>7, GotoType DEF create_marker_temp
  <2>. DEFINE T == dirs[i].temps \cup {MyTemp(p, FALSE)}
  <2>2. T \in SUBSET Temporary
    BY <1>2, <1>5
  <2>3. dirs' = [dirs EXCEPT ![i].temps = T]
    BY <1>7 DEF create_marker_temp
  <2>. HIDE DEF T
  <2>4. DirType'
    BY <1>2, <2>2, <2>3, TempsType
  <2>. QED  BY <2>1, <2>4
<1>8. CASE write_and_sync_temp(p)
  <2>1. ProcType'
    BY <1>4, <1>6, <1>8, GotoType DEF write_and_sync_temp
  <2>. DEFINE T == (dirs[i].temps \ {MyTemp(p, FALSE)}) \cup {MyTemp(p, TRUE)}
  <2>2. T \in SUBSET Temporary
    BY <1>2, <1>5
  <2>3. dirs' = [dirs EXCEPT ![i].temps = T]
    BY <1>8 DEF write_and_sync_temp
  <2>. HIDE DEF T
  <2>4. DirType'
    BY <1>2, <2>2, <2>3, TempsType
  <2>. QED  BY <2>1, <2>4
<1>9. CASE link_temp_to_final(p)
  <2>1. ProcType'
    BY <1>4, <1>6, <1>9, GotoType DEF link_temp_to_final
  <2>2. r_(p) \in Marks /\ proc[p].place \in {"luther", "git"}
    BY Constants, Fields DEF Marks, Places
  <2>3. linkat(dirs[i], proc[p].place, r_(p)) \in Directory
    BY <1>2, <2>2, OneEntry DEF linkat
  <2>. DEFINE d == linkat(dirs[i], proc[p].place, r_(p))
  <2>4. dirs' = [dirs EXCEPT ![i] = d]
    BY <1>9 DEF link_temp_to_final
  <2>. HIDE DEF d
  <2>5. DirType'
    BY <2>3, <2>4, DirectoryType DEF d
  <2>. QED  BY <2>1, <2>5
<1>10. CASE publish_marker_relative(p)
  <2>1. proc[p].then \in Pcs
    BY <1>6, Fields
  <2>2. ProcType'
    BY <1>4, <1>10, <2>1, GotoType DEF publish_marker_relative
  <2>3. DirType'
    BY <1>2, <1>10, TempsType DEF publish_marker_relative
  <2>. QED  BY <2>2, <2>3
<1>11. CASE publication_lost(p)
  <2>1. proc[p].then \in Pcs
    BY <1>6, Fields
  <2>2. Deny(p) \/ Goto(p, proc[p].then) \/ Goto(p, "create")
    BY <1>11 DEF publication_lost
  <2>3. ProcType'
    BY <1>4, <1>6, <2>1, <2>2, GotoType, DenyType
  <2>. DEFINE T == dirs[i].temps \ {MyTemp(p, TRUE)}
  <2>4. T \in SUBSET Temporary
    BY <1>2, <1>5
  <2>5. dirs' = [dirs EXCEPT ![i].temps = T]
    BY <1>11 DEF publication_lost
  <2>. HIDE DEF T
  <2>6. DirType'
    BY <1>2, <2>4, <2>5, TempsType
  <2>. QED  BY <2>3, <2>6
<1>. QED  BY <1>7, <1>8, <1>9, <1>10, <1>11 DEF Publish

LEMMA ProvisionTypes ==
    ASSUME TypeInv, NEW p \in Procs, Provision(p)
    PROVE  TypeInv'
<1>. USE DEF TypeInv
<1>1. {"create", "claim", "open", "provisioned", "ensure"} \subseteq Pcs
      /\ "provisioned" \in Continuations /\ "luther" \in Places
      /\ "provision" \in Pcs /\ "verify" \in Pcs
  BY DEF Pcs, Continuations, Places, GraphSteps
<1>2. proc[p] \in Process /\ r_(p) \in Runs
  BY Constants
<1>3. CASE launch(p)
  <2>. DEFINE x == [proc[p] EXCEPT !.pc = "provision"]
              y == [x EXCEPT !.then = "provisioned"]
              z == [y EXCEPT !.version = disk]
  <2>1. disk \in Versions
    BY DEF Versions
  <2>2. x \in Process
    BY <1>1, <1>2, OneField
  <2>3. y \in Process
    BY <1>1, <2>2, OneField
  <2>4. z \in Process
    BY <2>1, <2>3, OneField
  <2>5. proc' = [proc EXCEPT ![p] = z] /\ used' = used
    BY <1>3 DEF launch
  <2>. HIDE DEF z
  <2>6. ProcType'
    BY <2>4, <2>5, ProcessType
  <2>7. prov' \in [Runs -> Versions]
    BY <1>2, <1>3, <2>1 DEF launch, from_resolved
  <2>8. UNCHANGED <<path, linked, dirs, used, mig, step, disk, moved, cleaned>>
    BY <1>3 DEF launch
  <2>. QED  BY <2>6, <2>7, <2>8 DEF ProcType, Directory, Temporary
<1>4. CASE provision_workspace_ownership(p)
  <2>1. Quiet /\ UNCHANGED <<dirs, step>> /\ (Goto(p, "ensure") \/ Goto(p, "create"))
    BY <1>4 DEF provision_workspace_ownership
  <2>. QED  BY <1>1, <2>1, GotoType, SameTypes, QuietType DEF Quiet
<1>5. CASE bootstrap_workspace_creation(p)
  <2>. DEFINE x == [proc[p] EXCEPT !.pc = "claim"]
  <2>1. x \in Process
    BY <1>1, <1>2, OneField
  <2>2. UNCHANGED <<linked, mig, prov, step, disk, moved, cleaned, deaths, changes>>
    BY <1>5 DEF bootstrap_workspace_creation
  <2>3. CASE UNCHANGED <<path, dirs, used>> /\ Deny(p)
    <3>1. Quiet
      BY <2>2, <2>3 DEF Quiet
    <3>. QED  BY <2>2, <2>3, <3>1, DenyType, SameTypes, QuietType
  <2>4. CASE UNCHANGED <<path, dirs, used>>
             /\ proc' = [proc EXCEPT ![p].pc = "claim", ![p].created = FALSE]
    <3>. DEFINE y == [x EXCEPT !.created = FALSE]
    <3>1. Quiet
      BY <2>2, <2>4 DEF Quiet
    <3>2. y \in Process
      BY <2>1, OneField
    <3>3. proc' = [proc EXCEPT ![p] = y]
      BY <2>4
    <3>. HIDE DEF y
    <3>4. ProcType'
      BY <2>4, <3>2, <3>3, ProcessType
    <3>. QED  BY <2>2, <2>4, <3>1, <3>4, SameTypes, QuietType
  <2>5. CASE /\ used < MaxDirs /\ path = NoDir
             /\ used' = used + 1 /\ path' = used + 1
             /\ dirs' = [dirs EXCEPT ![used + 1] = [Blank EXCEPT !.creator = r_(p)]]
             /\ proc' = [proc EXCEPT ![p].pc = "claim", ![p].created = TRUE]
    <3>. DEFINE y == [x EXCEPT !.created = TRUE]
                d == [Blank EXCEPT !.creator = r_(p)]
    <3>1. y \in Process
      BY <2>1, OneField
    <3>2. proc' = [proc EXCEPT ![p] = y]
      BY <2>5
    <3>3. d \in Directory
      BY <1>2, NewDirectory DEF Someone
    <3>4. dirs' = [dirs EXCEPT ![used + 1] = d]
      BY <2>5
    <3>5. DirType'
      BY <3>3, <3>4, DirectoryType
    <3>. HIDE DEF y, d
    <3>6. used \in Nat /\ used <= MaxDirs /\ MaxDirs \in Nat
      BY Existing, Constants
    <3>7. used' \in 0 .. MaxDirs /\ path' \in 0 .. used' /\ 0 .. used \subseteq 0 .. used'
      BY <2>5, <3>6
    <3>8. Process \subseteq Process'
      BY <3>7 DEF Process
    <3>9. proc' \in [Procs -> Process']
      BY <3>1, <3>2, <3>8
    <3>. QED  BY <2>2, <3>5, <3>7, <3>9 DEF DirType
  <2>. QED  BY <1>5, <2>3, <2>4, <2>5 DEF bootstrap_workspace_creation
<1>6. CASE claim(p)
  <2>1. Quiet /\ UNCHANGED <<dirs, step>>
    BY <1>6 DEF claim
  <2>2. Goto(p, "create") \/ Deny(p) \/ Goto(p, "provisioned") \/ Goto(p, "open")
    BY <1>6 DEF claim
  <2>. QED  BY <1>1, <2>1, <2>2, GotoType, DenyType, SameTypes, QuietType DEF Quiet
<1>7. CASE open_for_publication(p)
  <2>1. Quiet /\ UNCHANGED <<dirs, step>>
    BY <1>7 DEF open_for_publication
  <2>2. Goto(p, "create") \/ Deny(p) \/ PublishThrough(p, path, "luther", "provisioned")
    BY <1>7 DEF open_for_publication
  <2>3. used' = used /\ path \in 0 .. used
    BY <2>1 DEF Quiet
  <2>4. ProcType'
    BY <1>1, <2>2, <2>3, GotoType, DenyType, PublishType
  <2>. QED  BY <2>1, <2>4, SameTypes, QuietType
<1>8. CASE provisioned(p)
  <2>. DEFINE x == [proc[p] EXCEPT !.pc = "verify"]
              y == [x EXCEPT !.fd = NoDir]
              z == [y EXCEPT !.version = "none"]
  <2>1. NoDir \in 0 .. used /\ "none" \in Versions
    BY Existing DEF Versions, NoDir
  <2>2. x \in Process
    BY <1>1, <1>2, OneField
  <2>3. y \in Process
    BY <2>1, <2>2, OneField
  <2>4. z \in Process
    BY <2>1, <2>3, OneField
  <2>5. proc' = [proc EXCEPT ![p] = z] /\ used' = used
    BY <1>8 DEF provisioned
  <2>. HIDE DEF z
  <2>6. ProcType'
    BY <2>4, <2>5, ProcessType
  <2>7. prov' \in [Runs -> Versions]
    BY <1>2, <1>8, Fields DEF provisioned, from_resolved
  <2>8. step' \in [Runs -> GraphSteps \cup {"none"}]
    BY <1>8 DEF provisioned, GraphSteps
  <2>9. UNCHANGED <<path, linked, dirs, used, mig, disk, moved, cleaned>>
    BY <1>8 DEF provisioned
  <2>. QED  BY <2>6, <2>7, <2>8, <2>9 DEF ProcType, Directory, Temporary
<1>. QED  BY <1>3, <1>4, <1>5, <1>6, <1>7, <1>8 DEF Provision

\* A directory below an open descriptor changes in one field.
LEMMA EntryType ==
    ASSUME TypeInv, NEW i
    PROVE  /\ \A v \in {"none", "repo", "other"} :
                 dirs' = [dirs EXCEPT ![i].repo = v] => DirType'
           /\ \A v \in Someone : dirs' = [dirs EXCEPT ![i].config = v] => DirType'
<1>1. i \in Inodes => dirs[i] \in Directory
  BY DEF TypeInv
<1>2. ASSUME NEW v \in {"none", "repo", "other"}, dirs' = [dirs EXCEPT ![i].repo = v]
      PROVE  DirType'
  <2>. DEFINE d == [dirs[i] EXCEPT !.repo = v]
  <2>1. i \in Inodes => d \in Directory
    BY <1>1, OneEntry
  <2>2. dirs' = [dirs EXCEPT ![i] = d]
    BY <1>2
  <2>. HIDE DEF d
  <2>. QED  BY <2>1, <2>2, DirectoryType
<1>3. ASSUME NEW v \in Someone, dirs' = [dirs EXCEPT ![i].config = v]
      PROVE  DirType'
  <2>. DEFINE d == [dirs[i] EXCEPT !.config = v]
  <2>1. i \in Inodes => d \in Directory
    BY <1>1, OneEntry
  <2>2. dirs' = [dirs EXCEPT ![i] = d]
    BY <1>3
  <2>. HIDE DEF d
  <2>. QED  BY <2>1, <2>2, DirectoryType
<1>. QED  BY <1>2, <1>3

LEMMA GraphTypes ==
    ASSUME TypeInv, NEW p \in Procs, Graph(p)
    PROVE  TypeInv'
<1>1. Quiet
  BY DEF Graph, WorkspaceOwnershipVerifyExecutor, configure_command_cwd, setup_workspace_init,
         GitConfigPublishExecutor, publish_config, WorkspaceOwnershipExecutor, promoted, finish
<1>. SUFFICES ProcType' /\ DirType' /\ StepType'
  BY <1>1, QuietType
<1>2. used' = used /\ path \in 0 .. used /\ proc[p] \in Process /\ r_(p) \in Runs
  BY <1>1, Constants DEF Quiet, TypeInv
<1>3. {"init", "git_init", "config_write", "ensure", "promoted"} \subseteq Pcs
      /\ {"verify", "init", "config", "promote", "work"} \subseteq GraphSteps
      /\ "promoted" \in Continuations /\ "git" \in Places
  BY DEF Pcs, GraphSteps, Continuations, Places
<1>4. /\ UNCHANGED dirs => DirType'
      /\ UNCHANGED step => StepType'
  BY SameTypes
<1>5. CASE WorkspaceOwnershipVerifyExecutor(p)
  <2>1. UNCHANGED dirs
    BY <1>5 DEF WorkspaceOwnershipVerifyExecutor
  <2>2. CASE /\ proc' = [proc EXCEPT ![p].pc = "init",
                            ![p].auth = IF @ = NoDir THEN path ELSE @]
             /\ step' = [step EXCEPT ![r_(p)] = "init"]
    <3>. DEFINE x == [proc[p] EXCEPT !.pc = "init"]
                a == IF proc[p].auth = NoDir THEN path ELSE proc[p].auth
                y == [x EXCEPT !.auth = a]
    <3>1. x \in Process
      BY <1>2, <1>3, OneField
    <3>2. a \in 0 .. used
      BY <1>2, Fields
    <3>. HIDE DEF a
    <3>3. y \in Process
      BY <3>1, <3>2, OneField
    <3>4. proc' = [proc EXCEPT ![p] = y]
      BY <2>2 DEF a
    <3>. HIDE DEF y
    <3>5. ProcType'
      BY <1>2, <3>3, <3>4, ProcessType
    <3>6. StepType'
      BY <1>2, <1>3, <2>2 DEF TypeInv, StepType
    <3>. QED  BY <1>4, <2>1, <3>5, <3>6
  <2>3. CASE Enter(p, "init")
    BY <1>2, <1>3, <1>4, <2>1, <2>3, EnterType
  <2>4. CASE Deny(p) /\ UNCHANGED step
    BY <1>2, <1>4, <2>1, <2>4, DenyType
  <2>. QED
    BY <1>5, <2>2, <2>3, <2>4 DEF WorkspaceOwnershipVerifyExecutor
<1>6. CASE configure_command_cwd(p)
  <2>. DEFINE x == [proc[p] EXCEPT !.pc = "git_init"]
              y == [x EXCEPT !.fd = path]
  <2>1. x \in Process
    BY <1>2, <1>3, OneField
  <2>2. y \in Process
    BY <1>2, <2>1, OneField
  <2>3. UNCHANGED <<dirs, step>> /\ (proc' = [proc EXCEPT ![p] = y] \/ Deny(p))
    BY <1>6 DEF configure_command_cwd
  <2>. HIDE DEF y
  <2>. QED  BY <1>2, <1>4, <2>2, <2>3, ProcessType, DenyType
<1>7. CASE setup_workspace_init(p)
  <2>. DEFINE v == IF dirs[proc[p].fd].repo = "none" THEN "repo" ELSE dirs[proc[p].fd].repo
  <2>1. Enter(p, "config") /\ dirs' = [dirs EXCEPT ![proc[p].fd].repo = v]
    BY <1>7 DEF setup_workspace_init
  <2>2. DirType'
    <3>1. CASE proc[p].fd \in Inodes
      <4>1. v \in {"none", "repo", "other"}
        BY <3>1, OneEntry DEF TypeInv
      <4>. HIDE DEF v
      <4>. QED  BY <2>1, <4>1, EntryType
    <3>2. CASE proc[p].fd \notin Inodes
      <4>1. UNCHANGED dirs
        BY <2>1, <3>2 DEF TypeInv
      <4>. QED  BY <1>4, <4>1
    <3>. QED  BY <3>1, <3>2
  <2>. QED  BY <1>2, <1>3, <2>1, <2>2, EnterType
<1>8. CASE GitConfigPublishExecutor(p)
  <2>. DEFINE x == [proc[p] EXCEPT !.pc = "config_write"]
              y == [x EXCEPT !.fd = path]
  <2>1. x \in Process
    BY <1>2, <1>3, OneField
  <2>2. y \in Process
    BY <1>2, <2>1, OneField
  <2>3. UNCHANGED <<dirs, step>> /\ (proc' = [proc EXCEPT ![p] = y] \/ Deny(p))
    BY <1>8 DEF GitConfigPublishExecutor
  <2>. HIDE DEF y
  <2>. QED  BY <1>2, <1>4, <2>2, <2>3, ProcessType, DenyType
<1>9. CASE publish_config(p)
  <2>1. Enter(p, "promote") /\ dirs' = [dirs EXCEPT ![proc[p].fd].config = r_(p)]
    BY <1>9 DEF publish_config
  <2>2. DirType'
    BY <1>2, <2>1, EntryType DEF Someone
  <2>. QED  BY <1>2, <1>3, <2>1, <2>2, EnterType
<1>10. CASE WorkspaceOwnershipExecutor(p)
  <2>. DEFINE x == [proc[p] EXCEPT !.pc = "ensure"]
              y == [x EXCEPT !.then = "promoted"]
  <2>1. x \in Process
    BY <1>2, <1>3, OneField
  <2>2. y \in Process
    BY <1>3, <2>1, OneField
  <2>3. UNCHANGED <<dirs, step>>
    BY <1>10 DEF WorkspaceOwnershipExecutor
  <2>4. \/ Deny(p) \/ Goto(p, "promoted")
        \/ proc' = [proc EXCEPT ![p] = y]
        \/ PublishThrough(p, path, "git", "promoted")
    BY <1>10 DEF WorkspaceOwnershipExecutor, Promote
  <2>. HIDE DEF y
  <2>5. ProcType'
    BY <1>2, <1>3, <2>2, <2>4, ProcessType, DenyType, GotoType, PublishType
  <2>. QED  BY <1>4, <2>3, <2>5
<1>11. CASE promoted(p)
  <2>1. UNCHANGED dirs /\ ((Deny(p) /\ UNCHANGED step) \/ Enter(p, "work"))
    BY <1>11 DEF promoted
  <2>. QED  BY <1>2, <1>3, <1>4, <2>1, DenyType, EnterType
<1>12. CASE finish(p)
  BY <1>2, <1>4, <1>12, DenyType DEF finish
<1>. QED  BY <1>5, <1>6, <1>7, <1>8, <1>9, <1>10, <1>11, <1>12 DEF Graph

LEMMA ResumeTypes ==
    ASSUME TypeInv, NEW p \in Procs, Resume(p)
    PROVE  TypeInv'
<1>1. Quiet /\ UNCHANGED <<dirs, step>>
  BY DEF Resume, resume_daemon_workflow, authorize_daemon_resume, ensure_durable_with_anchor,
         resumed
<1>2. used' = used /\ path \in 0 .. used /\ proc[p] \in Process /\ r_(p) \in Runs
  BY <1>1, Constants DEF Quiet, TypeInv
<1>3. /\ {"authorize", "ensure"} \subseteq Pcs /\ GraphSteps \cup {"none"} \subseteq Pcs
      /\ Continuations \subseteq Pcs /\ "resumed" \in Continuations /\ "git" \in Places
  BY DEF Pcs, GraphSteps, Continuations, Places
<1>. SUFFICES ProcType'
  BY <1>1, SameTypes, QuietType
<1>4. CASE resume_daemon_workflow(p)
  BY <1>2, <1>3, <1>4, GotoType DEF resume_daemon_workflow
<1>5. CASE authorize_daemon_resume(p)
  <2>. DEFINE x == [proc[p] EXCEPT !.pc = "ensure"]
              y == [x EXCEPT !.auth = path]
              z == [y EXCEPT !.then = "resumed"]
  <2>1. x \in Process
    BY <1>2, <1>3, OneField
  <2>2. y \in Process
    BY <1>2, <2>1, OneField
  <2>3. z \in Process
    BY <1>3, <2>2, OneField
  <2>4. proc' = [proc EXCEPT ![p] = z] \/ Deny(p)
    BY <1>5 DEF authorize_daemon_resume
  <2>. HIDE DEF z
  <2>. QED  BY <1>2, <2>3, <2>4, ProcessType, DenyType
<1>6. CASE ensure_durable_with_anchor(p)
  <2>1. \/ Deny(p) \/ Goto(p, proc[p].then)
        \/ PublishThrough(p, path, "git", proc[p].then)
    BY <1>6 DEF ensure_durable_with_anchor, Promote
  <2>2. proc[p].then \in Pcs /\ proc[p].then \in Continuations
    BY <1>3, Fields
  <2>. QED  BY <1>2, <1>3, <2>1, <2>2, DenyType, GotoType, PublishType
<1>7. CASE resumed(p)
  <2>1. step[r_(p)] \in Pcs /\ Goto(p, step[r_(p)])
    BY <1>2, <1>3, <1>7 DEF resumed, TypeInv
  <2>. QED  BY <1>2, <2>1, GotoType
<1>. QED  BY <1>4, <1>5, <1>6, <1>7 DEF Resume

LEMMA MigrateTypes ==
    ASSUME TypeInv, NEW p \in Procs, Migrate(p)
    PROVE  TypeInv'
<1>1. {"safety", "reconcile", "complete"} \subseteq Pcs /\ "complete" \in Continuations
      /\ "luther" \in Places
  BY DEF Pcs, Continuations, Places
<1>2. r_(p) \in Runs /\ path \in 0 .. used
  BY Constants DEF TypeInv
<1>3. UNCHANGED <<path, linked, dirs, used, step, disk, moved, cleaned>>
  BY DEF Migrate, migrate_legacy_ownership, validate_workspace_safety,
         publish_or_reconcile_migration_marker, record_completion, Quiet
<1>4. ProcType'
  <2>1. \/ Goto(p, "safety") \/ Goto(p, "reconcile") \/ Goto(p, "complete") \/ Deny(p)
        \/ PublishThrough(p, path, "luther", "complete")
    BY DEF Migrate, migrate_legacy_ownership, validate_workspace_safety,
           publish_or_reconcile_migration_marker, record_completion
  <2>. QED  BY <1>1, <1>2, <1>3, <2>1, GotoType, DenyType, PublishType
<1>5. mig' \in [Runs -> {"none", "pending", "completed"}]
  <2>1. \/ mig' = mig \/ mig' = [mig EXCEPT ![r_(p)] = "pending"]
        \/ mig' = [mig EXCEPT ![r_(p)] = "completed"]
    BY DEF Migrate, migrate_legacy_ownership, validate_workspace_safety,
           publish_or_reconcile_migration_marker, record_completion, Quiet,
           persist_migration_intent, guarded_complete_migration_in_transaction
  <2>2. mig \in [Runs -> {"none", "pending", "completed"}]
    BY DEF TypeInv
  <2>. QED  BY <2>1, <2>2
<1>6. prov' \in [Runs -> Versions]
  <2>1. \/ prov' = prov \/ prov' = [prov EXCEPT ![r_(p)] = "migrated"]
    BY DEF Migrate, migrate_legacy_ownership, validate_workspace_safety,
           publish_or_reconcile_migration_marker, record_completion, Quiet,
           tag_migrated_provenance
  <2>2. prov \in [Runs -> Versions] /\ "migrated" \in Versions
    BY DEF TypeInv, Versions
  <2>. QED  BY <2>1, <2>2
<1>7. DirType' /\ StepType'
  BY <1>3, SameTypes
<1>. QED  BY <1>3, <1>4, <1>5, <1>6, <1>7 DEF TypeInv, ProcType, DirType, StepType

\* What a death leaves of a temporary file.
LEMMA DieTypes ==
    ASSUME TypeInv, NEW p \in Procs, die(p)
    PROVE  TypeInv'
<1>1. UNCHANGED <<path, linked, used, mig, prov, step, disk, moved, cleaned, changes>>
  BY DEF die
<1>2. Deny(p)
  BY DEF die, Deny
<1>. DEFINE left(i) == {IF t.by = r_(p) /\ t.place = proc[p].place /\ i = proc[p].fd
                        THEN [t EXCEPT !.live = FALSE] ELSE t : t \in dirs[i].temps}
<1>3. ASSUME NEW i \in Inodes
      PROVE  [dirs[i] EXCEPT !.temps = left(i)] \in Directory
  <2>1. dirs[i] \in Directory
    BY DEF TypeInv
  <2>2. \A t \in dirs[i].temps : t \in Temporary /\ [t EXCEPT !.live = FALSE] \in Temporary
    BY <2>1 DEF Directory, Temporary
  <2>3. left(i) \in SUBSET Temporary
    BY <2>2
  <2>. HIDE DEF left
  <2>. QED  BY <2>1, <2>3, OneEntry
<1>4. dirs' = [i \in Inodes |-> [dirs[i] EXCEPT !.temps = left(i)]]
  BY DEF die
<1>. HIDE DEF left
<1>5. dirs' \in [Inodes -> Directory]
  BY <1>3, <1>4
<1>6. DirType'
  BY <1>5 DEF DirType, Directory, Temporary
<1>7. ProcType'
  BY <1>1, <1>2, DenyType
<1>8. StepType'
  BY <1>1, SameTypes
<1>. QED  BY <1>1, <1>6, <1>7, <1>8 DEF TypeInv, ProcType, DirType, StepType

LEMMA OutsideTypes ==
    ASSUME TypeInv, path_replaced \/ bootstrap_cleaned \/ config_edited
    PROVE  TypeInv'
<1>1. /\ used \in Nat /\ MaxDirs \in Nat /\ used <= MaxDirs
  BY Existing, Constants
<1>2. ASSUME used' \in Nat, used <= used', UNCHANGED proc PROVE ProcType'
  <2>1. 0 .. used \subseteq 0 .. used'
    BY <1>1, <1>2
  <2>2. Process \subseteq Process'
    BY <2>1 DEF Process
  <2>3. proc \in [Procs -> Process]
    BY DEF TypeInv
  <2>4. proc' \in [Procs -> Process']
    BY <1>2, <2>2, <2>3
  <2>. QED  BY <2>4 DEF ProcType
<1>3. CASE path_replaced
  <2>1. UNCHANGED <<proc, mig, prov, step, disk, cleaned>> /\ moved' = TRUE
    BY <1>3 DEF path_replaced
  <2>2. /\ used' \in 0 .. MaxDirs /\ path' \in 0 .. used' /\ used <= used' /\ used' \in Nat
        /\ linked' \in BOOLEAN
    <3>1. path \in 0 .. used /\ linked \in BOOLEAN
      BY DEF TypeInv
    <3>2. CASE \E i \in 0 .. used : path' = i /\ UNCHANGED <<dirs, used, linked>>
      BY <1>1, <3>1, <3>2
    <3>3. CASE /\ used < MaxDirs /\ used' = used + 1 /\ path' = used + 1
               /\ UNCHANGED linked
      BY <1>1, <3>1, <3>3
    <3>4. CASE linked' = ~linked /\ UNCHANGED <<path, dirs, used>>
      BY <1>1, <3>1, <3>4
    <3>. QED  BY <1>3, <3>2, <3>3, <3>4 DEF path_replaced
  <2>3. DirType'
    <3>1. UNCHANGED dirs \/ dirs' = [dirs EXCEPT ![used + 1] = Blank]
      BY <1>3 DEF path_replaced
    <3>2. Blank \in Directory
      BY NewDirectory DEF Someone
    <3>. QED  BY <3>1, <3>2, SameTypes, DirectoryType
  <2>4. StepType' /\ ProcType'
    BY <1>2, <2>1, <2>2, SameTypes
  <2>5. mig' \in [Runs -> {"none", "pending", "completed"}] /\ prov' \in [Runs -> Versions]
        /\ cleaned' \in {"none", "quietly", "racing"} /\ disk' \in DOMAIN Files
    BY <2>1 DEF TypeInv
  <2>. QED  BY <2>1, <2>2, <2>3, <2>4, <2>5 DEF TypeInv, ProcType, DirType, StepType
<1>4. CASE bootstrap_cleaned
  <2>1. UNCHANGED <<path, linked, used, proc, mig, prov, step, disk, moved>>
        /\ cleaned' \in {"none", "quietly", "racing"}
    BY <1>4 DEF bootstrap_cleaned
  <2>2. PICK i \in 1 .. used : dirs' = [dirs EXCEPT ![i].luther = NoRun]
    BY <1>4 DEF bootstrap_cleaned
  <2>. DEFINE d == [dirs[i] EXCEPT !.luther = NoRun]
  <2>3. i \in Inodes /\ dirs[i] \in Directory /\ NoRun \in Marks
    BY <1>1, Existing, SameTypes DEF Marks
  <2>4. d \in Directory
    BY <2>3, OneEntry
  <2>5. dirs' = [dirs EXCEPT ![i] = d]
    BY <2>2
  <2>. HIDE DEF d
  <2>6. DirType'
    BY <2>4, <2>5, DirectoryType
  <2>7. ProcType' /\ StepType'
    BY <1>1, <1>2, <2>1, SameTypes
  <2>8. path' \in 0 .. used' /\ used' \in 0 .. MaxDirs /\ linked' \in BOOLEAN /\ moved' \in BOOLEAN
        /\ mig' \in [Runs -> {"none", "pending", "completed"}] /\ prov' \in [Runs -> Versions]
        /\ disk' \in DOMAIN Files
    BY <2>1 DEF TypeInv
  <2>. QED  BY <2>1, <2>6, <2>7, <2>8 DEF TypeInv, ProcType, DirType, StepType
<1>5. CASE config_edited
  <2>1. UNCHANGED <<path, linked, dirs, used, proc, mig, prov, step, moved, cleaned>>
        /\ disk' \in DOMAIN Files
    BY <1>5 DEF config_edited
  <2>2. ProcType' /\ StepType' /\ DirType'
    BY <1>1, <1>2, <2>1, SameTypes
  <2>3. path' \in 0 .. used' /\ used' \in 0 .. MaxDirs /\ linked' \in BOOLEAN /\ moved' \in BOOLEAN
        /\ mig' \in [Runs -> {"none", "pending", "completed"}] /\ prov' \in [Runs -> Versions]
        /\ cleaned' \in {"none", "quietly", "racing"}
    BY <2>1 DEF TypeInv
  <2>. QED  BY <2>1, <2>2, <2>3 DEF TypeInv, ProcType, DirType, StepType
<1>. QED  BY <1>3, <1>4, <1>5

LEMMA TypeStep ==
    ASSUME TypeInv, \A p \in Procs : PlaceInv(p), Next
    PROVE  TypeInv'
<1>1. ASSUME NEW p \in Procs, Publish(p) \/ Provision(p) \/ Graph(p) \/ Resume(p)
                                \/ Migrate(p) \/ die(p)
      PROVE  TypeInv'
  BY <1>1, PublishTypes, ProvisionTypes, GraphTypes, ResumeTypes, MigrateTypes, DieTypes
<1>. QED  BY <1>1, OutsideTypes DEF Next

LEMMA TypeInit == Init => TypeInv
<1>. SUFFICES ASSUME Init PROVE TypeInv
  OBVIOUS
<1>1. Blank \in Directory
  BY NewDirectory DEF Someone
<1>2. used \in 0 .. MaxDirs /\ path \in 0 .. used /\ used \in Nat
  BY Constants DEF Init, NoDir
<1>3. dirs \in [Inodes -> Directory]
  <2>1. ASSUME NEW repo \in {"none", "repo", "other"}, NEW mark \in {NoRun, Malformed}
        PROVE  [Blank EXCEPT !.repo = repo, !.luther = mark, !.files = TRUE] \in Directory
    <3>. DEFINE x == [Blank EXCEPT !.repo = repo]
                y == [x EXCEPT !.luther = mark]
    <3>1. mark \in Marks
      BY DEF Marks
    <3>2. x \in Directory
      BY <1>1, OneEntry
    <3>3. y \in Directory
      BY <3>1, <3>2, OneEntry
    <3>. HIDE DEF y
    <3>4. [y EXCEPT !.files = TRUE] \in Directory
      BY <3>3 DEF Directory
    <3>. QED  BY <3>4 DEF y
  <2>2. CASE dirs = [i \in Inodes |-> Blank]
    BY <1>1, <2>2
  <2>3. CASE \E repo \in {"none", "repo", "other"}, mark \in {NoRun, Malformed} :
               dirs = [i \in Inodes |-> IF i # 1 THEN Blank ELSE
                          [Blank EXCEPT !.repo = repo, !.luther = mark, !.files = TRUE]]
    <3>1. PICK repo \in {"none", "repo", "other"}, mark \in {NoRun, Malformed} :
               dirs = [i \in Inodes |-> IF i # 1 THEN Blank ELSE
                          [Blank EXCEPT !.repo = repo, !.luther = mark, !.files = TRUE]]
      BY <2>3
    <3>. DEFINE d == [Blank EXCEPT !.repo = repo, !.luther = mark, !.files = TRUE]
    <3>2. d \in Directory
      BY <2>1
    <3>3. dirs = [i \in Inodes |-> IF i # 1 THEN Blank ELSE d]
      BY <3>1
    <3>. HIDE DEF d
    <3>. QED  BY <1>1, <3>2, <3>3
  <2>. QED  BY <2>2, <2>3 DEF Init
<1>4. proc \in [Procs -> Process]
  <2>1. Idle \in Process
    BY <1>2 DEF Idle, Process, Pcs, Places, Continuations, Versions, NoDir
  <2>. QED  BY <2>1 DEF Init
<1>5. /\ mig \in [Runs -> {"none", "pending", "completed"}] /\ prov \in [Runs -> Versions]
      /\ step \in [Runs -> GraphSteps \cup {"none"}]
  BY DEF Init, Versions, GraphSteps
<1>6. disk \in DOMAIN Files /\ linked \in BOOLEAN /\ moved \in BOOLEAN /\ cleaned = "none"
  BY Constants DEF Init
<1>. QED  BY <1>2, <1>3, <1>4, <1>5, <1>6 DEF TypeInv

-----------------------------------------------------------------------------
(* What one step does to the processes                                     *)

Kept(p) == \A q \in Procs : q # p => proc'[q] = proc[q]

LEMMA GotoFields ==
    ASSUME TypeInv, NEW p \in Procs, NEW pc, Goto(p, pc)
    PROVE  /\ Kept(p) /\ proc'[p].pc = pc
           /\ proc'[p].fd = proc[p].fd /\ proc'[p].auth = proc[p].auth
           /\ proc'[p].place = proc[p].place /\ proc'[p].then = proc[p].then
           /\ proc'[p].created = proc[p].created /\ proc'[p].version = proc[p].version
<1>1. proc \in [Procs -> Process]
  BY DEF TypeInv
<1>. QED  BY <1>1 DEF Goto, Kept, Process

LEMMA DenyFields ==
    ASSUME TypeInv, NEW p \in Procs, Deny(p)
    PROVE  /\ Kept(p) /\ proc'[p].pc = "off" /\ proc'[p].then = "off"
           /\ proc'[p].fd = NoDir /\ proc'[p].auth = NoDir /\ proc'[p].place = "luther"
           /\ proc'[p].created = FALSE
<1>1. proc \in [Procs -> Process]
  BY DEF TypeInv
<1>. QED  BY <1>1 DEF Deny, Idle, Kept

LEMMA PublishFields ==
    ASSUME TypeInv, NEW p \in Procs, NEW i, NEW place, NEW then, PublishThrough(p, i, place, then)
    PROVE  /\ Kept(p) /\ proc'[p].pc = "temp" /\ proc'[p].fd = i
           /\ proc'[p].place = place /\ proc'[p].then = then
           /\ proc'[p].auth = proc[p].auth /\ proc'[p].created = proc[p].created
<1>1. proc \in [Procs -> Process]
  BY DEF TypeInv
<1>2. Kept(p) /\ proc'[p] = [proc[p] EXCEPT !.pc = "temp", !.fd = i, !.place = place, !.then = then]
  BY <1>1 DEF PublishThrough, Kept
<1>3. proc[p] \in Process
  BY <1>1
<1>. QED  BY <1>2, <1>3 DEF Process

LEMMA EnterFields ==
    ASSUME TypeInv, NEW p \in Procs, NEW s, Enter(p, s)
    PROVE  /\ Kept(p) /\ proc'[p].pc = s /\ proc'[p].fd = NoDir
           /\ proc'[p].auth = proc[p].auth /\ proc'[p].place = proc[p].place
           /\ proc'[p].then = proc[p].then /\ proc'[p].created = proc[p].created
<1>1. proc \in [Procs -> Process]
  BY DEF TypeInv
<1>2. Kept(p) /\ proc'[p] = [proc[p] EXCEPT !.pc = s, !.fd = NoDir]
  BY <1>1 DEF Enter, Kept
<1>3. proc[p] \in Process
  BY <1>1
<1>. QED  BY <1>2, <1>3 DEF Process

\* A migration that is recorded stays recorded.
LEMMA MigrationStays ==
    ASSUME TypeInv, Next, NEW r \in Runs, mig[r] # "none"
    PROVE  mig'[r] # "none"
<1>. DEFINE Effect == \/ mig' = mig
                      \/ \E p \in Procs : mig' = persist_migration_intent(r_(p))
                      \/ \E p \in Procs : mig' = guarded_complete_migration_in_transaction(r_(p))
<1>1. Effect
  <2>1. ASSUME NEW p \in Procs, Publish(p) PROVE mig' = mig
    BY <2>1 DEF Publish, create_marker_temp, write_and_sync_temp, link_temp_to_final,
                publish_marker_relative, publication_lost, Quiet
  <2>2. ASSUME NEW p \in Procs, Provision(p) PROVE mig' = mig
    BY <2>2 DEF Provision, launch, provision_workspace_ownership, bootstrap_workspace_creation,
                claim, open_for_publication, provisioned, Quiet
  <2>3. ASSUME NEW p \in Procs, Graph(p) PROVE mig' = mig
    BY <2>3 DEF Graph, WorkspaceOwnershipVerifyExecutor, configure_command_cwd,
                setup_workspace_init, GitConfigPublishExecutor, publish_config,
                WorkspaceOwnershipExecutor, promoted, finish, Quiet
  <2>4. ASSUME NEW p \in Procs, Resume(p) PROVE mig' = mig
    BY <2>4 DEF Resume, resume_daemon_workflow, authorize_daemon_resume,
                ensure_durable_with_anchor, resumed, Quiet
  <2>5. ASSUME NEW p \in Procs, Migrate(p) PROVE Effect
    BY <2>5 DEF Migrate, migrate_legacy_ownership, validate_workspace_safety,
                publish_or_reconcile_migration_marker, record_completion, Quiet
  <2>6. ASSUME NEW p \in Procs, die(p) PROVE mig' = mig
    BY <2>6 DEF die
  <2>7. ASSUME path_replaced \/ bootstrap_cleaned \/ config_edited PROVE mig' = mig
    BY <2>7 DEF path_replaced, bootstrap_cleaned, config_edited
  <2>. HIDE DEF Effect
  <2>8. mig' = mig => Effect
    BY DEF Effect
  <2>. QED  BY <2>1, <2>2, <2>3, <2>4, <2>5, <2>6, <2>7, <2>8 DEF Next
<1>2. mig \in [Runs -> {"none", "pending", "completed"}]
  BY DEF TypeInv
<1>. QED
  BY <1>1, <1>2 DEF persist_migration_intent, guarded_complete_migration_in_transaction

-----------------------------------------------------------------------------
(* What each place of the program rests on                                 *)

\* A process that does not move keeps its facts.
LEMMA PlaceKept ==
    ASSUME TypeInv, Next, NEW q \in Procs, PlaceInv(q), proc'[q] = proc[q]
    PROVE  PlaceInv(q)'
<1>1. mig[r_(q)] # "none" => mig'[r_(q)] # "none"
  BY Constants, MigrationStays
<1>. QED  BY <1>1 DEF PlaceInv, Publishes, r_

LEMMA PlacePublish ==
    ASSUME TypeInv, Next, NEW p \in Procs, PlaceInv(p), Publish(p)
    PROVE  Kept(p) /\ PlaceInv(p)'
<1>1. mig' = mig
  BY DEF Publish, create_marker_temp, write_and_sync_temp, link_temp_to_final,
         publish_marker_relative, publication_lost, Quiet
<1>2. proc[p].then \in Continuations /\ proc[p].place \in {"luther", "git"}
  BY Fields DEF Places
<1>. USE DEF PlaceInv, Publishes, Publishing, r_
<1>3. CASE create_marker_temp(p)
  <2>1. Goto(p, "write") /\ proc[p].pc = "temp"
    BY <1>3 DEF create_marker_temp, At
  <2>. QED  BY <1>1, <2>1, GotoFields
<1>4. CASE write_and_sync_temp(p)
  <2>1. Goto(p, "link") /\ proc[p].pc = "write"
    BY <1>4 DEF write_and_sync_temp, At
  <2>. QED  BY <1>1, <2>1, GotoFields
<1>5. CASE link_temp_to_final(p)
  <2>1. (Goto(p, "linked") \/ Goto(p, "exists")) /\ proc[p].pc = "link"
    BY <1>5 DEF link_temp_to_final, At
  <2>. QED  BY <1>1, <2>1, GotoFields
<1>6. CASE publish_marker_relative(p)
  <2>1. Goto(p, proc[p].then) /\ proc[p].pc = "linked"
    BY <1>6 DEF publish_marker_relative, At
  <2>. QED  BY <1>1, <1>2, <2>1, GotoFields DEF Continuations
<1>7. CASE publication_lost(p)
  <2>1. proc[p].pc = "exists"
    BY <1>7 DEF publication_lost, At
  <2>2. CASE Deny(p)
    BY <2>2, DenyFields
  <2>3. CASE Goto(p, proc[p].then) /\ proc[p].then # "complete"
    BY <1>1, <1>2, <2>1, <2>3, GotoFields DEF Continuations
  <2>4. CASE Goto(p, "create") /\ proc[p].then # "complete" /\ proc[p].place # "git"
    BY <1>1, <1>2, <2>1, <2>4, GotoFields DEF Continuations
  <2>. QED  BY <1>7, <2>2, <2>3, <2>4 DEF publication_lost
<1>. QED  BY <1>3, <1>4, <1>5, <1>6, <1>7 DEF Publish

LEMMA PlaceProvision ==
    ASSUME TypeInv, Next, NEW p \in Procs, PlaceInv(p), Provision(p)
    PROVE  Kept(p) /\ PlaceInv(p)'
<1>1. mig' = mig
  BY DEF Provision, launch, provision_workspace_ownership, bootstrap_workspace_creation,
         claim, open_for_publication, provisioned, Quiet
<1>2. proc \in [Procs -> Process]
  BY DEF TypeInv
<1>. USE DEF PlaceInv, Publishes, Publishing, r_, NoDir
<1>3. CASE launch(p)
  <2>1. /\ Kept(p) /\ proc'[p].pc = "provision" /\ proc'[p].then = "provisioned"
        /\ r_(p) \notin Legacy
    BY <1>2, <1>3 DEF launch, Kept, Process
  <2>. QED  BY <1>1, <2>1
<1>4. CASE provision_workspace_ownership(p)
  <2>1. (Goto(p, "ensure") \/ Goto(p, "create")) /\ proc[p].pc = "provision"
    BY <1>4 DEF provision_workspace_ownership, At
  <2>. QED  BY <1>1, <2>1, GotoFields
<1>5. CASE bootstrap_workspace_creation(p)
  <2>1. proc[p].pc = "create"
    BY <1>5 DEF bootstrap_workspace_creation, At
  <2>2. CASE Deny(p)
    BY <2>2, DenyFields
  <2>3. ASSUME NEW c \in BOOLEAN, proc' = [proc EXCEPT ![p].pc = "claim", ![p].created = c]
        PROVE  Kept(p) /\ PlaceInv(p)'
    <3>1. /\ Kept(p) /\ proc'[p].pc = "claim" /\ proc'[p].then = proc[p].then
      BY <1>2, <2>3 DEF Kept, Process
    <3>. QED  BY <1>1, <2>1, <3>1
  <2>. QED  BY <1>5, <2>2, <2>3 DEF bootstrap_workspace_creation
<1>6. CASE claim(p)
  <2>1. /\ Goto(p, "create") \/ Deny(p) \/ Goto(p, "provisioned") \/ Goto(p, "open")
        /\ proc[p].pc = "claim"
    BY <1>6 DEF claim, At
  <2>2. CASE Deny(p)
    BY <2>2, DenyFields
  <2>3. ASSUME NEW pc \in {"create", "provisioned", "open"}, Goto(p, pc)
        PROVE  Kept(p) /\ PlaceInv(p)'
    BY <1>1, <2>1, <2>3, GotoFields
  <2>. QED  BY <2>1, <2>2, <2>3
<1>7. CASE open_for_publication(p)
  <2>1. /\ \/ Goto(p, "create") \/ Deny(p)
           \/ path # NoDir /\ PublishThrough(p, path, "luther", "provisioned")
        /\ proc[p].pc = "open"
    BY <1>7 DEF open_for_publication, At
  <2>2. CASE Deny(p)
    BY <2>2, DenyFields
  <2>3. CASE Goto(p, "create")
    BY <1>1, <2>1, <2>3, GotoFields
  <2>4. CASE path # NoDir /\ PublishThrough(p, path, "luther", "provisioned")
    BY <1>1, <2>1, <2>4, PublishFields
  <2>. QED  BY <2>1, <2>2, <2>3, <2>4
<1>8. CASE provisioned(p)
  <2>1. /\ Kept(p) /\ proc'[p].pc = "verify" /\ proc'[p].then = proc[p].then
        /\ proc[p].pc = "provisioned"
    BY <1>2, <1>8 DEF provisioned, Kept, Process, At
  <2>. QED  BY <1>1, <2>1
<1>. QED  BY <1>3, <1>4, <1>5, <1>6, <1>7, <1>8 DEF Provision

LEMMA PlaceGraph ==
    ASSUME TypeInv, Next, NEW p \in Procs, PlaceInv(p), Graph(p)
    PROVE  Kept(p) /\ PlaceInv(p)'
<1>1. mig' = mig
  BY DEF Graph, WorkspaceOwnershipVerifyExecutor, configure_command_cwd, setup_workspace_init,
         GitConfigPublishExecutor, publish_config, WorkspaceOwnershipExecutor, promoted,
         finish, Quiet
<1>2. proc \in [Procs -> Process]
  BY DEF TypeInv
<1>. USE DEF PlaceInv, Publishes, Publishing, r_
<1>3. ASSUME NEW s \in GraphSteps, Enter(p, s) PROVE Kept(p) /\ PlaceInv(p)'
  BY <1>1, <1>3, EnterFields DEF GraphSteps
<1>4. ASSUME Deny(p) PROVE Kept(p) /\ PlaceInv(p)'
  BY <1>4, DenyFields
<1>5. CASE WorkspaceOwnershipVerifyExecutor(p)
  <2>1. CASE proc' = [proc EXCEPT ![p].pc = "init", ![p].auth = IF @ = NoDir THEN path ELSE @]
    <3>1. Kept(p) /\ proc'[p].pc = "init" /\ proc'[p].then = proc[p].then
      BY <1>2, <2>1 DEF Kept, Process
    <3>. QED  BY <1>1, <3>1
  <2>2. Enter(p, "init") => Kept(p) /\ PlaceInv(p)'
    BY <1>3 DEF GraphSteps
  <2>. QED  BY <1>4, <1>5, <2>1, <2>2 DEF WorkspaceOwnershipVerifyExecutor
<1>6. CASE configure_command_cwd(p)
  <2>1. CASE proc' = [proc EXCEPT ![p].pc = "git_init", ![p].fd = path]
    <3>1. Kept(p) /\ proc'[p].pc = "git_init" /\ proc'[p].then = proc[p].then
      BY <1>2, <2>1 DEF Kept, Process
    <3>. QED  BY <1>1, <3>1
  <2>. QED  BY <1>4, <1>6, <2>1 DEF configure_command_cwd
<1>7. CASE setup_workspace_init(p)
  BY <1>3, <1>7 DEF setup_workspace_init, GraphSteps
<1>8. CASE GitConfigPublishExecutor(p)
  <2>1. CASE /\ proc[p].auth # NoDir /\ path = proc[p].auth
             /\ proc' = [proc EXCEPT ![p].pc = "config_write", ![p].fd = path]
    <3>1. /\ Kept(p) /\ proc'[p].pc = "config_write" /\ proc'[p].then = proc[p].then
          /\ proc'[p].fd = path /\ proc'[p].auth = proc[p].auth
      BY <1>2, <2>1 DEF Kept, Process
    <3>. QED  BY <1>1, <2>1, <3>1
  <2>. QED
    BY <1>4, <1>8, <2>1
    DEF GitConfigPublishExecutor, descriptor_matches_authorization, FileIdentity
<1>9. CASE publish_config(p)
  BY <1>3, <1>9 DEF publish_config, GraphSteps
<1>10. CASE WorkspaceOwnershipExecutor(p)
  <2>1. CASE Goto(p, "promoted")
    BY <1>1, <2>1, GotoFields
  <2>2. CASE proc' = [proc EXCEPT ![p].pc = "ensure", ![p].then = "promoted"]
    <3>1. Kept(p) /\ proc'[p].pc = "ensure" /\ proc'[p].then = "promoted"
      BY <1>2, <2>2 DEF Kept, Process
    <3>. QED  BY <1>1, <3>1
  <2>3. CASE path # NoDir /\ PublishThrough(p, path, "git", "promoted")
    BY <1>1, <2>3, PublishFields
  <2>4. adjudicate_workspace_ownership(r_(p)) = "owned" => path # NoDir
    BY DEF adjudicate_workspace_ownership
  <2>. QED
    BY <1>4, <1>10, <2>1, <2>2, <2>3, <2>4
    DEF WorkspaceOwnershipExecutor, Promote, verify_workspace_ownership
<1>11. CASE promoted(p)
  <2>1. Enter(p, "work") => Kept(p) /\ PlaceInv(p)'
    BY <1>3 DEF GraphSteps
  <2>. QED  BY <1>4, <1>11, <2>1 DEF promoted
<1>12. CASE finish(p)
  BY <1>4, <1>12 DEF finish
<1>. QED  BY <1>5, <1>6, <1>7, <1>8, <1>9, <1>10, <1>11, <1>12 DEF Graph

LEMMA PlaceResume ==
    ASSUME TypeInv, Next, NEW p \in Procs, PlaceInv(p), Resume(p)
    PROVE  Kept(p) /\ PlaceInv(p)'
<1>1. mig' = mig
  BY DEF Resume, resume_daemon_workflow, authorize_daemon_resume, ensure_durable_with_anchor,
         resumed, Quiet
<1>2. proc \in [Procs -> Process]
  BY DEF TypeInv
<1>. USE DEF PlaceInv, Publishes, Publishing, r_
<1>3. CASE resume_daemon_workflow(p)
  BY <1>1, <1>3, GotoFields DEF resume_daemon_workflow
<1>4. CASE authorize_daemon_resume(p)
  <2>1. CASE proc' = [proc EXCEPT ![p].pc = "ensure", ![p].auth = path, ![p].then = "resumed"]
    <3>1. Kept(p) /\ proc'[p].pc = "ensure" /\ proc'[p].then = "resumed"
      BY <1>2, <2>1 DEF Kept, Process
    <3>. QED  BY <1>1, <3>1
  <2>. QED  BY <1>4, <2>1, DenyFields DEF authorize_daemon_resume
<1>5. CASE ensure_durable_with_anchor(p)
  <2>1. /\ \/ Deny(p) \/ Goto(p, proc[p].then)
           \/ path # NoDir /\ PublishThrough(p, path, "git", proc[p].then)
        /\ proc[p].pc = "ensure"
    BY <1>5 DEF ensure_durable_with_anchor, Promote, At, WorkspaceAnchor_open
  <2>2. proc[p].then \in Continuations
    BY Fields
  <2>3. CASE Deny(p)
    BY <2>3, DenyFields
  <2>4. CASE Goto(p, proc[p].then)
    BY <1>1, <2>1, <2>2, <2>4, GotoFields DEF Continuations
  <2>5. CASE path # NoDir /\ PublishThrough(p, path, "git", proc[p].then)
    BY <1>1, <2>1, <2>5, PublishFields
  <2>. QED  BY <2>1, <2>3, <2>4, <2>5
<1>6. CASE resumed(p)
  <2>1. step[r_(p)] \in GraphSteps \cup {"none"} /\ Goto(p, step[r_(p)])
    BY <1>6, Constants DEF resumed, TypeInv
  <2>2. proc'[p].pc \in GraphSteps \cup {"none"} /\ proc'[p].then = proc[p].then /\ Kept(p)
    BY <2>1, GotoFields
  <2>. QED  BY <1>1, <2>2 DEF GraphSteps
<1>. QED  BY <1>3, <1>4, <1>5, <1>6 DEF Resume

LEMMA PlaceMigrate ==
    ASSUME TypeInv, Next, NEW p \in Procs, PlaceInv(p), Migrate(p)
    PROVE  Kept(p) /\ PlaceInv(p)'
<1>1. mig[r_(p)] # "none" => mig'[r_(p)] # "none"
  BY Constants, MigrationStays
<1>2. mig \in [Runs -> {"none", "pending", "completed"}] /\ r_(p) \in Runs
  BY Constants DEF TypeInv
<1>. USE DEF PlaceInv, Publishes, Publishing, r_
<1>3. CASE migrate_legacy_ownership(p)
  <2>1. Goto(p, "safety") /\ mig'[r_(p)] # "none"
    BY <1>2, <1>3 DEF migrate_legacy_ownership, persist_migration_intent
  <2>. QED  BY <2>1, GotoFields
<1>4. CASE validate_workspace_safety(p)
  <2>1. (Goto(p, "reconcile") \/ Deny(p)) /\ proc[p].pc = "safety"
    BY <1>4 DEF validate_workspace_safety, At
  <2>2. CASE Deny(p)
    BY <2>2, DenyFields
  <2>3. CASE Goto(p, "reconcile")
    BY <1>1, <2>1, <2>3, GotoFields
  <2>. QED  BY <2>1, <2>2, <2>3
<1>5. CASE publish_or_reconcile_migration_marker(p)
  <2>1. /\ \/ Goto(p, "complete") \/ Deny(p)
           \/ path # NoDir /\ PublishThrough(p, path, "luther", "complete")
        /\ proc[p].pc = "reconcile"
    BY <1>5 DEF publish_or_reconcile_migration_marker, At, WorkspaceAnchor_open
  <2>2. CASE Deny(p)
    BY <2>2, DenyFields
  <2>3. CASE Goto(p, "complete")
    BY <1>1, <2>1, <2>3, GotoFields
  <2>4. CASE path # NoDir /\ PublishThrough(p, path, "luther", "complete")
    BY <1>1, <2>1, <2>4, PublishFields
  <2>. QED  BY <2>1, <2>2, <2>3, <2>4
<1>6. CASE record_completion(p)
  BY <1>6, DenyFields DEF record_completion
<1>. QED  BY <1>3, <1>4, <1>5, <1>6 DEF Migrate

LEMMA PlaceStep ==
    ASSUME TypeInv, \A p \in Procs : PlaceInv(p), Next
    PROVE  \A p \in Procs : PlaceInv(p)'
<1>1. ASSUME NEW p \in Procs, Kept(p), PlaceInv(p)' PROVE \A q \in Procs : PlaceInv(q)'
  BY <1>1, PlaceKept DEF Kept
<1>2. ASSUME NEW p \in Procs, die(p) PROVE Kept(p) /\ PlaceInv(p)'
  <2>1. Deny(p)
    BY <1>2 DEF die, Deny
  <2>. QED  BY <2>1, DenyFields DEF PlaceInv, Publishes, Publishing
<1>3. CASE path_replaced \/ bootstrap_cleaned \/ config_edited
  <2>1. proc' = proc
    BY <1>3 DEF path_replaced, bootstrap_cleaned, config_edited
  <2>. QED  BY <2>1, PlaceKept
<1>. QED
  BY <1>1, <1>2, <1>3, PlacePublish, PlaceProvision, PlaceGraph, PlaceResume, PlaceMigrate
  DEF Next

-----------------------------------------------------------------------------
(* The kinds of step: what they do to the directories, and where a process *)
(* comes nearer to a record.                                               *)

\* An authorization is kept, dropped, or given for a directory of the run.
AuthFair(p) ==
    proc'[p].auth \in {NoDir, proc[p].auth} \/ Owners(proc'[p].auth) = {r_(p)}

Still(p) == Kept(p) /\ UNCHANGED <<dirs, path, used, moved, cleaned>> /\ AuthFair(p)

\* Nothing happens to the directories, and no claim or publication comes nearer.
Calm(p) ==
    Still(p) /\ proc'[p].pc \notin Publishing \cup {"create", "claim", "open", "reconcile"}

ToCreate(p) ==
    /\ Still(p) /\ proc'[p].pc = "create"
    /\ \/ proc[p].pc = "provision" /\ (path = NoDir \/ dirs[path].repo = "none")
       \/ proc[p].pc \in {"claim", "open"}

ToClaim(p) ==
    Still(p) /\ proc[p].pc = "create" /\ proc'[p].pc = "claim" /\ proc'[p].created = FALSE

Creates(p) ==
    /\ Kept(p) /\ proc'[p].auth = proc[p].auth
    /\ proc[p].pc = "create" /\ proc'[p].pc = "claim"
    /\ UNCHANGED <<moved, cleaned, mig>>
    /\ path = NoDir /\ used < MaxDirs /\ used' = used + 1 /\ path' = used + 1
    /\ dirs' = [dirs EXCEPT ![used + 1] = [Blank EXCEPT !.creator = r_(p)]]

ToOpen(p) ==
    /\ Still(p) /\ proc[p].pc = "claim" /\ proc'[p].pc = "open" /\ path # NoDir
    /\ proc[p].created \/ workspace_has_interrupted_publication_evidence(path, r_(p))

Begins(p, place) ==
    /\ Still(p) /\ path # NoDir
    /\ proc'[p].pc = "temp" /\ proc'[p].fd = path /\ proc'[p].place = place

Opens(p) == Begins(p, "luther") /\ proc[p].pc = "open"

Promotes(p) == Begins(p, "git") /\ promotable(path, r_(p))

ToReconcile(p) ==
    /\ Still(p) /\ proc[p].pc = "safety" /\ proc'[p].pc = "reconcile"
    /\ adjudicate_workspace_ownership(r_(p)) \in {"owned", "no_evidence"}

Reconciles(p) ==
    Begins(p, "luther") /\ proc[p].pc = "reconcile" /\ proc'[p].then = "complete"

Writes(p) ==
    /\ Kept(p) /\ AuthFair(p) /\ UNCHANGED <<path, used, moved, cleaned>>
    /\ proc'[p].pc \in GraphSteps

Inits(p) ==
    /\ Writes(p)
    /\ dirs' = [dirs EXCEPT ![proc[p].fd].repo = IF @ = "none" THEN "repo" ELSE @]

Configures(p) ==
    /\ Writes(p) /\ proc[p].pc = "config_write"
    /\ dirs' = [dirs EXCEPT ![proc[p].fd].config = r_(p)]

Kind(p) ==
    \/ Calm(p) \/ ToCreate(p) \/ ToClaim(p) \/ Creates(p) \/ ToOpen(p) \/ Opens(p)
    \/ Promotes(p) \/ ToReconcile(p) \/ Reconciles(p) \/ Inits(p) \/ Configures(p)

LEMMA ProvisionKind ==
    ASSUME TypeInv, NEW p \in Procs, Provision(p) PROVE Kind(p)
<1>1. proc \in [Procs -> Process]
  BY DEF TypeInv
<1>. USE DEF Publishing, AuthFair
<1>2. CASE launch(p)
  <2>1. /\ Kept(p) /\ proc'[p].pc = "provision" /\ proc'[p].auth = proc[p].auth
        /\ UNCHANGED <<dirs, path, used, moved, cleaned>>
    BY <1>1, <1>2 DEF launch, Kept, Process
  <2>. QED  BY <2>1 DEF Kind, Calm, Still
<1>3. CASE provision_workspace_ownership(p)
  <2>1. /\ \/ Goto(p, "ensure")
           \/ Goto(p, "create") /\ (path = NoDir \/ dirs[path].repo = "none")
        /\ UNCHANGED <<dirs, path, used, moved, cleaned>> /\ proc[p].pc = "provision"
    BY <1>3 DEF provision_workspace_ownership, At, Quiet
  <2>2. Goto(p, "ensure") => Calm(p)
    BY <2>1, GotoFields DEF Calm, Still
  <2>3. Goto(p, "create") /\ (path = NoDir \/ dirs[path].repo = "none") => ToCreate(p)
    BY <2>1, GotoFields DEF ToCreate, Still
  <2>. QED  BY <2>1, <2>2, <2>3 DEF Kind
<1>4. CASE bootstrap_workspace_creation(p)
  <2>1. UNCHANGED <<moved, cleaned, mig>> /\ proc[p].pc = "create"
    BY <1>4 DEF bootstrap_workspace_creation, At
  <2>2. CASE Deny(p) /\ UNCHANGED <<path, dirs, used>>
    <3>1. Calm(p)
      BY <2>1, <2>2, DenyFields DEF Calm, Still
    <3>. QED  BY <3>1 DEF Kind
  <2>3. CASE /\ proc' = [proc EXCEPT ![p].pc = "claim", ![p].created = FALSE]
             /\ UNCHANGED <<path, dirs, used>>
    <3>1. /\ Kept(p) /\ proc'[p].pc = "claim" /\ proc'[p].created = FALSE
          /\ proc'[p].auth = proc[p].auth
      BY <1>1, <2>3 DEF Kept, Process
    <3>2. ToClaim(p)
      BY <2>1, <2>3, <3>1 DEF ToClaim, Still
    <3>. QED  BY <3>2 DEF Kind
  <2>4. CASE /\ path = NoDir /\ used < MaxDirs
             /\ used' = used + 1 /\ path' = used + 1
             /\ dirs' = [dirs EXCEPT ![used + 1] = [Blank EXCEPT !.creator = r_(p)]]
             /\ proc' = [proc EXCEPT ![p].pc = "claim", ![p].created = TRUE]
    <3>1. Kept(p) /\ proc'[p].pc = "claim" /\ proc'[p].auth = proc[p].auth
      BY <1>1, <2>4 DEF Kept, Process
    <3>2. Creates(p)
      BY <2>1, <2>4, <3>1 DEF Creates
    <3>. QED  BY <3>2 DEF Kind
  <2>. QED  BY <1>4, <2>2, <2>3, <2>4 DEF bootstrap_workspace_creation
<1>5. CASE claim(p)
  <2>1. UNCHANGED <<dirs, path, used, moved, cleaned>> /\ proc[p].pc = "claim"
    BY <1>5 DEF claim, At, Quiet
  <2>2. CASE Deny(p)
    <3>1. Calm(p)
      BY <2>1, <2>2, DenyFields DEF Calm, Still
    <3>. QED  BY <3>1 DEF Kind
  <2>3. CASE Goto(p, "provisioned")
    <3>1. Calm(p)
      BY <2>1, <2>3, GotoFields DEF Calm, Still
    <3>. QED  BY <3>1 DEF Kind
  <2>4. CASE Goto(p, "create")
    <3>1. ToCreate(p)
      BY <2>1, <2>4, GotoFields DEF ToCreate, Still
    <3>. QED  BY <3>1 DEF Kind
  <2>5. CASE /\ Goto(p, "open") /\ path # NoDir
             /\ proc[p].created \/ workspace_has_interrupted_publication_evidence(path, r_(p))
    <3>1. ToOpen(p)
      BY <2>1, <2>5, GotoFields DEF ToOpen, Still
    <3>. QED  BY <3>1 DEF Kind
  <2>. QED  BY <1>5, <2>2, <2>3, <2>4, <2>5 DEF claim
<1>6. CASE open_for_publication(p)
  <2>1. UNCHANGED <<dirs, path, used, moved, cleaned>> /\ proc[p].pc = "open"
    BY <1>6 DEF open_for_publication, At, Quiet
  <2>2. CASE Deny(p)
    <3>1. Calm(p)
      BY <2>1, <2>2, DenyFields DEF Calm, Still
    <3>. QED  BY <3>1 DEF Kind
  <2>3. CASE Goto(p, "create")
    <3>1. ToCreate(p)
      BY <2>1, <2>3, GotoFields DEF ToCreate, Still
    <3>. QED  BY <3>1 DEF Kind
  <2>4. CASE path # NoDir /\ PublishThrough(p, path, "luther", "provisioned")
    <3>1. Opens(p)
      BY <2>1, <2>4, PublishFields DEF Opens, Begins, Still
    <3>. QED  BY <3>1 DEF Kind
  <2>. QED  BY <1>6, <2>2, <2>3, <2>4 DEF open_for_publication
<1>7. CASE provisioned(p)
  <2>1. /\ Kept(p) /\ proc'[p].pc = "verify" /\ proc'[p].auth = proc[p].auth
        /\ UNCHANGED <<dirs, path, used, moved, cleaned>>
    BY <1>1, <1>7 DEF provisioned, Kept, Process
  <2>. QED  BY <2>1 DEF Kind, Calm, Still
<1>. QED  BY <1>2, <1>3, <1>4, <1>5, <1>6, <1>7 DEF Provision

LEMMA GraphKind ==
    ASSUME TypeInv, DurableInv, NEW p \in Procs, Graph(p) PROVE Kind(p)
<1>1. proc \in [Procs -> Process] /\ r_(p) \in Runs
  BY Constants DEF TypeInv
<1>2. Quiet
  BY DEF Graph, WorkspaceOwnershipVerifyExecutor, configure_command_cwd, setup_workspace_init,
         GitConfigPublishExecutor, publish_config, WorkspaceOwnershipExecutor, promoted, finish
<1>3. UNCHANGED <<path, used, moved, cleaned>>
  BY <1>2 DEF Quiet
<1>. USE DEF Publishing, AuthFair
<1>4. ASSUME Deny(p), UNCHANGED dirs PROVE Kind(p)
  <2>1. Calm(p)
    BY <1>3, <1>4, DenyFields DEF Calm, Still
  <2>. QED  BY <2>1 DEF Kind
<1>5. ASSUME NEW s \in GraphSteps, Enter(p, s), UNCHANGED dirs PROVE Kind(p)
  <2>1. Calm(p)
    BY <1>3, <1>5, EnterFields DEF Calm, Still, GraphSteps
  <2>. QED  BY <2>1 DEF Kind
<1>6. CASE WorkspaceOwnershipVerifyExecutor(p)
  <2>1. UNCHANGED dirs
    BY <1>6 DEF WorkspaceOwnershipVerifyExecutor
  <2>2. CASE /\ adjudicate_workspace_ownership(r_(p)) = "owned"
             /\ proc' = [proc EXCEPT ![p].pc = "init",
                            ![p].auth = IF @ = NoDir THEN path ELSE @]
    <3>1. Owners(path) = {r_(p)}
      BY <1>1, <2>2, Judged
    <3>2. Kept(p) /\ proc'[p].pc = "init" /\ proc'[p].auth \in {path, proc[p].auth}
      BY <1>1, <2>2 DEF Kept, Process
    <3>3. Calm(p)
      BY <1>3, <2>1, <3>1, <3>2 DEF Calm, Still
    <3>. QED  BY <3>3 DEF Kind
  <2>3. Enter(p, "init") => Kind(p)
    BY <1>5, <2>1 DEF GraphSteps
  <2>. QED  BY <1>4, <1>6, <2>1, <2>2, <2>3 DEF WorkspaceOwnershipVerifyExecutor
<1>7. CASE configure_command_cwd(p)
  <2>1. CASE proc' = [proc EXCEPT ![p].pc = "git_init", ![p].fd = path]
    <3>1. Kept(p) /\ proc'[p].pc = "git_init" /\ proc'[p].auth = proc[p].auth
      BY <1>1, <2>1 DEF Kept, Process
    <3>2. Calm(p)
      BY <1>3, <1>7, <3>1 DEF Calm, Still, configure_command_cwd
    <3>. QED  BY <3>2 DEF Kind
  <2>. QED  BY <1>4, <1>7, <2>1 DEF configure_command_cwd
<1>8. CASE setup_workspace_init(p)
  <2>1. Inits(p)
    BY <1>3, <1>8, EnterFields DEF setup_workspace_init, Inits, Writes, GraphSteps
  <2>. QED  BY <2>1 DEF Kind
<1>9. CASE GitConfigPublishExecutor(p)
  <2>1. CASE proc' = [proc EXCEPT ![p].pc = "config_write", ![p].fd = path]
    <3>1. Kept(p) /\ proc'[p].pc = "config_write" /\ proc'[p].auth = proc[p].auth
      BY <1>1, <2>1 DEF Kept, Process
    <3>2. Calm(p)
      BY <1>3, <1>9, <3>1 DEF Calm, Still, GitConfigPublishExecutor
    <3>. QED  BY <3>2 DEF Kind
  <2>. QED  BY <1>4, <1>9, <2>1 DEF GitConfigPublishExecutor
<1>10. CASE publish_config(p)
  <2>1. Configures(p)
    BY <1>3, <1>10, EnterFields DEF publish_config, Configures, Writes, GraphSteps, At
  <2>. QED  BY <2>1 DEF Kind
<1>11. CASE WorkspaceOwnershipExecutor(p)
  <2>1. UNCHANGED dirs
    BY <1>11 DEF WorkspaceOwnershipExecutor
  <2>2. CASE Goto(p, "promoted")
    <3>1. Calm(p)
      BY <1>3, <2>1, <2>2, GotoFields DEF Calm, Still
    <3>. QED  BY <3>1 DEF Kind
  <2>3. CASE proc' = [proc EXCEPT ![p].pc = "ensure", ![p].then = "promoted"]
    <3>1. Kept(p) /\ proc'[p].pc = "ensure" /\ proc'[p].auth = proc[p].auth
      BY <1>1, <2>3 DEF Kept, Process
    <3>2. Calm(p)
      BY <1>3, <2>1, <3>1 DEF Calm, Still
    <3>. QED  BY <3>2 DEF Kind
  <2>4. CASE /\ path # NoDir /\ promotable(path, r_(p))
             /\ PublishThrough(p, path, "git", "promoted")
    <3>1. Promotes(p)
      BY <1>3, <2>1, <2>4, PublishFields DEF Promotes, Begins, Still
    <3>. QED  BY <3>1 DEF Kind
  <2>5. adjudicate_workspace_ownership(r_(p)) = "owned" => path # NoDir
    BY DEF adjudicate_workspace_ownership
  <2>. QED
    BY <1>4, <1>11, <2>1, <2>2, <2>3, <2>4, <2>5
    DEF WorkspaceOwnershipExecutor, Promote, verify_workspace_ownership
<1>12. CASE promoted(p)
  <2>1. Enter(p, "work") => Kind(p)
    BY <1>5, <1>12 DEF GraphSteps, promoted
  <2>. QED  BY <1>4, <1>12, <2>1 DEF promoted
<1>13. CASE finish(p)
  BY <1>4, <1>13 DEF finish
<1>. QED  BY <1>6, <1>7, <1>8, <1>9, <1>10, <1>11, <1>12, <1>13 DEF Graph

LEMMA ResumeKind ==
    ASSUME TypeInv, DurableInv, NEW p \in Procs, PlaceInv(p), Resume(p) PROVE Kind(p)
<1>1. proc \in [Procs -> Process] /\ r_(p) \in Runs
  BY Constants DEF TypeInv
<1>2. Quiet /\ UNCHANGED dirs
  BY DEF Resume, resume_daemon_workflow, authorize_daemon_resume, ensure_durable_with_anchor,
         resumed
<1>3. UNCHANGED <<path, used, moved, cleaned>>
  BY <1>2 DEF Quiet
<1>. USE DEF Publishing, AuthFair
<1>4. ASSUME NEW pc, pc \notin Publishing \cup {"create", "claim", "open", "reconcile"}, Goto(p, pc)
      PROVE  Kind(p)
  <2>1. Calm(p)
    BY <1>2, <1>3, <1>4, GotoFields DEF Calm, Still
  <2>. QED  BY <2>1 DEF Kind
<1>5. ASSUME Deny(p) PROVE Kind(p)
  <2>1. Calm(p)
    BY <1>2, <1>3, <1>5, DenyFields DEF Calm, Still
  <2>. QED  BY <2>1 DEF Kind
<1>6. CASE resume_daemon_workflow(p)
  BY <1>4, <1>6 DEF resume_daemon_workflow
<1>7. CASE authorize_daemon_resume(p)
  <2>1. CASE /\ adjudicate_workspace_ownership(r_(p)) = "owned"
             /\ proc' = [proc EXCEPT ![p].pc = "ensure", ![p].auth = path, ![p].then = "resumed"]
    <3>1. Owners(path) = {r_(p)}
      BY <1>1, <2>1, Judged
    <3>2. Kept(p) /\ proc'[p].pc = "ensure" /\ proc'[p].auth = path
      BY <1>1, <2>1 DEF Kept, Process
    <3>3. Calm(p)
      BY <1>2, <1>3, <3>1, <3>2 DEF Calm, Still
    <3>. QED  BY <3>3 DEF Kind
  <2>. QED  BY <1>5, <1>7, <2>1 DEF authorize_daemon_resume, prepare_resume_authorization
<1>8. CASE ensure_durable_with_anchor(p)
  <2>1. proc[p].then \notin Publishing \cup {"create", "claim", "open", "reconcile"}
    BY <1>8, Fields DEF Continuations
  <2>2. CASE Goto(p, proc[p].then)
    BY <1>4, <2>1, <2>2
  <2>3. CASE /\ path # NoDir /\ promotable(path, r_(p))
             /\ PublishThrough(p, path, "git", proc[p].then)
    <3>1. Promotes(p)
      BY <1>2, <1>3, <2>3, PublishFields DEF Promotes, Begins, Still
    <3>. QED  BY <3>1 DEF Kind
  <2>. QED
    BY <1>5, <1>8, <2>2, <2>3 DEF ensure_durable_with_anchor, Promote, WorkspaceAnchor_open
<1>9. CASE resumed(p)
  <2>1. step[r_(p)] \in GraphSteps \cup {"none"} /\ Goto(p, step[r_(p)])
    BY <1>1, <1>9 DEF resumed, TypeInv
  <2>2. step[r_(p)] \notin Publishing \cup {"create", "claim", "open", "reconcile"}
    BY <2>1 DEF GraphSteps
  <2>. QED  BY <1>4, <2>1, <2>2
<1>. QED  BY <1>6, <1>7, <1>8, <1>9 DEF Resume

LEMMA MigrateKind ==
    ASSUME TypeInv, NEW p \in Procs, Migrate(p) PROVE Kind(p)
<1>1. UNCHANGED <<dirs, path, used, moved, cleaned>>
  BY DEF Migrate, migrate_legacy_ownership, validate_workspace_safety,
         publish_or_reconcile_migration_marker, record_completion, Quiet
<1>. USE DEF Publishing, AuthFair
<1>2. ASSUME NEW pc \in {"safety", "complete"}, Goto(p, pc) PROVE Kind(p)
  <2>1. Calm(p)
    BY <1>1, <1>2, GotoFields DEF Calm, Still
  <2>. QED  BY <2>1 DEF Kind
<1>3. ASSUME Deny(p) PROVE Kind(p)
  <2>1. Calm(p)
    BY <1>1, <1>3, DenyFields DEF Calm, Still
  <2>. QED  BY <2>1 DEF Kind
<1>4. CASE migrate_legacy_ownership(p)
  BY <1>2, <1>4 DEF migrate_legacy_ownership
<1>5. CASE validate_workspace_safety(p)
  <2>1. CASE /\ adjudicate_workspace_ownership(r_(p)) \in {"owned", "no_evidence"}
             /\ Goto(p, "reconcile")
    <3>1. ToReconcile(p)
      BY <1>1, <1>5, <2>1, GotoFields DEF ToReconcile, Still, validate_workspace_safety, At
    <3>. QED  BY <3>1 DEF Kind
  <2>. QED  BY <1>3, <1>5, <2>1 DEF validate_workspace_safety
<1>6. CASE publish_or_reconcile_migration_marker(p)
  <2>1. CASE path # NoDir /\ PublishThrough(p, path, "luther", "complete")
    <3>1. Reconciles(p)
      BY <1>1, <1>6, <2>1, PublishFields
      DEF Reconciles, Begins, Still, publish_or_reconcile_migration_marker, At
    <3>. QED  BY <3>1 DEF Kind
  <2>. QED
    BY <1>2, <1>3, <1>6, <2>1 DEF publish_or_reconcile_migration_marker, WorkspaceAnchor_open
<1>7. CASE record_completion(p)
  BY <1>3, <1>7 DEF record_completion
<1>. QED  BY <1>4, <1>5, <1>6, <1>7 DEF Migrate

-----------------------------------------------------------------------------
(* What one step does to a directory                                       *)

SameRecords(i) ==
    /\ dirs'[i].luther = dirs[i].luther /\ dirs'[i].git = dirs[i].git
    /\ dirs'[i].creator = dirs[i].creator

SameEntries(i) ==
    SameRecords(i) /\ dirs'[i].repo = dirs[i].repo /\ dirs'[i].config = dirs[i].config

IsBlank(d) ==
    /\ d.luther = NoRun /\ d.git = NoRun /\ d.temps = {} /\ d.repo = "none" /\ d.config = NoRun

LEMMA MadeDirectory ==
    ASSUME TypeInv, used < MaxDirs, NEW r,
           \/ dirs' = [dirs EXCEPT ![used + 1] = [Blank EXCEPT !.creator = r]]
           \/ dirs' = [dirs EXCEPT ![used + 1] = Blank]
    PROVE  /\ used + 1 \in Inodes /\ IsBlank(dirs'[used + 1])
           /\ \A i \in Inodes : i # used + 1 => dirs'[i] = dirs[i]
           /\ \A i \in 1 .. used : i # used + 1
           /\ dirs' = [dirs EXCEPT ![used + 1] = [Blank EXCEPT !.creator = r]]
                 => dirs'[used + 1].creator = r
<1>1. used + 1 \in Inodes /\ \A i \in 1 .. used : i # used + 1
  BY Existing, Constants DEF Inodes
<1>2. dirs \in [Inodes -> Directory]
  BY DEF TypeInv
<1>. QED  BY <1>1, <1>2 DEF IsBlank, Blank

LEMMA InitsFields ==
    ASSUME TypeInv, NEW p \in Procs, Inits(p)
    PROVE  \A i \in Inodes :
              /\ SameRecords(i) /\ dirs'[i].temps = dirs[i].temps
              /\ dirs'[i].config = dirs[i].config
              /\ dirs'[i].repo = dirs[i].repo \/ dirs[i].repo = "none"
              /\ dirs'[i].repo = "none" => dirs[i].repo = "none"
<1>1. dirs \in [Inodes -> Directory]
  BY DEF TypeInv
<1>. QED  BY <1>1 DEF Inits, SameRecords, Directory

LEMMA ConfiguresFields ==
    ASSUME TypeInv, NEW p \in Procs, Configures(p)
    PROVE  \A i \in Inodes :
              /\ SameRecords(i) /\ dirs'[i].temps = dirs[i].temps /\ dirs'[i].repo = dirs[i].repo
              /\ dirs'[i].config = dirs[i].config \/ (i = proc[p].fd /\ dirs'[i].config = r_(p))
<1>1. dirs \in [Inodes -> Directory]
  BY DEF TypeInv
<1>2. dirs' = [dirs EXCEPT ![proc[p].fd].config = r_(p)]
  BY DEF Configures
<1>3. ASSUME NEW i \in Inodes, i # proc[p].fd PROVE dirs'[i] = dirs[i]
  BY <1>1, <1>2, <1>3
<1>4. ASSUME NEW i \in Inodes, i = proc[p].fd
      PROVE  /\ SameRecords(i) /\ dirs'[i].temps = dirs[i].temps
             /\ dirs'[i].repo = dirs[i].repo /\ dirs'[i].config = r_(p)
  <2>. DEFINE d == [dirs[i] EXCEPT !.config = r_(p)]
  <2>1. dirs'[i] = d
    BY <1>1, <1>2, <1>4
  <2>2. dirs[i] \in Directory
    BY <1>1
  <2>3. /\ d.luther = dirs[i].luther /\ d.git = dirs[i].git /\ d.creator = dirs[i].creator
        /\ d.temps = dirs[i].temps /\ d.repo = dirs[i].repo /\ d.config = r_(p)
    BY <2>2 DEF Directory
  <2>. HIDE DEF d
  <2>. QED  BY <2>1, <2>3 DEF SameRecords
<1>. QED  BY <1>3, <1>4 DEF SameRecords

\* The steps around a temporary file leave everything else alone.
Writing(p) ==
    \/ create_marker_temp(p) \/ write_and_sync_temp(p) \/ publish_marker_relative(p)
    \/ publication_lost(p)

LEMMA WritingFields ==
    ASSUME TypeInv, NEW p \in Procs, Writing(p)
    PROVE  \A i \in Inodes :
              /\ SameEntries(i)
              /\ \A t \in dirs'[i].temps :
                    \/ t \in dirs[i].temps
                    \/ i = proc[p].fd /\ t.by = r_(p) /\ t.place = proc[p].place
<1>1. dirs \in [Inodes -> Directory]
  BY DEF TypeInv
<1>2. PICK T :
         /\ dirs' = [dirs EXCEPT ![proc[p].fd].temps = T]
         /\ \A t \in T : \/ t \in dirs[proc[p].fd].temps
                         \/ t = MyTemp(p, TRUE) \/ t = MyTemp(p, FALSE)
  <2>. DEFINE old == dirs[proc[p].fd].temps
              A == old \cup {MyTemp(p, FALSE)}
              B == (old \ {MyTemp(p, FALSE)}) \cup {MyTemp(p, TRUE)}
              C == old \ {MyTemp(p, TRUE)}
  <2>1. \/ dirs' = [dirs EXCEPT ![proc[p].fd].temps = A]
        \/ dirs' = [dirs EXCEPT ![proc[p].fd].temps = B]
        \/ dirs' = [dirs EXCEPT ![proc[p].fd].temps = C]
    BY DEF Writing, create_marker_temp, write_and_sync_temp, publish_marker_relative,
           publication_lost
  <2>2. \A t \in A \cup B \cup C : t \in old \/ t = MyTemp(p, TRUE) \/ t = MyTemp(p, FALSE)
    OBVIOUS
  <2>. HIDE DEF A, B, C
  <2>. QED  BY <2>1, <2>2
<1>3. ASSUME NEW t, t = MyTemp(p, TRUE) \/ t = MyTemp(p, FALSE)
      PROVE  t.by = r_(p) /\ t.place = proc[p].place
  BY <1>3 DEF MyTemp
<1>4. ASSUME NEW i \in Inodes, i # proc[p].fd PROVE dirs'[i] = dirs[i]
  BY <1>1, <1>2, <1>4
<1>5. ASSUME NEW i \in Inodes, i = proc[p].fd
      PROVE  SameEntries(i) /\ dirs'[i].temps = T
  BY <1>1, <1>2, <1>5 DEF Directory, SameEntries, SameRecords
<1>. QED  BY <1>2, <1>3, <1>4, <1>5 DEF SameEntries, SameRecords

LEMMA DieFields ==
    ASSUME TypeInv, NEW p \in Procs, die(p)
    PROVE  \A i \in Inodes :
              /\ SameEntries(i)
              /\ \A t \in dirs'[i].temps : \E u \in dirs[i].temps :
                    t.by = u.by /\ t.place = u.place
<1>. DEFINE left(i) == {IF t.by = r_(p) /\ t.place = proc[p].place /\ i = proc[p].fd
                        THEN [t EXCEPT !.live = FALSE] ELSE t : t \in dirs[i].temps}
<1>1. dirs' = [i \in Inodes |-> [dirs[i] EXCEPT !.temps = left(i)]]
  BY DEF die
<1>2. dirs \in [Inodes -> Directory]
  BY DEF TypeInv
<1>3. ASSUME NEW i \in Inodes
      PROVE  \A t \in left(i) : \E u \in dirs[i].temps : t.by = u.by /\ t.place = u.place
  <2>1. dirs[i].temps \subseteq Temporary
    BY <1>2 DEF Directory
  <2>2. \A u \in dirs[i].temps : [u EXCEPT !.live = FALSE].by = u.by
                                 /\ [u EXCEPT !.live = FALSE].place = u.place
    BY <2>1 DEF Temporary
  <2>. QED  BY <2>2
<1>. HIDE DEF left
<1>4. ASSUME NEW i \in Inodes PROVE SameEntries(i) /\ dirs'[i].temps = left(i)
  BY <1>1, <1>2 DEF Directory, SameEntries, SameRecords
<1>. QED  BY <1>3, <1>4

\* A link names a record that was not there.
LEMMA LinkFields ==
    ASSUME TypeInv, NEW p \in Procs, PlaceInv(p), link_temp_to_final(p)
    PROVE  /\ proc[p].pc = "link" /\ proc[p].fd \in Inodes
           /\ \A i \in Inodes :
                 /\ dirs'[i].temps = dirs[i].temps /\ dirs'[i].repo = dirs[i].repo
                 /\ dirs'[i].config = dirs[i].config /\ dirs'[i].creator = dirs[i].creator
                 /\ dirs'[i].luther =
                       IF i = proc[p].fd /\ proc[p].place = "luther" /\ dirs[i].luther = NoRun
                       THEN r_(p) ELSE dirs[i].luther
                 /\ dirs'[i].git =
                       IF i = proc[p].fd /\ proc[p].place = "git" /\ dirs[i].git = NoRun
                       THEN r_(p) ELSE dirs[i].git
<1>1. dirs \in [Inodes -> Directory] /\ proc[p].place \in {"luther", "git"}
  BY Fields DEF TypeInv, Places
<1>2. proc[p].pc = "link"
  BY DEF link_temp_to_final, At
<1>3. proc[p].fd \in Inodes
  BY <1>2, Existing DEF PlaceInv, Publishing
<1>. DEFINE d == linkat(dirs[proc[p].fd], proc[p].place, r_(p))
<1>4. dirs' = [dirs EXCEPT ![proc[p].fd] = d]
  BY DEF link_temp_to_final
<1>5. /\ d.temps = dirs[proc[p].fd].temps /\ d.repo = dirs[proc[p].fd].repo
      /\ d.config = dirs[proc[p].fd].config /\ d.creator = dirs[proc[p].fd].creator
      /\ d.luther = IF proc[p].place = "luther" /\ dirs[proc[p].fd].luther = NoRun
                    THEN r_(p) ELSE dirs[proc[p].fd].luther
      /\ d.git = IF proc[p].place = "git" /\ dirs[proc[p].fd].git = NoRun
                 THEN r_(p) ELSE dirs[proc[p].fd].git
  <2>1. dirs[proc[p].fd] \in Directory
    BY <1>1, <1>3
  <2>2. CASE proc[p].place = "luther"
    BY <2>1, <2>2 DEF linkat, Directory
  <2>3. CASE proc[p].place = "git"
    BY <2>1, <2>3 DEF linkat, Directory
  <2>. QED  BY <1>1, <2>2, <2>3
<1>. HIDE DEF d
<1>6. ASSUME NEW i \in Inodes
      PROVE  dirs'[i] = IF i = proc[p].fd THEN d ELSE dirs[i]
  BY <1>1, <1>4
<1>. QED  BY <1>2, <1>3, <1>5, <1>6

LEMMA CleanFields ==
    ASSUME TypeInv, bootstrap_cleaned
    PROVE  /\ UNCHANGED <<path, used, proc, mig, prov, moved>>
           /\ cleaned' \in {"quietly", "racing"}
           /\ cleaned' = "quietly" =>
                 cleaned # "racing" /\ \A p \in Procs : proc[p].pc \in {"off", "work"}
           /\ \E c \in 1 .. used :
                 /\ dirs[c].luther # NoRun /\ dirs[c].git = dirs[c].luther
                 /\ dirs'[c].luther = NoRun
                 /\ \A i \in Inodes :
                       /\ dirs'[i].git = dirs[i].git /\ dirs'[i].repo = dirs[i].repo
                       /\ dirs'[i].config = dirs[i].config /\ dirs'[i].temps = dirs[i].temps
                       /\ dirs'[i].creator = dirs[i].creator
                       /\ i # c => dirs'[i].luther = dirs[i].luther
<1>1. dirs \in [Inodes -> Directory]
  BY DEF TypeInv
<1>2. PICK c \in 1 .. used : /\ dirs[c].luther # NoRun /\ dirs[c].git = dirs[c].luther
                             /\ dirs' = [dirs EXCEPT ![c].luther = NoRun]
  BY DEF bootstrap_cleaned
<1>3. c \in Inodes
  BY Existing
<1>4. /\ dirs'[c].luther = NoRun
      /\ \A i \in Inodes :
            /\ dirs'[i].git = dirs[i].git /\ dirs'[i].repo = dirs[i].repo
            /\ dirs'[i].config = dirs[i].config /\ dirs'[i].temps = dirs[i].temps
            /\ dirs'[i].creator = dirs[i].creator
            /\ i # c => dirs'[i].luther = dirs[i].luther
  BY <1>1, <1>2, <1>3 DEF Directory
<1>5. /\ UNCHANGED <<path, used, proc, mig, prov, moved>>
      /\ cleaned' = IF cleaned # "racing" /\ \A p \in Procs : proc[p].pc \in {"off", "work"}
                    THEN "quietly" ELSE "racing"
  BY DEF bootstrap_cleaned
<1>. QED  BY <1>2, <1>4, <1>5

-----------------------------------------------------------------------------
(* Durable records                                                         *)

\* The part of DurableInv about the directories, and about one process.
DurableDir(i) ==
    /\ dirs[i].git # NoRun => dirs[i].repo = "repo"
    /\ \A t \in dirs[i].temps : t.place = "git" => dirs[i].repo = "repo"

DurableProc(p) ==
    Publishes(p, "git") =>
       /\ dirs[proc[p].fd].repo = "repo"
       /\ cleaned # "racing" => dirs[proc[p].fd].luther = r_(p)

LEMMA DurableParts ==
    /\ DurableInv <=> (\A i \in Inodes : DurableDir(i)) /\ (\A p \in Procs : DurableProc(p))
    /\ DurableInv' <=> (\A i \in Inodes : DurableDir(i)') /\ (\A p \in Procs : DurableProc(p)')
BY DEF DurableInv, DurableDir, DurableProc

\* A process that publishes has its directory open.
LEMMA OpenDirectory ==
    ASSUME TypeInv, NEW p \in Procs, PlaceInv(p), proc[p].pc \in Publishing
    PROVE  proc[p].fd \in Inodes /\ proc[p].fd \in 1 .. used
BY Existing DEF PlaceInv

LEMMA DurableKind ==
    ASSUME TypeInv, DurableInv, \A q \in Procs : PlaceInv(q), NEW p \in Procs, Kind(p)
    PROVE  DurableInv'
<1>1. (\A i \in Inodes : DurableDir(i)) /\ (\A q \in Procs : DurableProc(q))
  BY DurableParts
<1>. SUFFICES (\A i \in Inodes : DurableDir(i)') /\ (\A q \in Procs : DurableProc(q)')
  BY DurableParts
<1>2. Kept(p) /\ UNCHANGED cleaned
  BY DEF Kind, Calm, ToCreate, ToClaim, Creates, ToOpen, Opens, Promotes, ToReconcile,
         Reconciles, Inits, Configures, Begins, Still, Writes
<1>3. CASE Still(p)
  <2>1. UNCHANGED dirs
    BY <1>3 DEF Still
  <2>2. \A i \in Inodes : DurableDir(i)'
    BY <1>1, <2>1 DEF DurableDir
  <2>3. ASSUME NEW q \in Procs, q # p PROVE DurableProc(q)'
    BY <1>1, <1>2, <2>1, <2>3 DEF DurableProc, Publishes, Kept, r_
  <2>4. DurableProc(p)'
    <3>1. CASE ~Publishes(p, "git")'
      BY <3>1 DEF DurableProc
    <3>2. CASE Promotes(p)
      BY <2>1, <3>2
      DEF Promotes, Begins, DurableProc, promotable, read_bootstrap_bytes,
          open_git_directory_relative, r_
    <3>3. Kind(p) /\ Still(p) /\ Publishes(p, "git")' => Promotes(p)
      <4>1. Inits(p) \/ Configures(p) => proc'[p].pc \in GraphSteps
        BY DEF Inits, Configures, Writes
      <4>. QED
        BY <4>1 DEF Kind, Calm, ToCreate, ToClaim, Creates, ToOpen, Opens, Reconciles, ToReconcile,
             Begins, Publishes, Publishing, GraphSteps
    <3>. QED  BY <1>3, <3>1, <3>2, <3>3
  <2>. QED  BY <2>2, <2>3, <2>4
<1>4. CASE Creates(p)
  <2>1. /\ used < MaxDirs /\ proc'[p].pc = "claim"
        /\ dirs' = [dirs EXCEPT ![used + 1] = [Blank EXCEPT !.creator = r_(p)]]
    BY <1>4 DEF Creates
  <2>2. /\ used + 1 \in Inodes /\ IsBlank(dirs'[used + 1])
        /\ \A i \in Inodes : i # used + 1 => dirs'[i] = dirs[i]
        /\ \A i \in 1 .. used : i # used + 1
    BY <2>1, MadeDirectory
  <2>3. \A i \in Inodes : DurableDir(i)'
    BY <1>1, <2>2 DEF DurableDir, IsBlank
  <2>4. ASSUME NEW q \in Procs, Publishes(q, "git")' PROVE DurableProc(q)'
    <3>1. q # p /\ proc'[q] = proc[q]
      BY <1>2, <2>1, <2>4 DEF Publishes, Publishing, Kept
    <3>2. Publishes(q, "git")
      BY <2>4, <3>1 DEF Publishes
    <3>3. dirs'[proc[q].fd] = dirs[proc[q].fd]
      BY <2>2, <3>2, OpenDirectory DEF Publishes
    <3>. QED  BY <1>1, <1>2, <3>1, <3>2, <3>3 DEF DurableProc, r_
  <2>. QED  BY <2>3, <2>4 DEF DurableProc
<1>5. CASE Inits(p) \/ Configures(p)
  <2>1. \A i \in Inodes : /\ SameRecords(i) /\ dirs'[i].temps = dirs[i].temps
                          /\ dirs'[i].repo = dirs[i].repo \/ dirs[i].repo = "none"
    BY <1>5, InitsFields, ConfiguresFields
  <2>2. \A i \in Inodes : DurableDir(i)'
    BY <1>1, <2>1 DEF DurableDir, SameRecords
  <2>3. ASSUME NEW q \in Procs, Publishes(q, "git")' PROVE DurableProc(q)'
    <3>1. proc'[p].pc \in GraphSteps
      BY <1>5 DEF Inits, Configures, Writes
    <3>2. q # p /\ proc'[q] = proc[q]
      BY <1>2, <2>3, <3>1 DEF Publishes, Publishing, Kept, GraphSteps
    <3>3. Publishes(q, "git") /\ proc[q].fd \in Inodes
      BY <2>3, <3>2, OpenDirectory DEF Publishes
    <3>. QED  BY <1>1, <1>2, <2>1, <3>2, <3>3 DEF DurableProc, SameRecords, r_
  <2>. QED  BY <2>2, <2>3 DEF DurableProc
<1>. QED
  BY <1>3, <1>4, <1>5
  DEF Kind, Calm, ToCreate, ToClaim, ToOpen, Opens, Promotes, ToReconcile, Reconciles, Begins

\* Within a publication the descriptor and the place stay.
LEMMA PublishStep ==
    ASSUME TypeInv, NEW p \in Procs, PlaceInv(p), Publish(p)
    PROVE  /\ Kept(p) /\ proc[p].pc \in Publishing
           /\ UNCHANGED <<path, used, moved, cleaned, mig>>
           /\ proc'[p].auth \in {NoDir, proc[p].auth}
           /\ proc'[p].pc \in Publishing =>
                 /\ proc'[p].fd = proc[p].fd /\ proc'[p].place = proc[p].place
                 /\ proc'[p].then = proc[p].then
           /\ proc'[p].pc \notin {"claim", "open", "reconcile"}
           /\ proc'[p].pc = "create" =>
                 proc[p].place = "luther" /\ proc[p].then = "provisioned"
<1>1. UNCHANGED <<path, used, moved, cleaned, mig>> /\ proc[p].pc \in Publishing
  BY DEF Publish, create_marker_temp, write_and_sync_temp, link_temp_to_final,
         publish_marker_relative, publication_lost, Quiet, At, Publishing
<1>2. /\ proc[p].then \in Continuations /\ proc[p].place \in {"luther", "git"}
      /\ proc[p].place = "luther" => proc[p].then \in {"provisioned", "complete"}
  BY <1>1, Fields DEF Places, PlaceInv, Publishes
<1>3. CASE Deny(p)
  BY <1>1, <1>3, DenyFields DEF Publishing
<1>4. CASE Goto(p, proc[p].then)
  <2>1. proc[p].then \notin Publishing \cup {"claim", "open", "reconcile", "create"}
    BY <1>2 DEF Continuations, Publishing
  <2>. QED  BY <1>1, <1>4, <2>1, GotoFields
<1>5. CASE Goto(p, "create") /\ proc[p].place # "git" /\ proc[p].then # "complete"
  BY <1>1, <1>2, <1>5, GotoFields DEF Publishing
<1>6. CASE \E pc \in {"write", "link", "linked", "exists"} : Goto(p, pc)
  BY <1>1, <1>6, GotoFields
<1>7. CASE publication_lost(p)
  BY <1>3, <1>4, <1>5, <1>7 DEF publication_lost
<1>. QED
  BY <1>4, <1>6, <1>7
  DEF Publish, create_marker_temp, write_and_sync_temp, link_temp_to_final,
      publish_marker_relative

LEMMA DurablePublish ==
    ASSUME TypeInv, DurableInv, \A q \in Procs : PlaceInv(q), NEW p \in Procs, Publish(p)
    PROVE  DurableInv'
<1>1. (\A i \in Inodes : DurableDir(i)) /\ (\A q \in Procs : DurableProc(q))
  BY DurableParts
<1>. SUFFICES (\A i \in Inodes : DurableDir(i)') /\ (\A q \in Procs : DurableProc(q)')
  BY DurableParts
<1>2. /\ Kept(p) /\ proc[p].pc \in Publishing /\ UNCHANGED cleaned
      /\ proc'[p].pc \in Publishing =>
            proc'[p].fd = proc[p].fd /\ proc'[p].place = proc[p].place
  BY PublishStep
<1>3. ASSUME NEW q \in Procs, Publishes(q, "git")'
      PROVE  /\ Publishes(q, "git") /\ proc'[q].fd = proc[q].fd /\ proc[q].fd \in Inodes
             /\ dirs[proc[q].fd].repo = "repo"
             /\ cleaned # "racing" => dirs[proc[q].fd].luther = r_(q)
  <2>1. Publishes(q, "git") /\ proc'[q].fd = proc[q].fd
    BY <1>2, <1>3 DEF Publishes, Kept
  <2>2. proc[q].fd \in Inodes
    BY <2>1, OpenDirectory DEF Publishes
  <2>. QED  BY <1>1, <2>1, <2>2 DEF DurableProc
<1>4. CASE Writing(p)
  <2>1. ASSUME NEW i \in Inodes PROVE DurableDir(i)'
    <3>1. /\ SameEntries(i)
          /\ \A t \in dirs'[i].temps :
                \/ t \in dirs[i].temps
                \/ i = proc[p].fd /\ t.by = r_(p) /\ t.place = proc[p].place
      BY <1>4, WritingFields
    <3>2. i = proc[p].fd /\ proc[p].place = "git" => dirs[i].repo = "repo"
      BY <1>1, <1>2 DEF DurableProc, Publishes
    <3>. QED  BY <1>1, <3>1, <3>2 DEF DurableDir, SameEntries, SameRecords
  <2>2. ASSUME NEW q \in Procs, Publishes(q, "git")' PROVE DurableProc(q)'
    <3>1. SameEntries(proc[q].fd)
      BY <1>3, <1>4, <2>2, WritingFields
    <3>. QED  BY <1>2, <1>3, <2>2, <3>1 DEF DurableProc, SameEntries, SameRecords, r_
  <2>. QED  BY <2>1, <2>2 DEF DurableProc
<1>5. CASE link_temp_to_final(p)
  <2>1. /\ proc[p].pc = "link"
        /\ \A i \in Inodes :
              /\ dirs'[i].temps = dirs[i].temps /\ dirs'[i].repo = dirs[i].repo
              /\ dirs'[i].luther # dirs[i].luther => dirs[i].luther = NoRun
              /\ dirs'[i].git # dirs[i].git => i = proc[p].fd /\ proc[p].place = "git"
    BY <1>5, LinkFields
  <2>2. ASSUME NEW i \in Inodes PROVE DurableDir(i)'
    <3>1. i = proc[p].fd /\ proc[p].place = "git" => dirs[i].repo = "repo"
      BY <1>1, <1>2 DEF DurableProc, Publishes
    <3>. QED  BY <1>1, <2>1, <3>1 DEF DurableDir
  <2>3. ASSUME NEW q \in Procs, Publishes(q, "git")' PROVE DurableProc(q)'
    <3>1. r_(q) # NoRun
      BY Constants
    <3>. QED  BY <1>2, <1>3, <2>1, <2>3, <3>1 DEF DurableProc, r_
  <2>. QED  BY <2>2, <2>3 DEF DurableProc
<1>. QED  BY <1>4, <1>5 DEF Publish, Writing

LEMMA DurableFault ==
    ASSUME TypeInv, DurableInv, \A q \in Procs : PlaceInv(q),
           (\E p \in Procs : die(p)) \/ path_replaced \/ bootstrap_cleaned \/ config_edited
    PROVE  DurableInv'
<1>1. (\A i \in Inodes : DurableDir(i)) /\ (\A q \in Procs : DurableProc(q))
  BY DurableParts
<1>. SUFFICES (\A i \in Inodes : DurableDir(i)') /\ (\A q \in Procs : DurableProc(q)')
  BY DurableParts
<1>2. ASSUME NEW p \in Procs, die(p)
      PROVE  (\A i \in Inodes : DurableDir(i)') /\ (\A q \in Procs : DurableProc(q)')
  <2>1. \A i \in Inodes :
           /\ SameEntries(i)
           /\ \A t \in dirs'[i].temps : \E u \in dirs[i].temps : t.by = u.by /\ t.place = u.place
    BY <1>2, DieFields
  <2>2. Kept(p) /\ proc'[p].pc = "off" /\ UNCHANGED cleaned
    BY <1>2, DenyFields DEF die, Deny
  <2>3. \A i \in Inodes : DurableDir(i)'
    BY <1>1, <2>1 DEF DurableDir, SameEntries, SameRecords
  <2>4. ASSUME NEW q \in Procs, Publishes(q, "git")' PROVE DurableProc(q)'
    <3>1. proc'[q] = proc[q] /\ Publishes(q, "git")
      BY <2>2, <2>4 DEF Publishes, Publishing, Kept
    <3>2. proc[q].fd \in Inodes
      BY <3>1, OpenDirectory DEF Publishes
    <3>. QED  BY <1>1, <2>1, <2>2, <3>1, <3>2 DEF DurableProc, SameEntries, SameRecords, r_
  <2>. QED  BY <2>3, <2>4 DEF DurableProc
<1>3. CASE path_replaced
  <2>1. UNCHANGED <<proc, cleaned>>
    BY <1>3 DEF path_replaced
  <2>2. CASE UNCHANGED dirs
    BY <1>1, <2>1, <2>2 DEF DurableDir, DurableProc, Publishes, r_
  <2>3. CASE used < MaxDirs /\ dirs' = [dirs EXCEPT ![used + 1] = Blank]
    <3>1. /\ IsBlank(dirs'[used + 1]) /\ \A i \in Inodes : i # used + 1 => dirs'[i] = dirs[i]
          /\ \A i \in 1 .. used : i # used + 1
      BY <2>3, MadeDirectory
    <3>2. \A i \in Inodes : DurableDir(i)'
      BY <1>1, <3>1 DEF DurableDir, IsBlank
    <3>3. ASSUME NEW q \in Procs, Publishes(q, "git")' PROVE DurableProc(q)'
      <4>1. Publishes(q, "git")
        BY <2>1, <3>3 DEF Publishes
      <4>2. proc[q].fd \in Inodes /\ proc[q].fd \in 1 .. used
        BY <4>1, OpenDirectory DEF Publishes
      <4>3. dirs'[proc[q].fd] = dirs[proc[q].fd]
        BY <3>1, <4>2
      <4>. QED  BY <1>1, <2>1, <4>1, <4>3 DEF DurableProc, r_
    <3>. QED  BY <3>2, <3>3 DEF DurableProc
  <2>. QED  BY <1>3, <2>2, <2>3 DEF path_replaced
<1>4. CASE bootstrap_cleaned
  <2>1. /\ UNCHANGED proc /\ cleaned' \in {"quietly", "racing"}
        /\ cleaned' = "quietly" => \A p \in Procs : proc[p].pc \in {"off", "work"}
        /\ \A i \in Inodes : /\ dirs'[i].git = dirs[i].git /\ dirs'[i].repo = dirs[i].repo
                             /\ dirs'[i].temps = dirs[i].temps
    BY <1>4, CleanFields
  <2>2. \A i \in Inodes : DurableDir(i)'
    BY <1>1, <2>1 DEF DurableDir
  <2>3. ASSUME NEW q \in Procs, Publishes(q, "git")' PROVE DurableProc(q)'
    <3>1. Publishes(q, "git") /\ cleaned' # "quietly"
      BY <2>1, <2>3 DEF Publishes, Publishing
    <3>2. proc[q].fd \in Inodes
      BY <3>1, OpenDirectory DEF Publishes
    <3>. QED  BY <1>1, <2>1, <3>1, <3>2 DEF DurableProc
  <2>. QED  BY <2>2, <2>3 DEF DurableProc
<1>5. CASE config_edited
  <2>1. UNCHANGED <<proc, cleaned, dirs>>
    BY <1>5 DEF config_edited
  <2>. QED  BY <1>1, <2>1 DEF DurableDir, DurableProc, Publishes, r_
<1>. QED  BY <1>2, <1>3, <1>4, <1>5

-----------------------------------------------------------------------------
(* What any step does to the records, the processes and the path.          *)

Outside == path_replaced \/ bootstrap_cleaned \/ config_edited

Before == TypeInv /\ (\A p \in Procs : PlaceInv(p)) /\ DurableInv

LEMMA StepCases ==
    ASSUME Before, Next
    PROVE  \/ \E p \in Procs : Kind(p) \/ Publish(p) \/ die(p)
           \/ Outside
BY ProvisionKind, GraphKind, ResumeKind, MigrateKind DEF Next, Outside, Before

\* The records of a directory: unchanged, absent in a directory that is made,
\* linked once by a process that publishes, or cleaned once promoted.
Links(p, i, place) ==
    /\ Publishes(p, place) /\ proc[p].fd = i /\ dirs[i][place] = NoRun
    /\ dirs'[i][place] = r_(p)

RecordsMove(i) ==
    \/ i \notin 1 .. used /\ IsBlank(dirs'[i]) /\ i = used + 1 /\ used' = used + 1
    \/ SameRecords(i)
    \/ /\ \E p \in Procs : Links(p, i, "luther")
       /\ dirs'[i].git = dirs[i].git /\ dirs'[i].creator = dirs[i].creator
    \/ /\ \E p \in Procs : Links(p, i, "git")
       /\ dirs'[i].luther = dirs[i].luther /\ dirs'[i].creator = dirs[i].creator
    \/ /\ bootstrap_cleaned
       /\ dirs[i].git = dirs[i].luther /\ dirs'[i].luther = NoRun
       /\ dirs'[i].git = dirs[i].git /\ dirs'[i].creator = dirs[i].creator

TempsMove(i) ==
    \A t \in dirs'[i].temps :
       \/ \E u \in dirs[i].temps : t.by = u.by /\ t.place = u.place
       \/ \E p \in Procs : /\ t.by = r_(p) /\ proc[p].pc \in Publishing /\ proc[p].fd = i
                           /\ t.place = proc[p].place

OtherMoves(i) ==
    \/ i \notin 1 .. used /\ IsBlank(dirs'[i])
    \/ /\ \/ dirs'[i].config = dirs[i].config
          \/ \E p \in Procs : Configures(p) /\ i = proc[p].fd /\ dirs'[i].config = r_(p)
       /\ dirs'[i].repo = "none" => dirs[i].repo = "none"

LEMMA DirectoryKind ==
    ASSUME Before, NEW p \in Procs, Kind(p), NEW i \in Inodes
    PROVE  RecordsMove(i) /\ TempsMove(i) /\ OtherMoves(i)
<1>. USE DEF Before
<1>1. CASE UNCHANGED dirs
  BY <1>1 DEF RecordsMove, TempsMove, OtherMoves, SameRecords
<1>2. CASE Creates(p)
  <2>1. /\ used < MaxDirs /\ used' = used + 1
        /\ dirs' = [dirs EXCEPT ![used + 1] = [Blank EXCEPT !.creator = r_(p)]]
    BY <1>2 DEF Creates
  <2>2. /\ IsBlank(dirs'[used + 1]) /\ \A j \in Inodes : j # used + 1 => dirs'[j] = dirs[j]
        /\ \A j \in 1 .. used : j # used + 1
    BY <2>1, MadeDirectory
  <2>3. CASE i = used + 1
    BY <2>1, <2>2, <2>3 DEF RecordsMove, TempsMove, OtherMoves, IsBlank
  <2>4. CASE i # used + 1
    BY <2>2, <2>4 DEF RecordsMove, TempsMove, OtherMoves, SameRecords
  <2>. QED  BY <2>3, <2>4
<1>3. CASE Inits(p)
  BY <1>3, InitsFields DEF RecordsMove, TempsMove, OtherMoves
<1>4. CASE Configures(p)
  BY <1>4, ConfiguresFields DEF RecordsMove, TempsMove, OtherMoves
<1>. QED
  BY <1>1, <1>2, <1>3, <1>4
  DEF Kind, Calm, ToCreate, ToClaim, ToOpen, Opens, Promotes, ToReconcile, Reconciles, Begins,
      Still

LEMMA DirectoryPublish ==
    ASSUME Before, NEW p \in Procs, Publish(p), NEW i \in Inodes
    PROVE  RecordsMove(i) /\ TempsMove(i) /\ OtherMoves(i)
<1>. USE DEF Before
<1>1. proc[p].pc \in Publishing
  BY PublishStep
<1>2. CASE Writing(p)
  <2>1. /\ SameEntries(i)
        /\ \A t \in dirs'[i].temps :
              \/ t \in dirs[i].temps
              \/ i = proc[p].fd /\ t.by = r_(p) /\ t.place = proc[p].place
    BY <1>2, WritingFields
  <2>. QED  BY <1>1, <2>1 DEF RecordsMove, TempsMove, OtherMoves, SameEntries, SameRecords
<1>3. CASE link_temp_to_final(p)
  <2>1. /\ dirs'[i].temps = dirs[i].temps /\ dirs'[i].repo = dirs[i].repo
        /\ dirs'[i].config = dirs[i].config /\ dirs'[i].creator = dirs[i].creator
        /\ dirs'[i].luther =
              IF i = proc[p].fd /\ proc[p].place = "luther" /\ dirs[i].luther = NoRun
              THEN r_(p) ELSE dirs[i].luther
        /\ dirs'[i].git =
              IF i = proc[p].fd /\ proc[p].place = "git" /\ dirs[i].git = NoRun
              THEN r_(p) ELSE dirs[i].git
    BY <1>3, LinkFields
  <2>2. TempsMove(i) /\ OtherMoves(i)
    BY <2>1 DEF TempsMove, OtherMoves
  <2>3. CASE i = proc[p].fd /\ proc[p].place = "luther" /\ dirs[i].luther = NoRun
    <3>1. Links(p, i, "luther") /\ dirs'[i].git = dirs[i].git
      BY <1>1, <2>1, <2>3 DEF Links, Publishes
    <3>. QED  BY <2>1, <2>2, <3>1 DEF RecordsMove
  <2>4. CASE i = proc[p].fd /\ proc[p].place = "git" /\ dirs[i].git = NoRun
    <3>1. Links(p, i, "git") /\ dirs'[i].luther = dirs[i].luther
      BY <1>1, <2>1, <2>4 DEF Links, Publishes
    <3>. QED  BY <2>1, <2>2, <3>1 DEF RecordsMove
  <2>5. CASE dirs'[i].luther = dirs[i].luther /\ dirs'[i].git = dirs[i].git
    BY <2>1, <2>2, <2>5 DEF RecordsMove, SameRecords
  <2>. QED  BY <2>1, <2>3, <2>4, <2>5
<1>. QED  BY <1>2, <1>3 DEF Publish, Writing

LEMMA DirectoryFault ==
    ASSUME Before, (\E p \in Procs : die(p)) \/ Outside, NEW i \in Inodes
    PROVE  RecordsMove(i) /\ TempsMove(i) /\ OtherMoves(i)
<1>. USE DEF Before
<1>1. CASE \E p \in Procs : die(p)
  <2>1. /\ SameEntries(i)
        /\ \A t \in dirs'[i].temps : \E u \in dirs[i].temps : t.by = u.by /\ t.place = u.place
    BY <1>1, DieFields
  <2>. QED  BY <2>1 DEF RecordsMove, TempsMove, OtherMoves, SameEntries, SameRecords
<1>2. CASE UNCHANGED dirs
  BY <1>2 DEF RecordsMove, TempsMove, OtherMoves, SameRecords
<1>3. CASE used < MaxDirs /\ used' = used + 1 /\ dirs' = [dirs EXCEPT ![used + 1] = Blank]
  <2>1. /\ IsBlank(dirs'[used + 1]) /\ \A j \in Inodes : j # used + 1 => dirs'[j] = dirs[j]
        /\ \A j \in 1 .. used : j # used + 1
    BY <1>3, MadeDirectory
  <2>2. CASE i = used + 1
    BY <1>3, <2>1, <2>2 DEF RecordsMove, TempsMove, OtherMoves, IsBlank
  <2>3. CASE i # used + 1
    BY <2>1, <2>3 DEF RecordsMove, TempsMove, OtherMoves, SameRecords
  <2>. QED  BY <2>2, <2>3
<1>4. CASE bootstrap_cleaned
  <2>1. /\ dirs'[i].git = dirs[i].git /\ dirs'[i].repo = dirs[i].repo
        /\ dirs'[i].config = dirs[i].config /\ dirs'[i].temps = dirs[i].temps
        /\ dirs'[i].creator = dirs[i].creator
        /\ \/ dirs[i].git = dirs[i].luther /\ dirs'[i].luther = NoRun
           \/ dirs'[i].luther = dirs[i].luther
    BY <1>4, CleanFields
  <2>. QED  BY <1>4, <2>1 DEF RecordsMove, TempsMove, OtherMoves, SameRecords
<1>. QED
  BY <1>1, <1>2, <1>3, <1>4 DEF Outside, path_replaced, config_edited

LEMMA DirectoryStep ==
    ASSUME Before, Next, NEW i \in Inodes
    PROVE  RecordsMove(i) /\ TempsMove(i) /\ OtherMoves(i)
BY StepCases, DirectoryKind, DirectoryPublish, DirectoryFault

LEMMA OthersKept ==
    ASSUME Before, NEW p \in Procs, Kind(p) \/ Publish(p) \/ die(p)
    PROVE  Kept(p)
<1>. USE DEF Before
<1>1. Kind(p) => Kept(p)
  BY DEF Kind, Calm, ToCreate, ToClaim, Creates, ToOpen, Opens, Promotes, ToReconcile,
         Reconciles, Inits, Configures, Begins, Still, Writes
<1>2. Publish(p) => Kept(p)
  BY PublishStep
<1>3. die(p) => Kept(p)
  BY DenyFields DEF die, Deny
<1>. QED  BY <1>1, <1>2, <1>3

\* A step of one process leaves the others where they are.
LEMMA OneMoves ==
    ASSUME Before, Next, NEW q \in Procs
    PROVE  proc'[q] = proc[q] \/ Kind(q) \/ Publish(q) \/ die(q)
<1>1. Outside => proc'[q] = proc[q]
  BY DEF Outside, path_replaced, bootstrap_cleaned, config_edited
<1>2. ASSUME NEW p \in Procs, p # q, Kind(p) \/ Publish(p) \/ die(p) PROVE proc'[q] = proc[q]
  BY <1>2, OthersKept DEF Kept
<1>. QED  BY <1>1, <1>2, StepCases

\* A publication goes on, or begins with the path.
LEMMA PublishingBefore ==
    ASSUME Before, Next, NEW q \in Procs, NEW place \in Places, Publishes(q, place)'
    PROVE  \/ Publishes(q, place) /\ proc'[q].fd = proc[q].fd /\ proc'[q].then = proc[q].then
           \/ place = "luther" /\ (Opens(q) \/ Reconciles(q))
           \/ place = "git" /\ Promotes(q)
<1>. USE DEF Before
<1>1. CASE proc'[q] = proc[q]
  BY <1>1 DEF Publishes
<1>2. CASE Kind(q)
  <2>1. Begins(q, "git") => proc'[q].place = "git"
    BY DEF Begins
  <2>2. Begins(q, "luther") => proc'[q].place = "luther"
    BY DEF Begins
  <2>3. proc'[q].pc \in Publishing /\ proc'[q].place = place
    BY DEF Publishes
  <2>4. ~(Inits(q) \/ Configures(q))
    BY <2>3 DEF Inits, Configures, Writes, GraphSteps, Publishing
  <2>5. ~(Calm(q) \/ ToCreate(q) \/ ToClaim(q) \/ Creates(q) \/ ToOpen(q) \/ ToReconcile(q))
    BY <2>3 DEF Calm, ToCreate, ToClaim, Creates, ToOpen, ToReconcile, Publishing
  <2>. QED
    BY <1>2, <2>1, <2>2, <2>3, <2>4, <2>5 DEF Kind, Opens, Reconciles, Promotes
<1>3. CASE Publish(q)
  BY <1>3, PublishStep DEF Publishes
<1>4. CASE die(q)
  BY <1>4, DenyFields DEF die, Deny, Publishes, Publishing
<1>. QED  BY <1>1, <1>2, <1>3, <1>4, OneMoves

\* So is a claim, and a reconciliation.
LEMMA Nearer ==
    ASSUME Before, Next, NEW q \in Procs,
           proc'[q].pc \in {"create", "claim", "open", "reconcile"}
    PROVE  \/ proc'[q] = proc[q]
           \/ ToCreate(q) \/ ToClaim(q) \/ Creates(q) \/ ToOpen(q) \/ ToReconcile(q)
           \/ /\ proc'[q].pc = "create" /\ Publishes(q, "luther")
              /\ proc[q].then = "provisioned"
<1>. USE DEF Before
<1>1. CASE Kind(q)
  <2>1. ~(Inits(q) \/ Configures(q))
    BY DEF Inits, Configures, Writes, GraphSteps
  <2>2. ~(Calm(q) \/ Opens(q) \/ Promotes(q) \/ Reconciles(q))
    BY DEF Calm, Opens, Promotes, Reconciles, Begins
  <2>. QED  BY <1>1, <2>1, <2>2 DEF Kind
<1>2. CASE Publish(q)
  BY <1>2, PublishStep DEF Publishes
<1>3. CASE die(q)
  BY <1>3, DenyFields DEF die, Deny
<1>. QED  BY <1>1, <1>2, <1>3, OneMoves

\* The path, and how bootstrap records were cleaned.
LEMMA History ==
    ASSUME Before, Next
    PROVE  /\ \/ UNCHANGED <<path, used, moved>>
              \/ /\ UNCHANGED moved /\ path = NoDir /\ used' = used + 1 /\ path' = used'
                 /\ \E p \in Procs : Creates(p)
              \/ moved' = TRUE
           /\ \/ UNCHANGED cleaned
              \/ bootstrap_cleaned /\ cleaned' = "racing"
              \/ /\ bootstrap_cleaned /\ cleaned' = "quietly" /\ cleaned # "racing"
                 /\ \A p \in Procs : proc'[p] = proc[p] /\ proc[p].pc \in {"off", "work"}
           /\ used' \in {used, used + 1}
<1>. USE DEF Before
<1>0. used \in Nat
  BY Existing
<1>1. ASSUME NEW p \in Procs, Kind(p)
      PROVE  /\ UNCHANGED cleaned
             /\ UNCHANGED <<path, used, moved>> \/ Creates(p)
  BY <1>1 DEF Kind, Calm, ToCreate, ToClaim, Creates, ToOpen, Opens, Promotes, ToReconcile,
              Reconciles, Inits, Configures, Begins, Still, Writes
<1>2. ASSUME NEW p \in Procs, Creates(p)
      PROVE  UNCHANGED moved /\ path = NoDir /\ used' = used + 1 /\ path' = used'
  BY <1>2 DEF Creates
<1>3. ASSUME NEW p \in Procs, Publish(p) \/ die(p) PROVE UNCHANGED <<path, used, moved, cleaned>>
  BY <1>3, PublishStep DEF die
<1>4. CASE path_replaced
  <2>1. moved' = TRUE /\ UNCHANGED cleaned
    BY <1>4 DEF path_replaced
  <2>2. used' \in {used, used + 1}
    BY <1>4 DEF path_replaced
  <2>. QED  BY <2>1, <2>2
<1>5. CASE bootstrap_cleaned
  BY <1>0, <1>5, CleanFields
<1>6. CASE config_edited
  BY <1>0, <1>6 DEF config_edited
<1>7. ASSUME UNCHANGED <<path, used, moved, cleaned>>
      PROVE  UNCHANGED <<path, used, moved>> /\ UNCHANGED cleaned /\ used' \in {used, used + 1}
  BY <1>0, <1>7
<1>8. ASSUME NEW p \in Procs, Kind(p) \/ Publish(p) \/ die(p)
      PROVE  /\ \/ UNCHANGED <<path, used, moved>>
                \/ /\ UNCHANGED moved /\ path = NoDir /\ used' = used + 1 /\ path' = used'
                   /\ \E q \in Procs : Creates(q)
             /\ UNCHANGED cleaned /\ used' \in {used, used + 1}
  <2>1. CASE Creates(p)
    <3>1. UNCHANGED cleaned
      BY <2>1 DEF Creates
    <3>2. used' \in {used, used + 1}
      BY <1>0, <1>2, <2>1
    <3>. QED  BY <1>2, <2>1, <3>1, <3>2
  <2>2. CASE ~Creates(p)
    BY <1>1, <1>3, <1>7, <1>8, <2>2
  <2>. QED  BY <2>1, <2>2
<1>9. CASE Outside
  BY <1>4, <1>5, <1>6, <1>9 DEF Outside
<1>. QED  BY <1>8, <1>9, StepCases

LEMMA UndisturbedCases ==
    ASSUME TypeInv PROVE Undisturbed <=> cleaned = "none" \/ (cleaned = "quietly" /\ ~moved)
BY DEF TypeInv, Undisturbed

\* A step never makes up for what the world outside has done.
LEMMA UndisturbedBefore ==
    ASSUME Before, Next, TypeInv'
    PROVE  /\ Undisturbed' => Undisturbed
           /\ ~moved' => ~moved
           /\ cleaned' = "none" => cleaned = "none"
           /\ cleaned' = "quietly" => cleaned # "racing"
<1>1. /\ cleaned \in {"none", "quietly", "racing"} /\ cleaned' \in {"none", "quietly", "racing"}
      /\ moved \in BOOLEAN /\ moved' \in BOOLEAN
  BY DEF Before, TypeInv
<1>2. moved' = moved \/ moved' = TRUE
  BY History
<1>3. /\ cleaned' = "none" => cleaned = "none"
      /\ cleaned' = "quietly" => cleaned # "racing"
  BY History
<1>. QED  BY <1>1, <1>2, <1>3 DEF Undisturbed

-----------------------------------------------------------------------------
(* Records that are cleaned                                                *)

\* The conjuncts of CleanedInv.
Beside(i) == dirs[i].git \in {NoRun, dirs[i].luther}

Safe(p) ==
    /\ proc[p].pc \notin {"create", "claim", "open"}
    /\ Publishes(p, "luther") => proc[p].then = "complete"
    /\ proc[p].pc = "reconcile" => Admits(path, r_(p))

Quietly == cleaned = "quietly" /\ ~moved

Admitted(p) == Publishes(p, "luther") => Admits(proc[p].fd, r_(p))

LEMMA CleanedParts ==
    /\ CleanedInv <=>
          /\ cleaned = "none" => \A i \in Inodes : Beside(i)
          /\ ~moved => path = used /\ used <= 1
          /\ Quietly => path # NoDir /\ dirs[path].repo # "none" /\ \A p \in Procs : Safe(p)
          /\ Undisturbed => \A p \in Procs : Admitted(p)
    /\ CleanedInv' <=>
          /\ cleaned' = "none" => \A i \in Inodes : Beside(i)'
          /\ ~moved' => path' = used' /\ used' <= 1
          /\ Quietly' => /\ path' # NoDir /\ dirs'[path'].repo # "none"
                         /\ \A p \in Procs : Safe(p)'
          /\ Undisturbed' => \A p \in Procs : Admitted(p)'
BY DEF CleanedInv, Beside, Safe, Quietly, Admitted, r_

\* While nothing was cleaned, the durable record has its bootstrap record.
LEMMA BesideStep ==
    ASSUME Before, Next, cleaned' = "none", cleaned = "none", NEW i \in Inodes, Beside(i)
    PROVE  Beside(i)'
<1>1. RecordsMove(i)
  BY DirectoryStep
<1>2. CASE \E p \in Procs : Links(p, i, "git")
  <2>1. PICK p \in Procs : Links(p, i, "git")
    BY <1>2
  <2>2. dirs[i].luther = r_(p) /\ dirs'[i].git = r_(p) /\ dirs[i].git = NoRun
    BY <2>1 DEF Links, Before, DurableInv
  <2>3. r_(p) # NoRun
    BY Constants
  <2>4. dirs'[i].luther = dirs[i].luther
    BY <1>1, <2>2, <2>3 DEF RecordsMove, SameRecords, IsBlank, Links
  <2>. QED  BY <2>2, <2>4 DEF Beside
<1>3. CASE \E p \in Procs : Links(p, i, "luther")
  <2>1. dirs[i].luther = NoRun /\ dirs[i].git = NoRun
    BY <1>3 DEF Links, Beside
  <2>. QED  BY <1>1, <1>2, <2>1 DEF RecordsMove, SameRecords, IsBlank, Beside
<1>4. CASE bootstrap_cleaned
  BY <1>4, CleanFields DEF Before
<1>. QED  BY <1>1, <1>2, <1>3, <1>4 DEF RecordsMove, SameRecords, IsBlank, Beside

\* A directory goes on to admit the run that publishes in it.
LEMMA AdmitsStep ==
    ASSUME Before, Next, NEW i \in 1 .. used, NEW r \in Runs, Admits(i, r),
           cleaned' # "racing", ~bootstrap_cleaned
    PROVE  Admits(i, r)'
<1>1. RecordsMove(i) /\ i \in Inodes
  BY DirectoryStep, Existing DEF Before
<1>2. cleaned # "racing"
  BY History
<1>3. \A p \in Procs : r_(p) # NoRun
  BY Constants
<1>4. CASE \E p \in Procs : Links(p, i, "git")
  <2>1. PICK p \in Procs : Links(p, i, "git")
    BY <1>4
  <2>2. dirs[i].luther = r_(p)
    BY <1>2, <2>1 DEF Links, Before, DurableInv
  <2>. QED  BY <1>1, <1>3, <2>1, <2>2 DEF RecordsMove, SameRecords, Links, Admits
<1>5. CASE \E p \in Procs : Links(p, i, "luther")
  BY <1>3, <1>5 DEF Links, Admits
<1>. QED  BY <1>1, <1>4, <1>5 DEF RecordsMove, SameRecords, Admits

LEMMA AdmittedStep ==
    ASSUME Before, TypeInv', CleanedInv, Next, Undisturbed', NEW q \in Procs
    PROVE  Admitted(q)'
<1>. USE DEF Before
<1>1. Undisturbed /\ cleaned' # "racing" /\ cleaned # "racing"
  BY UndisturbedBefore DEF Undisturbed
<1>. SUFFICES ASSUME Publishes(q, "luther")' PROVE Admits(proc[q].fd, r_(q))'
  BY DEF Admitted
<1>2. proc'[q].pc \in Publishing
  BY DEF Publishes
<1>3. CASE bootstrap_cleaned
  <2>1. UNCHANGED proc /\ (cleaned' = "quietly" => proc[q].pc \in {"off", "work"})
    BY <1>3, CleanFields
  <2>2. cleaned' = "quietly"
    BY <1>1, <1>3, CleanFields
  <2>. QED  BY <1>2, <2>1, <2>2 DEF Publishing
<1>4. CASE ~bootstrap_cleaned /\ Publishes(q, "luther") /\ proc'[q].fd = proc[q].fd
  <2>1. Admits(proc[q].fd, r_(q)) /\ proc[q].fd \in 1 .. used
    BY <1>1, <1>4, OpenDirectory DEF CleanedInv, Publishes
  <2>2. \A i \in 1 .. used : Admits(i, r_(q)) => Admits(i, r_(q))'
    BY <1>1, <1>4, AdmitsStep, Constants
  <2>. QED  BY <1>4, <2>1, <2>2 DEF Admits, r_
<1>5. ASSUME Opens(q) \/ Reconciles(q), Admits(path, r_(q)) PROVE Admits(proc[q].fd, r_(q))'
  BY <1>5 DEF Opens, Reconciles, Begins, Still, Admits, r_
<1>6. ASSUME Opens(q) \/ Reconciles(q) PROVE Admits(path, r_(q))
  <2>1. path # NoDir /\ path \in Inodes /\ proc[q].pc \in {"open", "reconcile"}
    BY <1>6, Existing DEF Opens, Reconciles, Begins
  <2>2. CASE cleaned = "none"
    <3>1. dirs[path].git \in {NoRun, dirs[path].luther}
      BY <2>1, <2>2 DEF CleanedInv
    <3>. QED  BY <3>1 DEF Admits
  <2>3. CASE cleaned = "quietly" /\ ~moved
    BY <2>1, <2>3 DEF CleanedInv
  <2>. QED  BY <1>1, <2>2, <2>3, UndisturbedCases
<1>. QED
  BY <1>3, <1>4, <1>5, <1>6, PublishingBefore DEF Places

LEMMA PathStep ==
    ASSUME Before, TypeInv', Next, ~moved', ~moved, path = used, used <= 1
    PROVE  path' = used' /\ used' <= 1
<1>1. used \in Nat /\ NoDir = 0
  BY Existing DEF Before, NoDir
<1>2. \/ path' = path /\ used' = used
      \/ path = NoDir /\ used' = used + 1 /\ path' = used'
  BY History
<1>. QED  BY <1>1, <1>2

\* After a quiet cleaning nothing comes to claim the directory.
LEMMA SafeStep ==
    ASSUME Before, TypeInv', CleanedInv, Next, ~bootstrap_cleaned, Quietly, Quietly'
    PROVE  /\ path' # NoDir /\ dirs'[path'].repo # "none"
           /\ \A q \in Procs : Safe(q)'
<1>. USE DEF Before
<1>1. /\ path # NoDir /\ dirs[path].repo # "none" /\ path \in Inodes /\ path \in 1 .. used
      /\ \A q \in Procs : Safe(q)
  BY CleanedParts, Existing
<1>2. path' = path /\ moved' # TRUE
  BY <1>1, History DEF Quietly
<1>3. dirs'[path].repo # "none"
  BY <1>1, DirectoryStep DEF OtherMoves
<1>4. ASSUME NEW q \in Procs
      PROVE  /\ ~ToCreate(q) /\ ~ToClaim(q) /\ ~Creates(q) /\ ~ToOpen(q) /\ ~Opens(q)
             /\ ~(Publishes(q, "luther") /\ proc[q].then = "provisioned")
  BY <1>1 DEF Safe, ToCreate, ToClaim, Creates, ToOpen, Opens
<1>5. ASSUME NEW q \in Procs PROVE proc'[q].pc \notin {"create", "claim", "open"}
  BY <1>1, <1>4, Nearer DEF Safe, ToReconcile
<1>6. ASSUME NEW q \in Procs, Publishes(q, "luther")' PROVE proc'[q].then = "complete"
  <2>1. CASE Publishes(q, "luther") /\ proc'[q].then = proc[q].then
    BY <1>1, <2>1 DEF Safe
  <2>2. CASE Reconciles(q)
    BY <2>2 DEF Reconciles
  <2>. QED  BY <1>4, <1>6, <2>1, <2>2, PublishingBefore DEF Places
<1>7. ASSUME NEW q \in Procs, proc'[q].pc = "reconcile" PROVE Admits(path, r_(q))'
  <2>1. CASE ToReconcile(q)
    <3>1. adjudicate_workspace_ownership(r_(q)) \in {"owned", "no_evidence"}
      BY <2>1 DEF ToReconcile
    <3>2. Admits(path, r_(q))
      BY <3>1, Judged, Constants DEF Admits
    <3>. QED  BY <2>1, <3>2 DEF ToReconcile, Still, Admits, r_
  <2>2. CASE proc'[q] = proc[q]
    <3>1. Admits(path, r_(q))
      BY <1>1, <1>7, <2>2 DEF Safe
    <3>2. \A r \in Runs : Admits(path, r) => Admits(path, r)'
      BY <1>1, <1>2, AdmitsStep DEF Quietly, Admits
    <3>. QED  BY <3>1, <3>2, Constants DEF r_
  <2>. QED  BY <1>4, <1>7, <2>1, <2>2, Nearer
<1>. QED  BY <1>1, <1>2, <1>3, <1>5, <1>6, <1>7 DEF Safe

\* A quiet cleaning finds no launch, resume or migration under way, and the
\* directory it cleans is a repository.
LEMMA SafeCleaning ==
    ASSUME Before, CleanedInv, Next, bootstrap_cleaned, Quietly'
    PROVE  /\ path' # NoDir /\ dirs'[path'].repo # "none"
           /\ \A q \in Procs : Safe(q)'
<1>. USE DEF Before
<1>1. /\ UNCHANGED <<path, used, proc, moved>>
      /\ \A q \in Procs : proc[q].pc \in {"off", "work"}
      /\ \E c \in 1 .. used : dirs[c].luther # NoRun /\ dirs[c].git = dirs[c].luther
      /\ \A i \in Inodes : dirs'[i].repo = dirs[i].repo
  BY CleanFields DEF Quietly
<1>2. PICK c \in 1 .. used : dirs[c].luther # NoRun /\ dirs[c].git = dirs[c].luther
  BY <1>1
<1>3. path = used /\ used <= 1 /\ used \in Nat /\ c \in Inodes
  BY <1>1, Existing DEF CleanedInv, Quietly
<1>4. c = path /\ path # NoDir
  BY <1>2, <1>3 DEF NoDir
<1>5. dirs[path].repo = "repo"
  BY <1>2, <1>3, <1>4 DEF DurableInv
<1>6. dirs'[path'].repo # "none" /\ path' # NoDir
  BY <1>1, <1>3, <1>4, <1>5
<1>7. ASSUME NEW q \in Procs PROVE Safe(q)'
  BY <1>1 DEF Safe, Publishes, Publishing
<1>. QED  BY <1>6, <1>7

LEMMA CleanedStep ==
    ASSUME Before, TypeInv', CleanedInv, Next
    PROVE  CleanedInv'
<1>1. cleaned' = "none" => \A i \in Inodes : Beside(i)'
  BY BesideStep, UndisturbedBefore, CleanedParts
<1>2. ~moved' => path' = used' /\ used' <= 1
  BY PathStep, UndisturbedBefore, CleanedParts
<1>3. Quietly' => /\ path' # NoDir /\ dirs'[path'].repo # "none"
                  /\ \A q \in Procs : Safe(q)'
  <2>1. CASE bootstrap_cleaned
    BY <2>1, SafeCleaning
  <2>2. Quietly' /\ ~bootstrap_cleaned => Quietly
    BY UndisturbedBefore, History DEF Quietly
  <2>. QED  BY <2>1, <2>2, SafeStep
<1>4. Undisturbed' => \A q \in Procs : Admitted(q)'
  BY AdmittedStep
<1>. QED  BY <1>1, <1>2, <1>3, <1>4, CleanedParts

-----------------------------------------------------------------------------
(* Records, authorizations and configurations that agree                   *)

\* The conjuncts of AgreeInv.
OneMark(i) == dirs[i].luther = NoRun \/ dirs[i].git = NoRun \/ dirs[i].luther = dirs[i].git

ConfigAgrees(i) == dirs[i].config # NoRun => Owners(i) = {dirs[i].config}

AuthAgrees(p) == proc[p].auth # NoDir => Owners(proc[p].auth) = {r_(p)}

LEMMA AgreeParts ==
    /\ AgreeInv <=> (Undisturbed => /\ \A i \in Inodes : OneMark(i) /\ ConfigAgrees(i)
                                    /\ \A p \in Procs : AuthAgrees(p))
    /\ AgreeInv' <=> (Undisturbed' => /\ \A i \in Inodes : OneMark(i)' /\ ConfigAgrees(i)'
                                      /\ \A p \in Procs : AuthAgrees(p)')
BY DEF AgreeInv, OneMark, ConfigAgrees, AuthAgrees, r_

\* What a link, a cleaning or nothing makes of the records of a directory.
LEMMA RecordsAgree ==
    ASSUME Before, CleanedInv, Undisturbed, Next, NEW i \in Inodes
    PROVE  /\ OneMark(i) => OneMark(i)'
           /\ \/ Owners(i) # {} => Owners(i)' = Owners(i)
              \/ i \notin 1 .. used /\ IsBlank(dirs'[i])
<1>1. RecordsMove(i)
  BY DirectoryStep
<1>2. \A p \in Procs : r_(p) # NoRun
  BY Constants
<1>3. ASSUME NEW p \in Procs, Links(p, i, "luther"), dirs'[i].git = dirs[i].git
      PROVE  OneMark(i)' /\ (Owners(i) # {} => Owners(i)' = Owners(i))
  <2>1. dirs[i].luther = NoRun /\ dirs'[i].luther = r_(p) /\ dirs[i].git \in {NoRun, r_(p)}
    BY <1>3 DEF Links, CleanedInv, Admits
  <2>. QED  BY <1>2, <1>3, <2>1 DEF OneMark, Owners
<1>4. ASSUME NEW p \in Procs, Links(p, i, "git"), dirs'[i].luther = dirs[i].luther
      PROVE  OneMark(i)' /\ (Owners(i) # {} => Owners(i)' = Owners(i))
  <2>1. dirs[i].git = NoRun /\ dirs'[i].git = r_(p) /\ dirs[i].luther = r_(p)
    BY <1>4 DEF Links, Before, DurableInv, Undisturbed
  <2>. QED  BY <1>2, <1>4, <2>1 DEF OneMark, Owners
<1>5. CASE dirs[i].git = dirs[i].luther /\ dirs'[i].luther = NoRun /\ dirs'[i].git = dirs[i].git
  BY <1>5 DEF OneMark, Owners
<1>6. CASE SameRecords(i)
  BY <1>6 DEF SameRecords, OneMark, Owners
<1>7. CASE i \notin 1 .. used /\ IsBlank(dirs'[i])
  BY <1>7 DEF IsBlank, OneMark
<1>. QED  BY <1>1, <1>3, <1>4, <1>5, <1>6, <1>7 DEF RecordsMove

LEMMA ConfigAgreesStep ==
    ASSUME Before, CleanedInv, AgreeInv, Undisturbed, Next, NEW i \in Inodes
    PROVE  ConfigAgrees(i)'
<1>1. /\ ConfigAgrees(i)
      /\ \A p \in Procs : AuthAgrees(p)
  BY AgreeParts
<1>2. \/ Owners(i) # {} => Owners(i)' = Owners(i)
      \/ i \notin 1 .. used /\ IsBlank(dirs'[i])
  BY RecordsAgree
<1>3. CASE IsBlank(dirs'[i])
  BY <1>3 DEF IsBlank, ConfigAgrees
<1>4. CASE dirs'[i].config = dirs[i].config /\ (Owners(i) # {} => Owners(i)' = Owners(i))
  <2>1. CASE dirs[i].config = NoRun
    BY <1>4, <2>1 DEF ConfigAgrees
  <2>2. CASE Owners(i) = {dirs[i].config}
    BY <1>4, <2>2 DEF ConfigAgrees
  <2>. QED  BY <1>1, <2>1, <2>2 DEF ConfigAgrees
<1>5. ASSUME NEW p \in Procs, Configures(p), i = proc[p].fd, dirs'[i].config = r_(p),
             Owners(i) # {} => Owners(i)' = Owners(i)
      PROVE  ConfigAgrees(i)'
  <2>1. proc[p].auth = i /\ i # NoDir
    BY <1>5 DEF Configures, Before, PlaceInv
  <2>2. Owners(i) = {r_(p)}
    BY <1>1, <2>1 DEF AuthAgrees
  <2>. QED  BY <1>5, <2>2 DEF ConfigAgrees
<1>6. OtherMoves(i)
  BY DirectoryStep
<1>. QED  BY <1>2, <1>3, <1>4, <1>5, <1>6 DEF OtherMoves

\* An authorization is kept, dropped, or given to a run for its directory.
LEMMA AuthMoves ==
    ASSUME Before, Next, NEW q \in Procs
    PROVE  \/ proc'[q].auth \in {NoDir, proc[q].auth}
           \/ Owners(proc'[q].auth) = {r_(q)} /\ \A i \in Inodes : SameRecords(i)
<1>. USE DEF Before
<1>1. CASE Kind(q)
  <2>1. CASE Creates(q)
    BY <2>1 DEF Creates
  <2>2. CASE ~Creates(q)
    <3>1. AuthFair(q) /\ (UNCHANGED dirs \/ Inits(q) \/ Configures(q))
      BY <1>1, <2>2 DEF Kind, Calm, ToCreate, ToClaim, ToOpen, Opens, Promotes, ToReconcile,
           Reconciles, Inits, Configures, Begins, Still, Writes
    <3>2. \A i \in Inodes : SameRecords(i)
      BY <3>1, InitsFields, ConfiguresFields DEF SameRecords
    <3>. QED  BY <3>1, <3>2 DEF AuthFair
  <2>. QED  BY <2>1, <2>2
<1>2. CASE Publish(q)
  BY <1>2, PublishStep
<1>3. CASE die(q)
  BY <1>3, DenyFields DEF die, Deny
<1>. QED  BY <1>1, <1>2, <1>3, OneMoves

LEMMA AuthAgreesStep ==
    ASSUME Before, TypeInv', CleanedInv, AgreeInv, Undisturbed, Next, NEW q \in Procs
    PROVE  AuthAgrees(q)'
<1>. USE DEF Before
<1>1. proc'[q].auth # NoDir => proc'[q].auth \in Inodes
  <2>1. proc'[q].auth \in 0 .. used' /\ used' \in 0 .. MaxDirs
    BY DEF TypeInv, Process
  <2>. QED  BY <2>1, Constants DEF Inodes, NoDir
<1>2. ASSUME NEW i \in Inodes, i = proc'[q].auth, i # NoDir PROVE Owners(i)' = {r_(q)}
  <2>1. CASE i = proc[q].auth
    <3>1. Owners(i) = {r_(q)} /\ i \in 1 .. used
      BY <1>2, <2>1, AgreeParts, Existing DEF AuthAgrees
    <3>. QED  BY <3>1, RecordsAgree
  <2>2. CASE Owners(i) = {r_(q)} /\ SameRecords(i)
    BY <2>2 DEF SameRecords, Owners
  <2>. QED  BY <1>2, <2>1, <2>2, AuthMoves
<1>. QED  BY <1>1, <1>2 DEF AuthAgrees, Owners, r_

LEMMA AgreeStep ==
    ASSUME Before, TypeInv', CleanedInv, AgreeInv, Next
    PROVE  AgreeInv'
<1>. SUFFICES ASSUME Undisturbed'
              PROVE  /\ \A i \in Inodes : OneMark(i)' /\ ConfigAgrees(i)'
                     /\ \A p \in Procs : AuthAgrees(p)'
  BY AgreeParts
<1>1. Undisturbed
  BY UndisturbedBefore
<1>2. \A i \in Inodes : OneMark(i)'
  BY <1>1, RecordsAgree, AgreeParts
<1>. QED  BY <1>1, <1>2, ConfigAgreesStep, AuthAgreesStep

-----------------------------------------------------------------------------
(* Claims                                                                  *)

\* The conjuncts of CreatorInv.
ClaimsOwn(p) ==
    /\ proc[p].pc = "claim" /\ proc[p].created => path # NoDir /\ MayClaim(path, r_(p))
    /\ proc[p].pc = "open" => path # NoDir /\ MayClaim(path, r_(p))
    /\ Publishes(p, "luther") => MayClaim(proc[p].fd, r_(p))

TempsOwn(i) == \A t \in dirs[i].temps : t.place = "luther" => MayClaim(i, t.by)

RecordOwn(i) == \A r \in Runs : dirs[i].luther = r => MayClaim(i, r)

LEMMA CreatorParts ==
    /\ CreatorInv <=> (~moved => /\ \A p \in Procs : ClaimsOwn(p)
                                 /\ \A i \in Inodes : TempsOwn(i) /\ RecordOwn(i))
    /\ CreatorInv' <=> (~moved' => /\ \A p \in Procs : ClaimsOwn(p)'
                                   /\ \A i \in Inodes : TempsOwn(i)' /\ RecordOwn(i)')
BY DEF CreatorInv, ClaimsOwn, TempsOwn, RecordOwn, MayClaim, r_

LEMMA MayClaimStays ==
    ASSUME Before, Next, NEW i \in Inodes, NEW r \in Runs, MayClaim(i, r)
    PROVE  MayClaim(i, r)' \/ (i \notin 1 .. used /\ IsBlank(dirs'[i]))
<1>1. dirs'[i].creator = dirs[i].creator \/ (i \notin 1 .. used /\ IsBlank(dirs'[i]))
  BY DirectoryStep DEF RecordsMove, SameRecords
<1>2. mig[r] # "none" => mig'[r] # "none"
  BY MigrationStays DEF Before
<1>. QED  BY <1>1, <1>2 DEF MayClaim

\* The temporary files an interrupted launch left are as good as a record.
LEMMA EvidenceOwn ==
    ASSUME Before, NEW r \in Runs, NEW i \in Inodes, TempsOwn(i),
           workspace_has_interrupted_publication_evidence(i, r)
    PROVE  MayClaim(i, r)
<1>1. PICK t \in dirs[i].temps : read_marker_bounded(t) = r
  BY DEF workspace_has_interrupted_publication_evidence, luther_dir_is_claimable
<1>2. dirs[i].repo = "none" /\ r # Malformed
  BY Constants DEF workspace_has_interrupted_publication_evidence
<1>3. t.by = r
  BY <1>1, <1>2 DEF read_marker_bounded
<1>4. dirs[i].temps \subseteq Temporary
  BY DEF Before, TypeInv, Directory
<1>5. t.place \in {"luther", "git"}
  BY <1>4 DEF Temporary, Places
<1>6. t.place # "git"
  BY <1>2 DEF Before, DurableInv
<1>. QED  BY <1>3, <1>5, <1>6 DEF TempsOwn

LEMMA ClaimsOwnStep ==
    ASSUME Before, CreatorInv, Next, ~moved, moved' # TRUE, path = used, NEW q \in Procs
    PROVE  ClaimsOwn(q)'
<1>. USE DEF Before
<1>1. ClaimsOwn(q) /\ \A i \in Inodes : TempsOwn(i)
  BY CreatorParts
<1>2. r_(q) \in Runs /\ r_(q) # NoRun
  BY Constants
<1>3. \A i \in 1 .. used : MayClaim(i, r_(q)) => MayClaim(i, r_(q))'
  BY <1>2, MayClaimStays, Existing
<1>4. path # NoDir => path' = path
  BY <1>1, History
<1>5. path # NoDir => path \in 1 .. used /\ path \in Inodes
  BY Existing
<1>6. ASSUME proc'[q].pc = "claim", proc'[q].created
      PROVE  (path # NoDir /\ MayClaim(path, r_(q)))'
  <2>1. CASE Creates(q)
    <3>1. /\ used < MaxDirs /\ path' = used + 1
          /\ dirs' = [dirs EXCEPT ![used + 1] = [Blank EXCEPT !.creator = r_(q)]]
      BY <2>1 DEF Creates
    <3>2. dirs'[path'].creator = r_(q)
      BY <3>1, MadeDirectory
    <3>3. path' # NoDir
      BY <3>1, Existing DEF NoDir
    <3>. QED  BY <3>2, <3>3 DEF MayClaim, r_
  <2>2. CASE proc'[q] = proc[q]
    BY <1>1, <1>3, <1>4, <1>5, <1>6, <2>2 DEF ClaimsOwn, MayClaim, r_
  <2>3. ~ToClaim(q)
    BY <1>6 DEF ToClaim
  <2>. QED
    BY <1>6, <2>1, <2>2, <2>3, Nearer DEF ToCreate, ToOpen, ToReconcile
<1>7. ASSUME proc'[q].pc = "open"
      PROVE  (path # NoDir /\ MayClaim(path, r_(q)))'
  <2>1. path # NoDir /\ MayClaim(path, r_(q))
    <3>1. CASE proc'[q] = proc[q]
      BY <1>1, <1>7, <3>1 DEF ClaimsOwn
    <3>2. CASE ToOpen(q)
      BY <1>1, <1>2, <1>5, <3>2, EvidenceOwn DEF ToOpen, ClaimsOwn
    <3>. QED  BY <1>7, <3>1, <3>2, Nearer DEF ToCreate, ToClaim, Creates, ToReconcile
  <2>. QED  BY <1>3, <1>4, <1>5, <2>1 DEF MayClaim, r_
<1>8. ASSUME Publishes(q, "luther")' PROVE MayClaim(proc[q].fd, r_(q))'
  <2>1. CASE Publishes(q, "luther") /\ proc'[q].fd = proc[q].fd
    <3>1. MayClaim(proc[q].fd, r_(q)) /\ proc[q].fd \in 1 .. used
      BY <1>1, <2>1, OpenDirectory DEF ClaimsOwn, Publishes
    <3>. QED  BY <1>3, <2>1, <3>1 DEF MayClaim, r_
  <2>2. CASE Opens(q) \/ Reconciles(q)
    <3>1. path # NoDir /\ proc'[q].fd = path /\ proc[q].pc \in {"open", "reconcile"}
      BY <2>2 DEF Opens, Reconciles, Begins
    <3>2. MayClaim(path, r_(q))
      BY <1>1, <3>1 DEF ClaimsOwn, MayClaim, PlaceInv
    <3>. QED  BY <1>3, <1>5, <3>1, <3>2 DEF MayClaim, r_
  <2>. QED  BY <1>8, <2>1, <2>2, PublishingBefore DEF Places
<1>. QED  BY <1>6, <1>7, <1>8 DEF ClaimsOwn

LEMMA CreatorStep ==
    ASSUME Before, TypeInv', CleanedInv, CreatorInv, Next
    PROVE  CreatorInv'
<1>. SUFFICES ASSUME ~moved'
              PROVE  /\ \A p \in Procs : ClaimsOwn(p)'
                     /\ \A i \in Inodes : TempsOwn(i)' /\ RecordOwn(i)'
  BY CreatorParts
<1>1. ~moved /\ moved' # TRUE /\ path = used
  BY UndisturbedBefore DEF CleanedInv
<1>2. /\ \A p \in Procs : ClaimsOwn(p)
      /\ \A i \in Inodes : TempsOwn(i) /\ RecordOwn(i)
  BY <1>1, CreatorParts
<1>3. ASSUME NEW i \in Inodes, NEW p \in Procs, proc[p].pc \in Publishing, proc[p].fd = i,
             proc[p].place = "luther"
      PROVE  MayClaim(i, r_(p))
  BY <1>2, <1>3 DEF ClaimsOwn, Publishes
<1>4. ASSUME NEW i \in Inodes, NEW r \in Runs, MayClaim(i, r)
      PROVE  MayClaim(i, r)' \/ IsBlank(dirs'[i])
  BY <1>4, MayClaimStays
<1>5. ASSUME NEW i \in Inodes PROVE TempsOwn(i)'
  <2>1. CASE IsBlank(dirs'[i])
    BY <2>1 DEF IsBlank, TempsOwn
  <2>2. ASSUME NEW t \in dirs'[i].temps, t.place = "luther" PROVE MayClaim(i, t.by)
    BY <1>2, <1>3, <2>2, DirectoryStep DEF TempsMove, TempsOwn
  <2>3. \A t \in dirs'[i].temps : t.by \in Runs
    BY DEF TypeInv, Directory, Temporary
  <2>. QED  BY <1>4, <2>1, <2>2, <2>3 DEF TempsOwn, MayClaim
<1>6. ASSUME NEW i \in Inodes PROVE RecordOwn(i)'
  <2>1. \A r \in Runs : r # NoRun
    BY Constants
  <2>2. CASE IsBlank(dirs'[i])
    BY <2>1, <2>2 DEF IsBlank, RecordOwn
  <2>3. ASSUME NEW r \in Runs, dirs'[i].luther = r, ~IsBlank(dirs'[i]) PROVE MayClaim(i, r)
    <3>1. CASE dirs'[i].luther = dirs[i].luther
      BY <1>2, <2>3, <3>1 DEF RecordOwn
    <3>2. CASE \E p \in Procs : Links(p, i, "luther")
      BY <1>3, <2>3, <3>2 DEF Links, Publishes
    <3>. QED
      BY <2>1, <2>3, <3>1, <3>2, DirectoryStep DEF RecordsMove, SameRecords
  <2>. QED  BY <1>4, <2>2, <2>3 DEF RecordOwn, MayClaim
<1>. QED  BY <1>1, <1>5, <1>6, ClaimsOwnStep

-----------------------------------------------------------------------------
(* Migrations                                                              *)

\* The rows of a run: what becomes of its migration and its provenance.
RowMoves(r) ==
    /\ \/ mig'[r] = mig[r]
       \/ mig[r] = "none" /\ mig'[r] = "pending" /\ r \in Legacy
       \/ /\ mig[r] = "pending" /\ mig'[r] = "completed"
          /\ \E p \in Procs : r = r_(p) /\ proc[p].pc = "complete"
          /\ prov' = tag_migrated_provenance(r)
    /\ \/ prov'[r] = prov[r]
       \/ r \notin Legacy
       \/ prov[r] = "none" /\ prov'[r] = "migrated"

LEMMA RowStep ==
    ASSUME Before, Next, NEW r \in Runs
    PROVE  RowMoves(r)
<1>. USE DEF Before
<1>1. /\ mig \in [Runs -> {"none", "pending", "completed"}] /\ prov \in [Runs -> Versions]
      /\ \A p \in Procs : r_(p) \in Runs
  BY Constants DEF TypeInv
<1>2. CASE UNCHANGED <<mig, prov>>
  BY <1>2 DEF RowMoves
<1>3. ASSUME NEW p \in Procs, Provision(p) PROVE RowMoves(r)
  <2>1. CASE launch(p)
    BY <1>1, <2>1 DEF launch, from_resolved, RowMoves
  <2>2. CASE provisioned(p)
    <3>1. mig' = mig /\ prov' = from_resolved(r_(p), proc[p].version) /\ r_(p) \notin Legacy
      BY <2>2 DEF provisioned, At, PlaceInv
    <3>. QED  BY <1>1, <3>1 DEF from_resolved, RowMoves
  <2>3. CASE ~launch(p) /\ ~provisioned(p)
    <3>1. UNCHANGED <<mig, prov>>
      BY <1>3, <2>3 DEF Provision, provision_workspace_ownership, bootstrap_workspace_creation,
                        claim, open_for_publication, Quiet
    <3>. QED  BY <1>2, <3>1
  <2>. QED  BY <2>1, <2>2, <2>3
<1>4. ASSUME NEW p \in Procs, Migrate(p) PROVE RowMoves(r)
  <2>1. CASE migrate_legacy_ownership(p)
    BY <1>1, <2>1 DEF migrate_legacy_ownership, persist_migration_intent, RowMoves
  <2>2. CASE record_completion(p)
    <3>1. /\ proc[p].pc = "complete"
          /\ mig' = guarded_complete_migration_in_transaction(r_(p))
          /\ prov' = IF mig[r_(p)] = "pending" THEN tag_migrated_provenance(r_(p)) ELSE prov
      BY <2>2 DEF record_completion, At
    <3>2. CASE mig[r_(p)] # "pending"
      BY <1>2, <3>1, <3>2 DEF guarded_complete_migration_in_transaction
    <3>3. CASE mig[r_(p)] = "pending"
      <4>1. /\ mig' = [mig EXCEPT ![r_(p)] = "completed"]
            /\ prov' = tag_migrated_provenance(r_(p))
        BY <3>1, <3>3 DEF guarded_complete_migration_in_transaction
      <4>2. prov'[r] = prov[r] \/ (prov[r] = "none" /\ prov'[r] = "migrated")
        BY <1>1, <4>1 DEF tag_migrated_provenance
      <4>3. CASE r = r_(p)
        BY <1>1, <3>1, <3>3, <4>1, <4>2, <4>3 DEF RowMoves
      <4>4. CASE r # r_(p)
        BY <1>1, <4>1, <4>2, <4>4 DEF RowMoves
      <4>. QED  BY <4>3, <4>4
    <3>. QED  BY <3>2, <3>3
  <2>3. CASE validate_workspace_safety(p) \/ publish_or_reconcile_migration_marker(p)
    BY <1>2, <2>3 DEF validate_workspace_safety, publish_or_reconcile_migration_marker, Quiet
  <2>. QED  BY <1>4, <2>1, <2>2, <2>3 DEF Migrate
<1>5. ASSUME NEW p \in Procs, Publish(p) PROVE UNCHANGED <<mig, prov>>
  BY <1>5 DEF Publish, create_marker_temp, write_and_sync_temp, link_temp_to_final,
              publish_marker_relative, publication_lost, Quiet
<1>6. ASSUME NEW p \in Procs, Graph(p) PROVE UNCHANGED <<mig, prov>>
  BY <1>6 DEF Graph, WorkspaceOwnershipVerifyExecutor, configure_command_cwd,
              setup_workspace_init, GitConfigPublishExecutor, publish_config,
              WorkspaceOwnershipExecutor, promoted, finish, Quiet
<1>7. ASSUME NEW p \in Procs, Resume(p) PROVE UNCHANGED <<mig, prov>>
  BY <1>7 DEF Resume, resume_daemon_workflow, authorize_daemon_resume,
              ensure_durable_with_anchor, resumed, Quiet
<1>8. ASSUME NEW p \in Procs, die(p) PROVE UNCHANGED <<mig, prov>>
  BY <1>8 DEF die
<1>9. path_replaced \/ bootstrap_cleaned \/ config_edited => UNCHANGED <<mig, prov>>
  BY DEF path_replaced, bootstrap_cleaned, config_edited
<1>. QED  BY <1>2, <1>3, <1>4, <1>5, <1>6, <1>7, <1>8, <1>9 DEF Next

\* A record is only ever moved from the workspace into its repository.
LEMMA OwnerStays ==
    ASSUME Before, Next, NEW i \in 1 .. used, NEW r \in Runs, r \in Owners(i)
    PROVE  r \in Owners(i)'
<1>1. RecordsMove(i)
  BY DirectoryStep, Existing DEF Before
<1>2. r # NoRun /\ (dirs[i].luther = r \/ dirs[i].git = r)
  BY DEF Owners
<1>. QED  BY <1>1, <1>2 DEF RecordsMove, SameRecords, Links, Owners

LEMMA RecordStays ==
    ASSUME Before, Next, NEW r \in Runs, HasRecord(r)
    PROVE  HasRecord(r)'
<1>1. PICK i \in 1 .. used : r \in Owners(i)
  BY DEF HasRecord
<1>2. r \in Owners(i)'
  BY <1>1, OwnerStays
<1>3. used \in Nat /\ used' \in {used, used + 1}
  BY History, Existing DEF Before
<1>4. i \in 1 .. used'
  BY <1>3
<1>. QED  BY <1>2, <1>4 DEF HasRecord

LEMMA WhoMoves ==
    ASSUME Before, Next, NEW q \in Procs
    PROVE  \/ proc'[q] = proc[q]
           \/ Publish(q) \/ Provision(q) \/ Graph(q) \/ Resume(q) \/ Migrate(q) \/ die(q)
<1>1. Outside => proc'[q] = proc[q]
  BY DEF Outside, path_replaced, bootstrap_cleaned, config_edited
<1>2. ASSUME NEW p \in Procs, p # q,
             Publish(p) \/ Provision(p) \/ Graph(p) \/ Resume(p) \/ Migrate(p) \/ die(p)
      PROVE  proc'[q] = proc[q]
  <2>1. Provision(p) \/ Graph(p) \/ Resume(p) \/ Migrate(p) => Kind(p)
    BY ProvisionKind, GraphKind, ResumeKind, MigrateKind DEF Before
  <2>2. Kept(p)
    BY <1>2, <2>1, OthersKept
  <2>. QED  BY <1>2, <2>2 DEF Kept
<1>. QED  BY <1>1, <1>2 DEF Next, Outside

\* A publication that has linked has made the record.
LEMMA LinkedStep ==
    ASSUME Before, Next, NEW q \in Procs, proc'[q].pc = "linked",
           proc[q].pc = "linked" => r_(q) \in Owners(proc[q].fd)
    PROVE  r_(q) \in Owners(proc[q].fd)'
<1>. USE DEF Before
<1>1. r_(q) \in Runs /\ r_(q) # NoRun
  BY Constants
<1>2. CASE proc'[q] = proc[q]
  <2>1. r_(q) \in Owners(proc[q].fd) /\ proc[q].fd \in 1 .. used
    BY <1>2, OpenDirectory DEF Publishing
  <2>2. \A i \in 1 .. used : r_(q) \in Owners(i) => r_(q) \in Owners(i)'
    BY <1>1, OwnerStays
  <2>. QED  BY <1>2, <2>1, <2>2 DEF Owners
<1>3. ~Kind(q)
  BY DEF Kind, Calm, ToCreate, ToClaim, Creates, ToOpen, Opens, Promotes, ToReconcile,
         Reconciles, Inits, Configures, Begins, Writes, GraphSteps, Publishing
<1>4. CASE Publish(q)
  <2>1. CASE create_marker_temp(q)
    BY <2>1, GotoFields DEF create_marker_temp
  <2>2. CASE write_and_sync_temp(q)
    BY <2>2, GotoFields DEF write_and_sync_temp
  <2>3. CASE publish_marker_relative(q) \/ publication_lost(q)
    <3>1. Deny(q) \/ Goto(q, proc[q].then) \/ Goto(q, "create")
      BY <2>3 DEF publish_marker_relative, publication_lost
    <3>2. proc[q].then # "linked"
      BY Fields DEF Continuations
    <3>3. Deny(q) => proc'[q].pc = "off"
      BY DenyFields
    <3>4. \A pc : Goto(q, pc) => proc'[q].pc = pc
      BY GotoFields
    <3>. QED  BY <3>1, <3>2, <3>3, <3>4
  <2>4. CASE link_temp_to_final(q)
    <3>1. Goto(q, IF Fd(q)[proc[q].place] = NoRun THEN "linked" ELSE "exists")
      BY <2>4 DEF link_temp_to_final
    <3>2. Fd(q)[proc[q].place] = NoRun /\ proc'[q].fd = proc[q].fd
      BY <3>1, GotoFields
    <3>3. proc[q].fd \in Inodes /\ proc[q].place \in {"luther", "git"}
      BY <2>4, LinkFields, Fields DEF Places
    <3>4. dirs'[proc[q].fd].luther = r_(q) \/ dirs'[proc[q].fd].git = r_(q)
      BY <2>4, <3>2, <3>3, LinkFields DEF Fd
    <3>5. dirs'[proc'[q].fd].luther = r_(q) \/ dirs'[proc'[q].fd].git = r_(q)
      BY <3>2, <3>4
    <3>6. r_(q)' = r_(q)
      BY DEF r_
    <3>. QED  BY <1>1, <3>5, <3>6 DEF Owners
  <2>. QED  BY <1>4, <2>1, <2>2, <2>3, <2>4 DEF Publish
<1>5. CASE die(q)
  BY <1>5, DenyFields DEF die, Deny
<1>. QED  BY <1>2, <1>3, <1>4, <1>5, OneMoves

\* A migration is completed with a record: published, or found.
LEMMA CompleteComes ==
    ASSUME Before, Next, NEW q \in Procs, proc'[q].pc = "complete"
    PROVE  \/ proc'[q] = proc[q]
           \/ proc[q].pc = "linked"
           \/ path # NoDir /\ dirs[path].luther = r_(q)
<1>. USE DEF Before
<1>1. proc \in [Procs -> Process]
  BY DEF TypeInv
<1>2. /\ ~Deny(q)
      /\ \A s \in GraphSteps : ~Enter(q, s)
      /\ \A pc : Goto(q, pc) => pc = "complete"
      /\ \A i, place, then : ~PublishThrough(q, i, place, then)
  <2>1. ~Deny(q)
    BY DenyFields
  <2>2. ASSUME NEW s \in GraphSteps PROVE ~Enter(q, s)
    BY EnterFields DEF GraphSteps
  <2>3. ASSUME NEW pc, Goto(q, pc) PROVE pc = "complete"
    BY <2>3, GotoFields
  <2>4. ASSUME NEW i, NEW place, NEW then PROVE ~PublishThrough(q, i, place, then)
    BY PublishFields
  <2>. QED  BY <2>1, <2>2, <2>3, <2>4
<1>3. CASE Publish(q)
  <2>1. ~publication_lost(q)
    BY <1>2 DEF publication_lost, PlaceInv, Publishes, Publishing, At
  <2>2. publish_marker_relative(q) => proc[q].pc = "linked"
    BY DEF publish_marker_relative, At
  <2>3. ~create_marker_temp(q) /\ ~write_and_sync_temp(q) /\ ~link_temp_to_final(q)
    BY <1>2 DEF create_marker_temp, write_and_sync_temp, link_temp_to_final
  <2>. QED  BY <1>3, <2>1, <2>2, <2>3 DEF Publish
<1>4. ~Provision(q)
  <2>1. ~launch(q) /\ ~bootstrap_workspace_creation(q) /\ ~provisioned(q)
    BY <1>1, <1>2 DEF launch, bootstrap_workspace_creation, provisioned, Process
  <2>2. ~provision_workspace_ownership(q) /\ ~claim(q) /\ ~open_for_publication(q)
    BY <1>2 DEF provision_workspace_ownership, claim, open_for_publication
  <2>. QED  BY <2>1, <2>2 DEF Provision
<1>5. ~Graph(q)
  <2>1. ~WorkspaceOwnershipVerifyExecutor(q) /\ ~configure_command_cwd(q)
    BY <1>1, <1>2 DEF WorkspaceOwnershipVerifyExecutor, configure_command_cwd, GraphSteps, Process
  <2>2. ~setup_workspace_init(q) /\ ~GitConfigPublishExecutor(q) /\ ~publish_config(q)
    BY <1>1, <1>2
    DEF setup_workspace_init, GitConfigPublishExecutor, publish_config, GraphSteps, Process
  <2>3. ~WorkspaceOwnershipExecutor(q)
    BY <1>1, <1>2 DEF WorkspaceOwnershipExecutor, Promote, Process
  <2>4. ~promoted(q) /\ ~finish(q)
    BY <1>2 DEF promoted, finish, GraphSteps
  <2>. QED  BY <2>1, <2>2, <2>3, <2>4 DEF Graph
<1>6. ~Resume(q)
  <2>1. ~resume_daemon_workflow(q) /\ ~authorize_daemon_resume(q)
    BY <1>1, <1>2 DEF resume_daemon_workflow, authorize_daemon_resume, Process
  <2>2. ~ensure_durable_with_anchor(q)
    BY <1>2 DEF ensure_durable_with_anchor, Promote, PlaceInv, At
  <2>3. ~resumed(q)
    <3>1. step[r_(q)] # "complete"
      BY Constants DEF TypeInv, GraphSteps
    <3>. QED  BY <1>2, <3>1 DEF resumed
  <2>. QED  BY <2>1, <2>2, <2>3 DEF Resume
<1>7. CASE Migrate(q)
  <2>1. ~migrate_legacy_ownership(q) /\ ~validate_workspace_safety(q) /\ ~record_completion(q)
    BY <1>2 DEF migrate_legacy_ownership, validate_workspace_safety, record_completion
  <2>2. CASE publish_or_reconcile_migration_marker(q)
    BY <1>2, <2>2
    DEF publish_or_reconcile_migration_marker, WorkspaceAnchor_open, snapshot_bootstrap_marker,
        classify_opened_marker
  <2>. QED  BY <1>7, <2>1, <2>2 DEF Migrate
<1>8. ~die(q)
  BY <1>2 DEF die, Deny
<1>. QED  BY <1>3, <1>4, <1>5, <1>6, <1>7, <1>8, WhoMoves

LEMMA CompleteStep ==
    ASSUME Before, Next, NEW q \in Procs, proc'[q].pc = "complete",
           proc[q].pc = "linked" => r_(q) \in Owners(proc[q].fd),
           proc[q].pc = "complete" => HasRecord(r_(q))
    PROVE  HasRecord(r_(q))'
<1>1. r_(q) \in Runs /\ r_(q) # NoRun
  BY Constants
<1>2. proc[q].pc = "linked" => HasRecord(r_(q))
  BY OpenDirectory DEF Before, HasRecord, Publishing
<1>3. path # NoDir /\ dirs[path].luther = r_(q) => HasRecord(r_(q))
  BY <1>1, Existing DEF Before, HasRecord, Owners
<1>4. HasRecord(r_(q))
  BY <1>2, <1>3, CompleteComes
<1>5. \A r \in Runs : HasRecord(r) => HasRecord(r)'
  BY RecordStays
<1>6. HasRecord(r_(q))'
  <2>1. \A r \in Runs : r = r_(q) => HasRecord(r)'
    BY <1>4, <1>5
  <2>. QED  BY <1>1, <2>1 DEF r_, HasRecord, Owners
<1>. QED  BY <1>6

LEMMA MigrationStep ==
    ASSUME Before, MigrationInv, Next
    PROVE  MigrationInv'
<1>1. ASSUME NEW r \in Runs PROVE mig'[r] # "none" => r \in Legacy
  BY RowStep DEF RowMoves, MigrationInv
<1>2. ASSUME NEW r \in Runs, r \in Legacy PROVE prov'[r] \in {"none", "migrated"}
  BY <1>2, RowStep DEF RowMoves, MigrationInv
<1>3. ASSUME NEW r \in Runs, mig'[r] = "completed" PROVE prov'[r] = "migrated" /\ HasRecord(r)'
  <2>1. RowMoves(r)
    BY RowStep
  <2>2. CASE mig'[r] = mig[r]
    <3>1. prov[r] = "migrated" /\ HasRecord(r) /\ r \in Legacy
      BY <1>3, <2>2 DEF MigrationInv
    <3>. QED  BY <2>1, <3>1, RecordStays DEF RowMoves
  <2>3. CASE mig[r] = "pending" /\ mig'[r] = "completed"
    <3>1. HasRecord(r) /\ prov' = tag_migrated_provenance(r)
      BY <2>1, <2>3 DEF RowMoves, MigrationInv
    <3>2. prov[r] \in {"none", "migrated"} /\ prov \in [Runs -> Versions]
      BY <2>3 DEF MigrationInv, Before, TypeInv
    <3>3. prov'[r] = "migrated"
      BY <3>1, <3>2 DEF tag_migrated_provenance
    <3>. QED  BY <3>1, <3>3, RecordStays
  <2>. QED  BY <1>3, <2>1, <2>2, <2>3 DEF RowMoves
<1>4. ASSUME NEW q \in Procs
      PROVE  /\ proc'[q].pc = "linked" => (r_(q) \in Owners(proc[q].fd))'
             /\ proc'[q].pc = "complete" => HasRecord(r_(q))'
  BY LinkedStep, CompleteStep DEF MigrationInv
<1>. QED  BY <1>1, <1>2, <1>3, <1>4 DEF MigrationInv, r_

-----------------------------------------------------------------------------
(* The inductive invariant                                                 *)

\* At first there is nothing, or the workspace of a legacy run without records.
LEMMA InitFields ==
    ASSUME Init
    PROVE  /\ \A i \in Inodes :
                 /\ dirs[i].luther \in {NoRun, Malformed} /\ dirs[i].git = NoRun
                 /\ dirs[i].config = NoRun /\ dirs[i].temps = {}
           /\ \A p \in Procs :
                 /\ proc[p].pc = "off" /\ proc[p].auth = NoDir
                 /\ proc[p].then = "off" /\ proc[p].place = "luther"
           /\ path = used /\ used <= 1 /\ cleaned = "none"
           /\ \A r \in Runs : mig[r] = "none" /\ prov[r] = "none"
<1>1. \A i \in Inodes :
         /\ dirs[i].luther \in {NoRun, Malformed} /\ dirs[i].git = NoRun
         /\ dirs[i].config = NoRun /\ dirs[i].temps = {}
  <2>1. CASE dirs = [i \in Inodes |-> Blank]
    BY <2>1 DEF Blank
  <2>2. CASE dirs # [i \in Inodes |-> Blank]
    <3>1. PICK repo \in {"none", "repo", "other"}, mark \in {NoRun, Malformed} :
             dirs = [j \in Inodes |-> IF j # 1 THEN Blank ELSE
                       [Blank EXCEPT !.repo = repo, !.luther = mark, !.files = TRUE]]
      BY <2>2 DEF Init
    <3>. DEFINE d == [Blank EXCEPT !.repo = repo, !.luther = mark, !.files = TRUE]
    <3>2. /\ d.luther = mark /\ d.git = NoRun /\ d.config = NoRun /\ d.temps = {}
          /\ Blank.luther = NoRun /\ Blank.git = NoRun /\ Blank.config = NoRun
          /\ Blank.temps = {}
      BY DEF Blank
    <3>3. dirs = [j \in Inodes |-> IF j # 1 THEN Blank ELSE d]
      BY <3>1
    <3>. HIDE DEF d
    <3>4. ASSUME NEW i \in Inodes PROVE dirs[i] = Blank \/ dirs[i] = d
      BY <3>3
    <3>. QED  BY <3>2, <3>4
  <2>. QED  BY <2>1, <2>2
<1>2. \A p \in Procs : proc[p] = Idle
  BY DEF Init
<1>3. path = used /\ used <= 1 /\ cleaned = "none"
  BY DEF Init, NoDir
<1>4. \A r \in Runs : mig[r] = "none" /\ prov[r] = "none"
  BY DEF Init
<1>. QED  BY <1>1, <1>2, <1>3, <1>4 DEF Idle

LEMMA OwnerInit == Init => OwnerInv
<1>. SUFFICES ASSUME Init PROVE OwnerInv
  OBVIOUS
<1>1. TypeInv
  BY TypeInit
<1>2. \A p \in Procs : PlaceInv(p)
  BY InitFields DEF PlaceInv, Publishes, Publishing
<1>3. DurableInv
  BY InitFields DEF DurableInv, Publishes, Publishing
<1>4. CleanedInv
  BY InitFields DEF CleanedInv, Publishes, Publishing
<1>5. AgreeInv
  BY InitFields DEF AgreeInv
<1>6. CreatorInv
  BY InitFields, Constants DEF CreatorInv, Publishes, Publishing
<1>7. MigrationInv
  BY InitFields DEF MigrationInv
<1>. QED  BY <1>1, <1>2, <1>3, <1>4, <1>5, <1>6, <1>7 DEF OwnerInv

LEMMA DurableStep ==
    ASSUME Before, Next PROVE DurableInv'
BY StepCases, DurableKind, DurablePublish, DurableFault DEF Before, Outside

LEMMA OwnerStep == OwnerInv /\ [Next]_vars => OwnerInv'
<1>. SUFFICES ASSUME OwnerInv, [Next]_vars PROVE OwnerInv'
  OBVIOUS
<1>1. CASE Next
  <2>1. Before /\ TypeInv /\ \A p \in Procs : PlaceInv(p)
    BY DEF OwnerInv, Before
  <2>2. TypeInv'
    BY <1>1, <2>1, TypeStep DEF OwnerInv
  <2>3. \A p \in Procs : PlaceInv(p)'
    BY <1>1, <2>1, PlaceStep
  <2>4. DurableInv'
    BY <1>1, <2>1, DurableStep
  <2>5. CleanedInv'
    BY <1>1, <2>1, <2>2, CleanedStep DEF OwnerInv
  <2>6. AgreeInv'
    BY <1>1, <2>1, <2>2, AgreeStep DEF OwnerInv
  <2>7. CreatorInv'
    BY <1>1, <2>1, <2>2, CreatorStep DEF OwnerInv
  <2>8. MigrationInv'
    BY <1>1, <2>1, MigrationStep DEF OwnerInv
  <2>. QED  BY <2>2, <2>3, <2>4, <2>5, <2>6, <2>7, <2>8 DEF OwnerInv
<1>2. CASE UNCHANGED vars
  <2>1. TypeInv' = TypeInv
    BY <1>2 DEF vars, TypeInv, Process, Temporary, Directory
  <2>2. \A p \in Procs : PlaceInv(p)' = PlaceInv(p)
    BY <1>2 DEF vars, PlaceInv, Publishes, r_
  <2>3. DurableInv' /\ CleanedInv'
    BY <1>2 DEF vars, OwnerInv, DurableInv, CleanedInv, Publishes, Admits, Undisturbed, r_
  <2>4. AgreeInv' /\ CreatorInv' /\ MigrationInv'
    BY <1>2
    DEF vars, OwnerInv, AgreeInv, CreatorInv, MigrationInv, Owners, MayClaim, HasRecord,
        Undisturbed, Publishes, r_
  <2>. QED  BY <2>1, <2>2, <2>3, <2>4 DEF OwnerInv
<1>. QED  BY <1>1, <1>2

\* Every state of every behaviour satisfies the whole of it: types, what each
\* place of a launch, a resume and a migration rests on, and what the records,
\* the temporary files, the authorizations and the rows have to do with each
\* other.
THEOREM OwnershipInvariant == Spec => []OwnerInv
<1>. QED  BY OwnerInit, OwnerStep, PTL DEF Spec

-----------------------------------------------------------------------------
(* The properties of the runs                                              *)

\* Two records that agree are one owner at most.
LEMMA OneRecord ==
    ASSUME NEW i, OneMark(i) PROVE Cardinality(Owners(i)) <= 1
<1>1. Owners(i) = {} \/ Owners(i) = {dirs[i].luther} \/ Owners(i) = {dirs[i].git}
  BY DEF OneMark, Owners
<1>2. Cardinality({}) = 0
  BY FS_EmptySet
<1>3. ASSUME NEW m PROVE Cardinality({m}) = 1
  BY FS_Singleton
<1>4. Cardinality(Owners(i)) = 0 \/ Cardinality(Owners(i)) = 1
  BY <1>1, <1>2, <1>3
<1>. QED  BY <1>4

LEMMA OneOwnerHolds == OwnerInv => OneOwner
<1>. SUFFICES ASSUME OwnerInv, NEW i \in Inodes
              PROVE  /\ Undisturbed =>
                           /\ Cardinality(Owners(i)) <= 1
                           /\ dirs[i].config # NoRun => Owners(i) = {dirs[i].config}
                     /\ ~moved => \A r \in Runs :
                           dirs[i].luther = r => dirs[i].creator = r \/ mig[r] # "none"
  BY DEF OneOwner
<1>1. Undisturbed => OneMark(i) /\ ConfigAgrees(i)
  BY AgreeParts DEF OwnerInv
<1>2. ~moved => RecordOwn(i)
  BY CreatorParts DEF OwnerInv
<1>. QED  BY <1>1, <1>2, OneRecord DEF ConfigAgrees, RecordOwn, MayClaim

LEMMA AuthorizedHolds == OwnerInv => AuthorizedIsExclusive
<1>. SUFFICES ASSUME OwnerInv, NEW p \in Procs, Undisturbed, proc[p].auth # NoDir
              PROVE  /\ Owners(proc[p].auth) = {r_(p)}
                     /\ \A q \in Procs : proc[q].auth = proc[p].auth => r_(q) = r_(p)
  BY DEF AuthorizedIsExclusive
<1>1. \A q \in Procs : proc[q].auth # NoDir => Owners(proc[q].auth) = {r_(q)}
  BY DEF OwnerInv, AgreeInv
<1>2. ASSUME NEW q \in Procs, proc[q].auth = proc[p].auth PROVE r_(q) = r_(p)
  <2>1. {r_(q)} = {r_(p)}
    BY <1>1, <1>2
  <2>. QED  BY <2>1
<1>. QED  BY <1>1, <1>2

LEMMA RecordHolds == OwnerInv => MigrationLeavesRecord
<1>. SUFFICES ASSUME OwnerInv, NEW r \in Runs, mig[r] = "completed"
              PROVE  prov[r] = "migrated" /\ \E i \in Inodes : r \in Owners(i)
  BY DEF MigrationLeavesRecord
<1>1. prov[r] = "migrated" /\ HasRecord(r)
  BY DEF OwnerInv, MigrationInv
<1>2. 1 .. used \subseteq Inodes
  BY Existing DEF OwnerInv
<1>. QED  BY <1>1, <1>2 DEF HasRecord

\* The two records of a directory never name two runs, the Git configuration
\* in it was published by the run they name, and a run first claims only a
\* directory it made, however launches, resumes and migrations race and die
\* and the path is replaced between verification and use
\* (publish_marker_relative, promote_via_anchor, GitConfigPublishExecutor).
THEOREM OneOwnerPerDirectory == Spec => []OneOwner
<1>. QED  BY OwnershipInvariant, OneOwnerHolds, PTL

\* No two runs hold an authorization for one directory, and the records of an
\* authorized directory name the run that holds it (WorkspaceAuthorization in
\* workspace_ownership_verify and authorize_daemon_resume).
THEOREM AuthorizationIsExclusive == Spec => []AuthorizedIsExclusive
<1>. QED  BY OwnershipInvariant, AuthorizedHolds, PTL

\* A migration that is recorded as completed left the run a record and the
\* provenance that admits a resume, whenever the command died and was repeated
\* (record_completion).
THEOREM MigrationIsRecorded == Spec => []MigrationLeavesRecord
<1>. QED  BY OwnershipInvariant, RecordHolds, PTL

-----------------------------------------------------------------------------
(* The configuration of a run: where Git pushes after overrides and repeated *)
(* resolution, and that a resume reconstructs what was launched.             *)

\* A request as the daemon makes it.
IsRequest(req) ==
    /\ req.managed = TRUE
    /\ req.transport = {}
    /\ req.work_dir = {} \/ \E t : req.work_dir = {t}
    /\ req.artifact_dir = {} \/ \E t : req.artifact_dir = {t}

LEMMA OnlyOne == \A t : Only({t}) = t
BY DEF Only

\* Resolving the transport changes two variables at most.
LEMMA TransportFrame ==
    ASSUME NEW cfg, NEW k \in DOMAIN cfg, k # Url, k # Source
    PROVE  k \in DOMAIN resolve_transport_url(cfg) /\ resolve_transport_url(cfg)[k] = cfg[k]
BY DEF resolve_transport_url, insert_var, Over

\* The URL of a transport that nobody chose is the repository's, after
\* resolution (resolve_transport_url).
LEMMA TransportDerived ==
    ASSUME NEW cfg, ~is_explicit(cfg), "target_repo" \in DOMAIN cfg
    PROVE  /\ {Url, Source} \subseteq DOMAIN resolve_transport_url(cfg)
           /\ resolve_transport_url(cfg)[Url] = default_transport_url(cfg["target_repo"])
           /\ resolve_transport_url(cfg)[Source] = Derived
BY DEF resolve_transport_url, insert_var, Over, Url, Source

\* Overrides other than a transport leave both transport variables alone.
LEMMA OverrideFrame ==
    ASSUME NEW cfg, NEW o, o.transport = {}, NEW k, k \in {Url, Source}
    PROVE  /\ k \in DOMAIN override_vars(cfg, o) <=> k \in DOMAIN cfg
           /\ k \in DOMAIN cfg => override_vars(cfg, o)[k] = cfg[k]
<1>. DEFINE a == override_repo(cfg, o)  b == override_issue(a, o)  p == override_paths(b, o)
<1>1. (k \in DOMAIN a <=> k \in DOMAIN cfg) /\ (k \in DOMAIN cfg => a[k] = cfg[k])
  BY DEF override_repo, Over, Identity, Url, Source
<1>2. (k \in DOMAIN b <=> k \in DOMAIN a) /\ (k \in DOMAIN a => b[k] = a[k])
  BY DEF override_issue, insert_var, Over, Url, Source
<1>3. (k \in DOMAIN p <=> k \in DOMAIN b) /\ (k \in DOMAIN b => p[k] = b[k])
  BY DEF override_paths, insert_optional, insert_var, Over, Url, Source
<1>4. override_vars(cfg, o) = p
  BY DEF override_vars, override_transport
<1>. QED
  BY <1>1, <1>2, <1>3, <1>4

\* The paths do not touch repository and issue.
LEMMA PathsFrame ==
    ASSUME NEW cfg, NEW o, NEW k \in DOMAIN cfg, k \notin {"work_dir", "artifact_dir"}
    PROVE  k \in DOMAIN override_paths(cfg, o) /\ override_paths(cfg, o)[k] = cfg[k]
BY DEF override_paths, insert_optional, insert_var, Over

LEMMA OverrideRepo ==
    ASSUME NEW cfg, NEW o, NEW r, o.repo = {r}, o.transport = {}
    PROVE  /\ "target_repo" \in DOMAIN override_vars(cfg, o)
           /\ override_vars(cfg, o)["target_repo"] = r
<1>. DEFINE a == override_repo(cfg, o)  b == override_issue(a, o)
<1>1. "target_repo" \in DOMAIN a /\ a["target_repo"] = r
  BY OnlyOne DEF override_repo, Over, Identity
<1>2. "target_repo" \in DOMAIN b /\ b["target_repo"] = a["target_repo"]
  BY <1>1 DEF override_issue, insert_var, Over
<1>3. override_vars(cfg, o) = override_paths(b, o)
  BY DEF override_vars, override_transport
<1>. QED
  BY <1>1, <1>2, <1>3, PathsFrame

\* What a repository override does to Git: a transport that was derived moves to
\* the new repository together with the pull requests, one that somebody chose
\* stays (apply_overrides_unchecked, resolve_transport_url).
THEOREM OverrideMovesDerivedTransport ==
    ASSUME NEW cfg, NEW o, NEW r, o.repo = {r}, o.transport = {}
    PROVE  LET after == resolve_transport_url(override_vars(cfg, o))
           IN  /\ ~is_explicit(cfg) => after[Url] = default_transport_url(r)
               /\ is_explicit(cfg) /\ Url \in DOMAIN cfg => after[Url] = cfg[Url]
<1>. DEFINE v == override_vars(cfg, o)
<1>1. is_explicit(v) <=> is_explicit(cfg)
  BY OverrideFrame DEF is_explicit
<1>2. ASSUME ~is_explicit(cfg) PROVE resolve_transport_url(v)[Url] = default_transport_url(r)
  <2>1. "target_repo" \in DOMAIN v /\ v["target_repo"] = r
    BY OverrideRepo
  <2>2. resolve_transport_url(v)[Url] = default_transport_url(v["target_repo"])
    BY <1>1, <1>2, <2>1, TransportDerived
  <2>. QED
    BY <2>1, <2>2
<1>3. ASSUME is_explicit(cfg), Url \in DOMAIN cfg
      PROVE  resolve_transport_url(v)[Url] = cfg[Url]
  BY <1>1, <1>3, OverrideFrame DEF resolve_transport_url
<1>. QED
  BY <1>2, <1>3

----------------------------------------------------------------------------
(* Launch and resume.                                                       *)

\* A path the request leaves out is one the configuration has.
HasPaths(cfg, req) ==
    /\ req.work_dir # {} \/ "work_dir" \in DOMAIN cfg
    /\ req.artifact_dir # {} \/ "artifact_dir" \in DOMAIN cfg

Claim(req) == [daemon_managed_claim |-> Flag(req.managed),
               claim_assignment_added |-> Flag(req.assigned),
               claim_label_added |-> Flag(req.labelled)]

TargetKeys == {"target_repo", "primary_issue_number", "work_dir", "artifact_dir"}

\* The paths of a launch, given or configured.
WorkDir(cfg, req) == IF req.work_dir = {} THEN cfg["work_dir"] ELSE Only(req.work_dir)
ArtifactDir(cfg, req) ==
    IF req.artifact_dir = {} THEN cfg["artifact_dir"] ELSE Only(req.artifact_dir)

\* Repository and issue overrides leave the paths to the configuration.
LEMMA TargetFrame ==
    ASSUME NEW cfg, NEW o, NEW k \in {"work_dir", "artifact_dir"}, k \in DOMAIN cfg
    PROVE  /\ k \in DOMAIN override_issue(override_repo(cfg, o), o)
           /\ override_issue(override_repo(cfg, o), o)[k] = cfg[k]
<1>1. k \in DOMAIN override_repo(cfg, o) /\ override_repo(cfg, o)[k] = cfg[k]
  BY DEF override_repo, Over, Identity
<1>. QED
  BY <1>1 DEF override_issue, insert_var, Over

LEMMA OverriddenPaths ==
    ASSUME NEW cfg, NEW o, NEW req, IsRequest(req), HasPaths(cfg, req),
           o.work_dir = req.work_dir, o.artifact_dir = req.artifact_dir
    PROVE  /\ {"work_dir", "artifact_dir"} \subseteq DOMAIN override_paths(cfg, o)
           /\ override_paths(cfg, o)["work_dir"] = WorkDir(cfg, req)
           /\ override_paths(cfg, o)["artifact_dir"] = ArtifactDir(cfg, req)
BY DEF override_paths, insert_optional, insert_var, Over, WorkDir, ArtifactDir, HasPaths

\* The claim's variables are not among them.
LEMMA ClaimFrame ==
    ASSUME NEW cfg, NEW req, NEW k \in TargetKeys, k \in DOMAIN cfg
    PROVE  k \in DOMAIN Over(Claim(req), cfg) /\ Over(Claim(req), cfg)[k] = cfg[k]
BY DEF Over, Claim, TargetKeys
\* What the launched configuration says of the target.
LEMMA LaunchedTarget ==
    ASSUME NEW c, "vars" \in DOMAIN c, NEW req, IsRequest(req), HasPaths(c.vars, req)
    PROVE  LET after == launch_daemon_workflow(c, req).vars
           IN  /\ TargetKeys \subseteq DOMAIN after
               /\ after["target_repo"] = req.repo
               /\ after["primary_issue_number"] = req.issue
               /\ after["work_dir"] = WorkDir(c.vars, req)
               /\ after["artifact_dir"] = ArtifactDir(c.vars, req)
<1>. DEFINE o == launch_overrides(req)
            a == override_repo(c.vars, o)
            b == override_issue(a, o)
            p == override_paths(b, o)
            t == resolve_transport_url(p)
<1>1. /\ o.repo = {req.repo} /\ o.issue = {req.issue} /\ o.transport = {}
      /\ o.work_dir = req.work_dir /\ o.artifact_dir = req.artifact_dir
  BY DEF launch_overrides, IsRequest
<1>2. "target_repo" \in DOMAIN a /\ a["target_repo"] = req.repo
  BY <1>1, OnlyOne DEF override_repo, Over, Identity
<1>3. /\ "target_repo" \in DOMAIN b /\ b["target_repo"] = req.repo
      /\ "primary_issue_number" \in DOMAIN b /\ b["primary_issue_number"] = req.issue
  BY <1>1, <1>2, OnlyOne DEF override_issue, insert_var, Over
<1>4. /\ HasPaths(b, req)
      /\ WorkDir(b, req) = WorkDir(c.vars, req)
      /\ ArtifactDir(b, req) = ArtifactDir(c.vars, req)
  BY TargetFrame DEF HasPaths, WorkDir, ArtifactDir
<1>5. /\ TargetKeys \subseteq DOMAIN p
      /\ p["target_repo"] = req.repo
      /\ p["primary_issue_number"] = req.issue
      /\ p["work_dir"] = WorkDir(c.vars, req)
      /\ p["artifact_dir"] = ArtifactDir(c.vars, req)
  <2>1. /\ "target_repo" \in DOMAIN p /\ p["target_repo"] = req.repo
        /\ "primary_issue_number" \in DOMAIN p /\ p["primary_issue_number"] = req.issue
    BY <1>3, PathsFrame
  <2>. HIDE DEF b
  <2>2. /\ {"work_dir", "artifact_dir"} \subseteq DOMAIN p
        /\ p["work_dir"] = WorkDir(b, req) /\ p["artifact_dir"] = ArtifactDir(b, req)
    BY <1>1, <1>4, OverriddenPaths
  <2>. QED
    BY <1>4, <2>1, <2>2 DEF TargetKeys
<1>6. \A k \in TargetKeys : k \in DOMAIN t /\ t[k] = p[k]
  <2>1. \A k \in TargetKeys : k # Url /\ k # Source
    BY DEF TargetKeys, Url, Source
  <2>. HIDE DEF p
  <2>. QED
    BY <1>5, <2>1, TransportFrame
<1>7. launch_daemon_workflow(c, req).vars = Over(Claim(req), t)
  <2>1. override_vars(c.vars, o) = p
    BY <1>1 DEF override_vars, override_transport
  <2>. QED
    BY <2>1 DEF launch_daemon_workflow, apply_daemon_claim_overrides,
                apply_target_profile_overrides, Claim
<1>8. \A k \in TargetKeys : /\ k \in DOMAIN Over(Claim(req), t)
                             /\ Over(Claim(req), t)[k] = p[k]
  <2>. HIDE DEF t, p
  <2>. QED
    BY <1>6, ClaimFrame
<1>. QED
  BY <1>5, <1>7, <1>8 DEF TargetKeys
\* The run row remembers exactly that.
LEMMA RememberedTarget ==
    ASSUME NEW c, "vars" \in DOMAIN c, NEW req, IsRequest(req), HasPaths(c.vars, req), NEW id
    PROVE  LET o == continuation_overrides(build_run_context(launch_daemon_workflow(c, req), id))
           IN  /\ o.repo = {req.repo} /\ o.issue = {req.issue} /\ o.transport = {}
               /\ o.work_dir = {WorkDir(c.vars, req)}
               /\ o.artifact_dir = {ArtifactDir(c.vars, req)}
<1>. DEFINE l == launch_daemon_workflow(c, req)
<1>1. /\ TargetKeys \subseteq DOMAIN l.vars
      /\ l.vars["target_repo"] = req.repo
      /\ l.vars["primary_issue_number"] = req.issue
      /\ l.vars["work_dir"] = WorkDir(c.vars, req)
      /\ l.vars["artifact_dir"] = ArtifactDir(c.vars, req)
  BY LaunchedTarget
<1>. HIDE DEF l
<1>2. /\ build_run_context(l, id).repo = {req.repo}
      /\ build_run_context(l, id).issue = {req.issue}
      /\ build_run_context(l, id).work_dir = {WorkDir(c.vars, req)}
      /\ build_run_context(l, id).artifact_dir = {ArtifactDir(c.vars, req)}
  BY <1>1 DEF build_run_context, TargetKeys
<1>. QED
  BY <1>2 DEF continuation_overrides, l

\* Overrides by the values that are there anyway change nothing more.
LEMMA SamePaths ==
    ASSUME NEW cfg, cfg = [k \in DOMAIN cfg |-> cfg[k]], NEW o, NEW q, NEW req, IsRequest(req), HasPaths(cfg, req),
           o.work_dir = req.work_dir, o.artifact_dir = req.artifact_dir,
           q.work_dir = {WorkDir(cfg, req)}, q.artifact_dir = {ArtifactDir(cfg, req)}
    PROVE  override_paths(cfg, o) = override_paths(cfg, q)
<1>. DEFINE x == insert_optional(cfg, "work_dir", o.work_dir)
            y == insert_optional(cfg, "work_dir", q.work_dir)
            Value(k) == IF k = "work_dir" THEN WorkDir(cfg, req)
                        ELSE IF k = "artifact_dir" THEN ArtifactDir(cfg, req) ELSE cfg[k]
<1>1. /\ DOMAIN override_paths(cfg, o) = DOMAIN cfg \cup {"work_dir", "artifact_dir"}
      /\ DOMAIN override_paths(cfg, q) = DOMAIN cfg \cup {"work_dir", "artifact_dir"}
  BY DEF override_paths, insert_optional, insert_var, Over, HasPaths
<1>2. \A k \in DOMAIN cfg \cup {"work_dir", "artifact_dir"} :
         override_paths(cfg, o)[k] = override_paths(cfg, q)[k]
  <2>1. /\ DOMAIN x = DOMAIN cfg \cup {"work_dir"}
        /\ x["work_dir"] = WorkDir(cfg, req)
        /\ \A k \in DOMAIN cfg : k # "work_dir" => x[k] = cfg[k]
    BY DEF insert_optional, insert_var, Over, HasPaths, WorkDir
  <2>2. /\ DOMAIN y = DOMAIN cfg \cup {"work_dir"}
        /\ y["work_dir"] = WorkDir(cfg, req)
        /\ \A k \in DOMAIN cfg : k # "work_dir" => y[k] = cfg[k]
    BY OnlyOne DEF insert_optional, insert_var, Over
  <2>3. /\ override_paths(cfg, o) = insert_optional(x, "artifact_dir", req.artifact_dir)
        /\ override_paths(cfg, q) = insert_optional(y, "artifact_dir", {ArtifactDir(cfg, req)})
    BY DEF override_paths
  <2>. HIDE DEF x, y
  <2>4. \A k \in DOMAIN cfg \cup {"work_dir", "artifact_dir"} :
           insert_optional(x, "artifact_dir", req.artifact_dir)[k] = Value(k)
    <3>1. CASE req.artifact_dir = {}
      BY <2>1, <3>1 DEF insert_optional, HasPaths, ArtifactDir
    <3>2. CASE req.artifact_dir # {}
      BY <2>1, <3>2 DEF insert_optional, insert_var, Over, ArtifactDir
    <3>. QED
      BY <3>1, <3>2
  <2>5. \A k \in DOMAIN cfg \cup {"work_dir", "artifact_dir"} :
           insert_optional(y, "artifact_dir", {ArtifactDir(cfg, req)})[k] = Value(k)
    <3>. DEFINE a == ArtifactDir(cfg, req)
    <3>1. insert_optional(y, "artifact_dir", {a}) = insert_var(y, "artifact_dir", a)
      BY OnlyOne DEF insert_optional
    <3>. HIDE DEF a
    <3>2. \A k \in DOMAIN cfg \cup {"work_dir", "artifact_dir"} :
             insert_var(y, "artifact_dir", a)[k] = IF k = "artifact_dir" THEN a ELSE y[k]
      BY <2>2 DEF insert_var, Over
    <3>. QED
      BY <2>2, <3>1, <3>2 DEF a
  <2>. QED
    BY <2>3, <2>4, <2>5
<1>3. /\ override_paths(cfg, o) = [k \in DOMAIN override_paths(cfg, o) |-> override_paths(cfg, o)[k]]
      /\ override_paths(cfg, q) = [k \in DOMAIN override_paths(cfg, q) |-> override_paths(cfg, q)[k]]
  BY DEF override_paths, insert_optional, insert_var, Over, HasPaths
<1>. QED
  BY <1>1, <1>2, <1>3

LEMMA SameOverrides ==
    ASSUME NEW cfg, NEW o, NEW q, NEW req, IsRequest(req), HasPaths(cfg, req),
           o.repo = q.repo, o.issue = q.issue, o.issue # {}, o.transport = {}, q.transport = {},
           o.work_dir = req.work_dir, o.artifact_dir = req.artifact_dir,
           q.work_dir = {WorkDir(cfg, req)}, q.artifact_dir = {ArtifactDir(cfg, req)}
    PROVE  override_vars(cfg, o) = override_vars(cfg, q)
<1>. DEFINE b == override_issue(override_repo(cfg, o), o)
<1>1. override_issue(override_repo(cfg, q), q) = b
  BY DEF override_repo, override_issue
<1>2. /\ HasPaths(b, req)
      /\ WorkDir(b, req) = WorkDir(cfg, req) /\ ArtifactDir(b, req) = ArtifactDir(cfg, req)
  BY TargetFrame DEF HasPaths, WorkDir, ArtifactDir
<1>3. override_paths(b, o) = override_paths(b, q)
  <2>1. b = [k \in DOMAIN b |-> b[k]]
    BY DEF override_issue
  <2>. HIDE DEF b
  <2>. QED
    BY <1>2, <2>1, SamePaths
<1>. QED
  BY <1>1, <1>3 DEF override_vars, override_transport

\* A daemon run that nobody edits the files of is resumed with exactly the
\* configuration it was launched with, so the digest check never refuses it,
\* although the row remembers only repository, issue and the two paths
\* (launch_daemon_workflow, build_run_context, continuation_overrides,
\* verify_resume_provenance).
THEOREM ResumeMatchesLaunch ==
    ASSUME NEW c, "vars" \in DOMAIN c, NEW req, IsRequest(req), HasPaths(c.vars, req), NEW id
    PROVE  LET launched == launch_daemon_workflow(c, req)
           IN  compute_config_digest(resume_config(c, build_run_context(launched, id), req))
                  = compute_config_digest(launched)
<1>. DEFINE o == launch_overrides(req)
            q == continuation_overrides(build_run_context(launch_daemon_workflow(c, req), id))
<1>1. /\ o.repo = {req.repo} /\ o.issue = {req.issue} /\ o.transport = {}
      /\ o.work_dir = req.work_dir /\ o.artifact_dir = req.artifact_dir
  BY DEF launch_overrides, IsRequest
<1>2. /\ q.repo = {req.repo} /\ q.issue = {req.issue} /\ q.transport = {}
      /\ q.work_dir = {WorkDir(c.vars, req)}
      /\ q.artifact_dir = {ArtifactDir(c.vars, req)}
  BY RememberedTarget
<1>3. override_vars(c.vars, o) = override_vars(c.vars, q)
  <2>. HIDE DEF o, q
  <2>1. o.repo = q.repo /\ o.issue = q.issue
    BY <1>1, <1>2
  <2>2. o.issue # {}
    BY <1>1
  <2>3. o.transport = {} /\ q.transport = {}
    BY <1>1, <1>2
  <2>4. o.work_dir = req.work_dir /\ o.artifact_dir = req.artifact_dir
    BY <1>1
  <2>5. q.work_dir = {WorkDir(c.vars, req)} /\ q.artifact_dir = {ArtifactDir(c.vars, req)}
    BY <1>2
  <2>. QED
    BY <2>1, <2>2, <2>3, <2>4, <2>5, SameOverrides
<1>4. apply_target_profile_overrides(c, o) = apply_target_profile_overrides(c, q)
  BY <1>3 DEF apply_target_profile_overrides
<1>. QED
  BY <1>4 DEF resume_config, launch_daemon_workflow, compute_config_digest
=============================================================================
