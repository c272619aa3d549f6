---------------------------- MODULE PackageStore ----------------------------
(***************************************************************************)
(* The directory that holds the language packages, and the processes that  *)
(* share it (src/src/package_store.rs): settings windows and installers    *)
(* that initialize it and commit changes, and the agent that follows it.   *)
(*                                                                         *)
(* A state or artifact file is named after its hash, is written under a    *)
(* temporary name, flushed, and then linked: it is there as a whole or not *)
(* at all, and nothing ever removes it.  So `states' and `blobs' are sets  *)
(* of contents, and a load, which reads the pointer, the state it names    *)
(* and the artifacts the state names, is one step at the moment it reads   *)
(* the pointer: what it finds later is at least what was there then.       *)
(*                                                                         *)
(* A directory entry outlives a power failure for certain only once the    *)
(* directory was synchronised after it was made; `durable' keeps what is   *)
(* certain.  That is the code's Unix behaviour.  On Windows the call that  *)
(* synchronises does nothing and the code promises nothing about a power   *)
(* failure, so the model has one only where SyncsDirectory holds.  The     *)
(* entry of the directory in its parent is not modelled.                   *)
(***************************************************************************)
EXTENDS PackageInventory

CONSTANTS
    NoStore,            \* stands for the pointer when there is no directory
    Absent,             \* stands for the pointer when the directory has none
    Blank,              \* stands for a pointer made but not yet written
    Procs,              \* processes that initialize, stage and commit
    Offers,             \* what a checkpoint's catalog lists: [Checkpoints -> SUBSET Artifacts]
    Releases,           \* the sets of signing keys that releases of the program trust
    SyncsDirectory,     \* TRUE on Unix, FALSE on Windows
    MaxFailures         \* bound of the model: failures in one behaviour

ASSUME StoreConstants ==
    /\ Offers \in [Checkpoints -> SUBSET Artifacts]
    /\ None \notin Procs
    /\ \A content \in {NoStore, Absent, Blank} : content \notin Inventories
    /\ NoStore \notin {Absent, Blank}
    /\ SyncsDirectory \in BOOLEAN
    /\ MaxFailures \in Nat

VARIABLES
    pointer,        \* CURRENT: NoStore, Absent, Blank, or the inventory it names
    states,         \* the inventories that have a state file
    blobs,          \* the artifacts that have a file
    durable,        \* [pointer, states, blobs] that survive a power failure for certain
    lock,           \* the process that holds the lock on writer.lock, or None
    proc,           \* what each process is doing
    mode,           \* package mode of the saved configuration: "legacy" or "managed"
    followed,       \* the state the agent's packages come from, or None after its start
    confirmed,      \* history: the last change whose commit returned success, or None
    failures        \* how many operations, processes or power supplies failed

vars == <<pointer, states, blobs, durable, lock, proc, mode, followed, confirmed, failures>>

files == <<pointer, states, blobs, durable>>

(* The steps of a process that initializes, prepares a change, commits it,  *)
(* and, after a migration, saves the configuration.                         *)
Steps == {"idle",
          "makeRoot", "linkEmpty", "makePointer", "writePointer", "syncNew", "open",
          "prepared", "locked", "linkBlobs", "syncState", "movePointer", "syncPointer",
          "accepted", "activate", "pinned", "activating"}

Idle(trust) ==
    [step |-> "idle", trust |-> trust, expected |-> None, candidate |-> None,
     supplied |-> {}, catalog |-> None, migrates |-> FALSE]

At(p, step) == proc[p].step = step

GoTo(p, step) == proc' = [proc EXCEPT ![p].step = step]

GiveUp(p) == proc' = [proc EXCEPT ![p] = Idle(proc[p].trust)]

(* Mutant: the early return of a refused commit keeps the lock. *)
UnlockUnlessRefused(p) == lock' = IF lock = p /\ ~At(p, "locked") THEN None ELSE lock

Unlock(p) == lock' = IF lock = p THEN None ELSE lock

-----------------------------------------------------------------------------
(* load: what the pointer names must be there, in full, and authenticated   *)
(* by the keys this process trusts.                                         *)
InstalledArtifacts(inv) == {inv.installed[id] : id \in Packages} \ {None}

Authenticated(artifacts, trust) == \A a \in artifacts : a.signer \in trust

Loads(trust) ==
    /\ pointer \in states
    /\ StateParses(pointer)
    /\ InstalledArtifacts(pointer) \subseteq blobs
    /\ Authenticated(InstalledArtifacts(pointer), trust)

Current(trust) == Restore(pointer, trust)

Init ==
    /\ pointer = NoStore
    /\ states = {}
    /\ blobs = {}
    /\ durable = [pointer |-> NoStore, states |-> {}, blobs |-> {}]
    /\ lock = None
    /\ \E trust \in [Procs -> Releases] : proc = [p \in Procs |-> Idle(trust[p])]
    /\ mode = "legacy"
    /\ followed = None
    /\ confirmed = None
    /\ failures = 0

-----------------------------------------------------------------------------
(* Preparing a change: nothing is written, the store may change meanwhile.  *)
Prepare(p, candidates, supplied, catalog) ==
    /\ \E candidate \in candidates :
          proc' = [proc EXCEPT ![p].step = "prepared", ![p].expected = pointer,
                               ![p].candidate = candidate, ![p].supplied = supplied,
                               ![p].catalog = catalog]
    /\ UNCHANGED <<files, lock, mode, followed, confirmed, failures>>

CanPrepare(p) == At(p, "idle") /\ Loads(proc[p].trust)

(* The settings window opens the store in managed mode only; the installer  *)
(* opens whatever store it finds.                                           *)
InSettings(p) == CanPrepare(p) /\ mode = "managed"

(* PreparedImport::from_file. *)
PrepareImport(p) ==
    /\ InSettings(p)
    /\ \E a \in Artifacts :
          /\ a.signer \in proc[p].trust
          /\ Prepare(p, StageImport(Current(proc[p].trust), {a}), {a}, None)

(* The settings window stages the removal of an installed package. *)
PrepareRemoval(p) ==
    /\ InSettings(p)
    /\ \E id \in Packages :
          /\ pointer.installed[id] # None
          /\ Prepare(p, StageRemove(Current(proc[p].trust), {id}), {}, None)

(* PreparedRollback::from_store: only the exact file kept in the store. *)
PrepareRollback(p) ==
    /\ InSettings(p)
    /\ \E id \in Packages :
          LET target == RollbackTarget(pointer, id) IN
          /\ target \in blobs
          /\ target.signer \in proc[p].trust
          /\ Prepare(p, StageRollback(Current(proc[p].trust), id), {target}, None)

(* accept_and_download_with_progress, its first half: the accepted catalog  *)
(* is committed without a package, so that it is not forgotten if the       *)
(* download fails.                                                          *)
AcceptCatalog(p) ==
    /\ CanPrepare(p)
    /\ \E c \in Checkpoints :
          /\ c.signer \in proc[p].trust
          /\ Prepare(p, StagePlan(Current(proc[p].trust), c, {}), {}, c)

(* Its second half and PreparedOnlineInstall::confirm: the selected         *)
(* packages are staged on the snapshot that the first commit returned.      *)
PrepareInstall(p) ==
    /\ At(p, "accepted")
    /\ \E new \in (SUBSET Offers[proc[p].catalog]) \ {{}} :
       \E candidate \in StagePlan(Restore(proc[p].expected, proc[p].trust), proc[p].catalog, new) :
          /\ Authenticated(new, proc[p].trust)
          /\ proc' = [proc EXCEPT ![p].step = "prepared", ![p].candidate = candidate,
                                  ![p].supplied = new, ![p].catalog = None]
    /\ UNCHANGED <<files, lock, mode, followed, confirmed, failures>>

(* The user cancels, or the download fails. *)
Cancel(p) ==
    /\ proc[p].step \in {"prepared", "accepted"}
    /\ GiveUp(p)
    /\ UNCHANGED <<files, lock, mode, followed, confirmed, failures>>

-----------------------------------------------------------------------------
(* Migration: PreparedStoreInitialization::from_files, then confirm, which  *)
(* initializes the store when there is no directory.                        *)
StartMigration(p) ==
    /\ At(p, "idle")
    /\ mode = "legacy"
    /\ \E new \in SUBSET Artifacts : \E candidate \in StageImport(EmptyInventory, new) :
          /\ Authenticated(new, proc[p].trust)
          /\ proc' = [proc EXCEPT ![p].step = IF pointer = NoStore THEN "makeRoot" ELSE "open",
                                  ![p].candidate = candidate, ![p].supplied = new,
                                  ![p].migrates = TRUE]
    /\ UNCHANGED <<files, lock, mode, followed, confirmed, failures>>

(* initialize: it takes no lock; making the directory is what excludes a    *)
(* second one.  A pointer that is there but blank does not parse.           *)
MakeRoot(p) ==
    /\ At(p, "makeRoot")
    /\ IF pointer = NoStore
       THEN pointer' = Absent /\ durable' = [durable EXCEPT !.pointer = Absent] /\ GoTo(p, "linkEmpty")
       ELSE UNCHANGED <<pointer, durable>> /\ GiveUp(p)
    /\ UNCHANGED <<states, blobs, lock, mode, followed, confirmed, failures>>

LinkEmpty(p) ==
    /\ At(p, "linkEmpty")
    /\ states' = states \cup {EmptyInventory}
    /\ GoTo(p, "makePointer")
    /\ UNCHANGED <<pointer, blobs, durable, lock, mode, followed, confirmed, failures>>

MakePointer(p) ==
    /\ At(p, "makePointer")
    /\ pointer' = Blank
    /\ GoTo(p, "writePointer")
    /\ UNCHANGED <<states, blobs, durable, lock, mode, followed, confirmed, failures>>

WritePointer(p) ==
    /\ At(p, "writePointer")
    /\ pointer' = EmptyInventory
    /\ GoTo(p, "syncNew")
    /\ UNCHANGED <<states, blobs, durable, lock, mode, followed, confirmed, failures>>

(* Mutant: the artifacts are linked into a directory that is not synchronised. *)
SyncWithoutBlobs ==
    durable' = [durable EXCEPT !.pointer = pointer, !.states = states]

(* sync_directory: every entry made so far, by whichever process, is safe. *)
SyncDirectory ==
    durable' = IF SyncsDirectory
               THEN [pointer |-> pointer, states |-> states, blobs |-> blobs]
               ELSE durable

SyncNew(p) ==
    /\ At(p, "syncNew")
    /\ SyncDirectory
    /\ GoTo(p, "open")
    /\ UNCHANGED <<pointer, states, blobs, lock, mode, followed, confirmed, failures>>

(* The rest of confirm: a store is taken over only if it is empty or holds  *)
(* exactly this candidate already; anything else, and a store that was      *)
(* never finished, is left alone.                                           *)
OpenMigrated(p) ==
    /\ At(p, "open")
    /\ IF Loads(proc[p].trust) /\ Current(proc[p].trust) \in {EmptyInventory, proc[p].candidate}
       THEN proc' = [proc EXCEPT ![p].step = "prepared", ![p].expected = pointer]
       ELSE GiveUp(p)
    /\ UNCHANGED <<files, lock, mode, followed, confirmed, failures>>

-----------------------------------------------------------------------------
(* Mutant: the lock is opened but not tried. *)
WriterLockIgnored(p) ==
    /\ proc[p].step \in {"prepared", "activate"}
    /\ lock' = p
    /\ GoTo(p, IF At(p, "prepared") THEN "locked" ELSE "pinned")
    /\ UNCHANGED <<files, mode, followed, confirmed, failures>>

(* writer_lock: a process that finds the lock taken gives up, it never      *)
(* waits.  commit_inner and with_current_snapshot both begin with it.       *)
WriterLock(p) ==
    /\ proc[p].step \in {"prepared", "activate"}
    /\ IF lock = None
       THEN /\ lock' = p
            /\ GoTo(p, IF At(p, "prepared") THEN "locked" ELSE "pinned")
       ELSE GiveUp(p) /\ lock' = lock
    /\ UNCHANGED <<files, mode, followed, confirmed, failures>>

(* Success: the accepted catalog goes on to its packages, a migration to    *)
(* the configuration, everything else is finished.                          *)
Done(p, snapshot) ==
    proc' = [proc EXCEPT ![p] =
        IF @.catalog # None
        THEN [@ EXCEPT !.step = "accepted", !.expected = snapshot, !.candidate = None]
        ELSE IF @.migrates
        THEN [@ EXCEPT !.step = "activate", !.expected = snapshot, !.candidate = None,
                       !.supplied = {}]
        ELSE Idle(@.trust)]

(* The artifacts of the candidate: each file supplied belongs to it, each   *)
(* one not supplied is in the store already, all of them are authenticated. *)
ArtifactsComplete(p) ==
    LET needed == InstalledArtifacts(proc[p].candidate) IN
    /\ proc[p].supplied \subseteq needed
    /\ needed \subseteq proc[p].supplied \cup blobs
    /\ Authenticated(needed, proc[p].trust)

(* Mutant: the store must load, but may be another state than the expected one. *)
StillLoads(p) == Loads(proc[p].trust)

StillCurrent(p) == Loads(proc[p].trust) /\ pointer = proc[p].expected

Acceptable(p) ==
    /\ CheckSuccessor(Current(proc[p].trust), proc[p].candidate)
    /\ StateParses(proc[p].candidate)
    /\ ArtifactsComplete(p)

(* A change that changes nothing, also when the loaded state forgot a       *)
(* checkpoint that its file still holds.                                    *)
NothingToCommit(p) == proc[p].candidate \in {pointer, Current(proc[p].trust)}

(* commit_inner under the lock, up to the checkpoint Validated. *)
CheckCommit(p) ==
    /\ At(p, "locked")
    /\ IF ~(StillCurrent(p) /\ Acceptable(p)) THEN GiveUp(p) /\ Unlock(p)
       ELSE IF NothingToCommit(p) THEN Done(p, pointer) /\ Unlock(p)
       ELSE GoTo(p, "linkBlobs") /\ lock' = lock
    /\ UNCHANGED <<files, mode, followed, confirmed, failures>>

(* put_immutable of the supplied artifacts, one at a time. *)
LinkBlob(p) ==
    /\ At(p, "linkBlobs")
    /\ \E a \in proc[p].supplied \ blobs : blobs' = blobs \cup {a}
    /\ UNCHANGED <<pointer, states, durable, lock, proc, mode, followed, confirmed, failures>>

LinkState(p) ==
    /\ At(p, "linkBlobs")
    /\ proc[p].supplied \subseteq blobs
    /\ states' = states \cup {proc[p].candidate}
    /\ GoTo(p, "syncState")
    /\ UNCHANGED <<pointer, blobs, durable, lock, mode, followed, confirmed, failures>>

(* Mutant: the pointer is replaced before its state is synchronised. *)
SkipSyncState(p) ==
    /\ At(p, "syncState")
    /\ GoTo(p, "movePointer")
    /\ UNCHANGED <<files, lock, mode, followed, confirmed, failures>>

SyncState(p) ==
    /\ At(p, "syncState")
    /\ SyncDirectory
    /\ GoTo(p, "movePointer")
    /\ UNCHANGED <<pointer, states, blobs, lock, mode, followed, confirmed, failures>>

(* replace_pointer: one atomic rename. *)
MovePointer(p) ==
    /\ At(p, "movePointer")
    /\ pointer' = proc[p].candidate
    /\ GoTo(p, "syncPointer")
    /\ UNCHANGED <<states, blobs, durable, lock, mode, followed, confirmed, failures>>

(* The last synchronisation, and success. *)
SyncPointer(p) ==
    /\ At(p, "syncPointer")
    /\ SyncDirectory
    /\ confirmed' = proc[p].candidate
    /\ Done(p, proc[p].candidate)
    /\ Unlock(p)
    /\ UNCHANGED <<pointer, states, blobs, mode, followed, failures>>

(* with_current_snapshot: the migration saves its mode only while the store *)
(* it prepared is current, and keeps writers out meanwhile.                 *)
CheckActivation(p) ==
    /\ At(p, "pinned")
    /\ IF StillCurrent(p)
       THEN GoTo(p, "activating") /\ lock' = lock
       ELSE GiveUp(p) /\ Unlock(p)
    /\ UNCHANGED <<files, mode, followed, confirmed, failures>>

(* save_configuration_if_unchanged: another migration may have been first. *)
SaveMode(p) ==
    /\ At(p, "activating")
    /\ mode' = "managed"
    /\ GiveUp(p)
    /\ Unlock(p)
    /\ UNCHANGED <<files, followed, confirmed, failures>>

(* An operation of the file system fails, or the process ends, at any step: *)
(* the system releases the lock, nothing is undone.  A process that starts  *)
(* again may be a newer release, which trusts fewer keys.                   *)
Fails(p) ==
    /\ ~At(p, "idle")
    /\ failures < MaxFailures
    /\ failures' = failures + 1
    /\ \E trust \in Releases :
          /\ trust \subseteq proc[p].trust
          /\ proc' = [proc EXCEPT ![p] = Idle(trust)]
    /\ Unlock(p)
    /\ UNCHANGED <<files, mode, followed, confirmed>>

(* Power fails: what was not synchronised may or may not be there.  The     *)
(* pointer is the one that was synchronised or the one that replaced it.    *)
PowerFails ==
    /\ SyncsDirectory
    /\ failures < MaxFailures
    /\ failures' = failures + 1
    /\ \E kept \in [pointer : {durable.pointer, pointer},
                    states : {durable.states \cup s : s \in SUBSET (states \ durable.states)},
                    blobs : {durable.blobs \cup b : b \in SUBSET (blobs \ durable.blobs)}] :
          /\ pointer' = kept.pointer
          /\ states' = kept.states
          /\ blobs' = kept.blobs
          /\ durable' = kept
    /\ lock' = None
    /\ proc' = [p \in Procs |-> Idle(proc[p].trust)]
    /\ followed' = None
    /\ UNCHANGED <<mode, confirmed>>

-----------------------------------------------------------------------------
(* The agent (src/src/installed_packages.rs) loads the store in managed     *)
(* mode and, after its start, follows it from state to state.               *)
AcceptsReload(old, next) ==
    old # None => \/ next.generation > old.generation
                  \/ next = old

AgentReloads ==
    /\ mode = "managed"
    /\ \E trust \in Releases : Loads(trust)
    /\ followed' = IF AcceptsReload(followed, pointer) THEN pointer ELSE followed
    /\ UNCHANGED <<files, lock, proc, mode, confirmed, failures>>

AgentRestarts ==
    /\ followed # None
    /\ followed' = None
    /\ UNCHANGED <<files, lock, proc, mode, confirmed, failures>>

Process(p) ==
    \/ PrepareImport(p) \/ PrepareRemoval(p) \/ PrepareRollback(p)
    \/ AcceptCatalog(p) \/ PrepareInstall(p) \/ Cancel(p)
    \/ StartMigration(p) \/ MakeRoot(p) \/ LinkEmpty(p) \/ MakePointer(p)
    \/ WritePointer(p) \/ SyncNew(p) \/ OpenMigrated(p)
    \/ WriterLock(p) \/ CheckCommit(p) \/ LinkBlob(p) \/ LinkState(p)
    \/ SyncState(p) \/ MovePointer(p) \/ SyncPointer(p)
    \/ CheckActivation(p) \/ SaveMode(p) \/ Fails(p)

Next == (\E p \in Procs : Process(p)) \/ PowerFails \/ AgentReloads \/ AgentRestarts

Spec == Init /\ [][Next]_vars

-----------------------------------------------------------------------------
(* What the package store must keep, whatever its processes do and wherever *)
(* they stop.                                                               *)

IsInventory(content) == content \notin {NoStore, Absent, Blank}

(* The steps a process takes under the lock on writer.lock. *)
LockedSteps == {"locked", "linkBlobs", "syncState", "movePointer", "syncPointer",
                "pinned", "activating"}

(* Every variable has its type, and only a process between taking and       *)
(* releasing the lock holds it.                                             *)
TypeOK ==
    /\ pointer \in Inventories \cup {NoStore, Absent, Blank}
    /\ states \subseteq Inventories
    /\ blobs \subseteq Artifacts
    /\ durable.pointer \in Inventories \cup {NoStore, Absent, Blank}
    /\ durable.states \subseteq states
    /\ durable.blobs \subseteq blobs
    /\ lock \in Procs \cup {None}
    /\ \A p \in Procs :
          /\ proc[p].step \in Steps
          /\ proc[p].trust \in Releases
          /\ proc[p].expected \in Inventories \cup {None}
          /\ proc[p].candidate \in Inventories \cup {None}
          /\ proc[p].supplied \subseteq Artifacts
          /\ proc[p].catalog \in Checkpoints \cup {None}
          /\ lock = p <=> proc[p].step \in LockedSteps
    /\ mode \in {"legacy", "managed"}
    /\ followed \in Inventories \cup {None}
    /\ confirmed \in Inventories \cup {None}

(* CURRENT names a state that is there with every artifact it lists, at     *)
(* every step of every commit, after a crash and after a power failure      *)
(* (package-store.md: "A successful reload selects exactly one complete     *)
(* state").  Only a power failure during an initialization may leave less:  *)
(* that store does not load, and is not taken for an empty one.             *)
StoreComplete ==
    IsInventory(pointer) =>
        /\ InstalledArtifacts(pointer) \subseteq blobs
        /\ StateParses(pointer)
        /\ pointer \in states \/ (pointer = EmptyInventory /\ confirmed = None)

(* A rollback that the inventory offers can be prepared: the exact earlier  *)
(* artifact is still in the store, although only installed artifacts are    *)
(* ever checked by a load or a commit.                                      *)
RollbackCached ==
    IsInventory(pointer) =>
        \A id \in Packages : RollbackTarget(pointer, id) \in blobs \cup {None}

(* The staging functions of the inventory and the store's own check of a    *)
(* successor agree: what was staged on a state that is still current is     *)
(* never refused, whatever the history of the store.                        *)
FreshChangeAccepted ==
    \A p \in Procs : At(p, "locked") /\ StillCurrent(p) => Acceptable(p)

(* The agent never has to refuse what it finds in the store: generations    *)
(* grow, and one generation is one state, also when a process that forgot   *)
(* a withdrawn catalog commits.                                             *)
ReloadAccepted ==
    IsInventory(pointer) => AcceptsReload(followed, pointer)

(* CURRENT moves along one history of staged changes, a confirmed change    *)
(* outlives a power failure, and the agent sees this history only: the      *)
(* store implements PackageHistory.                                         *)
Seen(content) == IF IsInventory(content) THEN content ELSE NoStore

History ==
    INSTANCE PackageHistory WITH
        store <- Seen(pointer),
        stable <- Seen(durable.pointer)

HistoryKept == History!Spec

(* No commit lowers a revision ever seen, an installed package goes back    *)
(* only to the exact artifact a rollback may go back to, and a catalog goes *)
(* back only if the committing release no longer trusts its key.            *)
NeverOlder(old, new) ==
    /\ \A id \in Packages :
          /\ old.highest[id] # None =>
                /\ new.highest[id] # None
                /\ new.highest[id].revision >= old.highest[id].revision
          /\ old.installed[id] # None /\ new.installed[id] # None =>
                \/ new.installed[id].revision >= old.installed[id].revision
                \/ new.installed[id] = RollbackTarget(old, id)
    /\ \/ old.catalog = None
       \/ new.catalog # None /\ new.catalog.revision >= old.catalog.revision
       \/ \E p \in Procs : At(p, "movePointer") /\ old.catalog.signer \notin proc[p].trust

DowngradeProtected ==
    [][IsInventory(pointer) /\ IsInventory(pointer') /\ failures' = failures
         => NeverOlder(pointer, pointer')]_pointer

(* A migration may save its mode: the store it prepared is current and      *)
(* loads.                                                                   *)
PreparedIsCurrent ==
    \E p \in Procs : /\ At(p, "activating")
                    /\ pointer = proc[p].expected
                    /\ Loads(proc[p].trust)

(* The configuration turns to managed packages only while the store that    *)
(* the migration prepared is the current one and loads                      *)
(* (with_current_snapshot).                                                 *)
ActivatesPrepared == [][PreparedIsCurrent]_mode

(* Whatever releases and processes commit to the store, what the agent finds there continues what it had:   *)
(* it never has to refuse it, and nothing gets older but what is meant to (check_store_successor).          *)
HistoryOnlyGrows == []ReloadAccepted /\ DowngradeProtected
=============================================================================
