-------------------------- MODULE PackageInventory --------------------------
(***************************************************************************)
(* The inventory of the language packages of one user, and the pure steps  *)
(* that stage a changed one (src/src/package_inventory.rs).                *)
(*                                                                         *)
(* An artifact stands for one signed package file; because a receipt holds *)
(* the hash of the file, a receipt is the artifact it names.  A checkpoint *)
(* stands for one signed release catalog together with its repository.     *)
(* Data left out: sizes and the limits on them, names of input languages   *)
(* and user-interface catalogs, the clock that lets a catalog expire.      *)
(*                                                                         *)
(* A staging function that the code may refuse is the set of the           *)
(* candidates it can return: one, or none when it refuses.                 *)
(***************************************************************************)
EXTENDS Naturals

CONSTANTS
    Packages,       \* identifiers of optional packages (English is not one)
    Artifacts,      \* signed package files: [id, revision, content, signer]
    Checkpoints,    \* signed catalogs: [repository, revision, document, signer]
    None,           \* stands for a missing entry
    MaxGeneration   \* the largest generation number (u64::MAX in the code)

ASSUME PackageConstants ==
    /\ \A a \in Artifacts : a.id \in Packages /\ a.revision \in Nat \ {0}
    /\ \A c \in Checkpoints : c.revision \in Nat
    /\ None \notin Artifacts \cup Checkpoints
    /\ MaxGeneration \in Nat

Receipts == [Packages -> Artifacts \cup {None}]

Inventories ==
    [generation : 0 .. MaxGeneration,
     installed : Receipts,
     highest : Receipts,        \* highest_seen
     targets : Receipts,        \* rollback_targets
     catalog : Checkpoints \cup {None}]

NoReceipts == [id \in Packages |-> None]

EmptyInventory ==
    [generation |-> 0, installed |-> NoReceipts, highest |-> NoReceipts,
     targets |-> NoReceipts, catalog |-> None]

-----------------------------------------------------------------------------
(* validate_receipt_history: what is installed is the highest revision ever *)
(* seen or the exact artifact a rollback went back to, and what a rollback  *)
(* may go back to belongs to an installed package and is older than the     *)
(* highest.                                                                 *)
ReceiptHistoryValid(inv) ==
    \A id \in Packages :
        LET now == inv.installed[id]  high == inv.highest[id]  target == inv.targets[id] IN
        /\ now # None => /\ high # None
                         /\ \/ now = high
                            \/ now.revision < high.revision /\ target = now
        /\ target # None => /\ now # None
                            /\ high # None
                            /\ target.id = id
                            /\ target.revision < high.revision

(* ParsedState::parse: what a state file must say to be read at all. *)
StateParses(inv) ==
    /\ ReceiptHistoryValid(inv)
    /\ inv.generation = 0 => /\ inv.installed = NoReceipts
                             /\ inv.highest = NoReceipts
                             /\ inv.catalog = None

(* Mutant: every checkpoint is forgotten. *)
RestoreWithoutCatalog(state, trust) == [state EXCEPT !.catalog = None]

(* restore: the checkpoint of a catalog whose key is no longer trusted is   *)
(* forgotten, and the binding to its repository with it.                    *)
Restore(state, trust) ==
    IF state.catalog # None /\ state.catalog.signer \in trust
    THEN state
    ELSE [state EXCEPT !.catalog = None]

(* finish: a changed inventory gets the next generation, if there is one. *)
Finish(next, previous) ==
    IF next = previous THEN {previous}
    ELSE IF previous.generation = MaxGeneration THEN {}
    ELSE {[next EXCEPT !.generation = previous.generation + 1]}

-----------------------------------------------------------------------------
OneEach(new) == \A a, b \in new : a.id = b.id => a = b

Put(receipts, new) ==
    [id \in Packages |-> IF \E a \in new : a.id = id
                         THEN CHOOSE a \in new : a.id = id
                         ELSE receipts[id]]

(* A package may be added unless a newer revision, or another file of the   *)
(* same revision, was ever seen.                                            *)
NotOlder(inv, a) ==
    LET high == inv.highest[a.id] IN
    high # None => high.revision < a.revision \/ high = a

(* The installed artifacts that the new ones replace by a newer revision. *)
Replaced(inv, new) ==
    {inv.installed[a.id] : a \in {b \in new : /\ inv.installed[b.id] # None
                                              /\ inv.installed[b.id].revision < b.revision}}

AddPackages(inv, new) ==
    [inv EXCEPT !.installed = Put(inv.installed, new),
                !.highest = Put(inv.highest, new),
                !.targets = Put(inv.targets, Replaced(inv, new))]

MayAdd(inv, new) ==
    /\ OneEach(new)
    /\ \A a \in new : NotOlder(inv, a)
    /\ ReceiptHistoryValid(AddPackages(inv, new))

StageImport(inv, new) ==
    IF MayAdd(inv, new) THEN Finish(AddPackages(inv, new), inv) ELSE {}

(* Revisions of catalogs never go back, and one revision is one document. *)
CatalogFollows(inv, checkpoint) ==
    inv.catalog # None =>
        /\ checkpoint.repository = inv.catalog.repository
        /\ \/ inv.catalog.revision < checkpoint.revision
           \/ /\ inv.catalog.revision = checkpoint.revision
              /\ inv.catalog.document = checkpoint.document

StagePlan(inv, checkpoint, new) ==
    IF CatalogFollows(inv, checkpoint) /\ MayAdd(inv, new)
    THEN Finish([AddPackages(inv, new) EXCEPT !.catalog = checkpoint], inv)
    ELSE {}

(* Mutant: a removed package keeps its rollback target. *)
StageRemoveKeepingTargets(inv, ids) ==
    Finish([inv EXCEPT !.installed = [id \in Packages |-> IF id \in ids THEN None
                                                          ELSE inv.installed[id]]], inv)

StageRemove(inv, ids) ==
    LET Without(receipts) == [id \in Packages |-> IF id \in ids THEN None ELSE receipts[id]] IN
    Finish([inv EXCEPT !.installed = Without(inv.installed),
                       !.targets = Without(inv.targets)], inv)

(* Only an installed newer package can go back to its target. *)
RollbackTarget(inv, id) ==
    IF /\ inv.targets[id] # None
       /\ inv.installed[id] # None
       /\ inv.installed[id].revision > inv.targets[id].revision
    THEN inv.targets[id]
    ELSE None

StageRollback(inv, id) ==
    LET next == [inv EXCEPT !.installed[id] = inv.targets[id]] IN
    IF RollbackTarget(inv, id) # None /\ ReceiptHistoryValid(next) THEN Finish(next, inv) ELSE {}

-----------------------------------------------------------------------------
(* check_successor: the store derives the rollback targets itself, and      *)
(* refuses a candidate that another history could have produced.            *)
DerivedTargets(inv, next) ==
    [id \in Packages |->
        LET old == inv.installed[id]  new == next.installed[id] IN
        IF old = None THEN inv.targets[id]
        ELSE IF new = None THEN None
        ELSE IF new.revision > old.revision THEN old
        ELSE inv.targets[id]]

CheckSuccessor(inv, next) ==
    \/ next = inv
    \/ /\ next.generation = inv.generation + 1
       /\ \A id \in Packages :
             LET old == inv.installed[id]  new == next.installed[id] IN
             old # None /\ new # None =>
                 \/ new.revision > old.revision
                 \/ new.revision < old.revision /\ RollbackTarget(inv, id) = new
                 \/ new = old
       /\ next.targets = DerivedTargets(inv, next)
       /\ \A id \in Packages :
             inv.highest[id] # None =>
                 /\ next.highest[id] # None
                 /\ \/ next.highest[id].revision > inv.highest[id].revision
                    \/ next.highest[id] = inv.highest[id]
       /\ inv.catalog # None => next.catalog # None /\ CatalogFollows(inv, next.catalog)
       /\ ReceiptHistoryValid(next)

(* Everything a user can have staged from an inventory. *)
Changes(inv) ==
    (UNION {StageImport(inv, new) : new \in SUBSET Artifacts})
    \cup (UNION {StagePlan(inv, c, new) : c \in Checkpoints, new \in SUBSET Artifacts})
    \cup (UNION {StageRemove(inv, ids) : ids \in SUBSET Packages})
    \cup (UNION {StageRollback(inv, id) : id \in Packages})
=============================================================================
