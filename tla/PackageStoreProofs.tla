------------------------- MODULE PackageStoreProofs -------------------------
(***************************************************************************)
(* What PackageStore promises, for every set of packages, artifacts,       *)
(* catalogs, releases and processes, and any failures and power failures.  *)
(* The argument has four parts: a candidate that a staging function        *)
(* returns for a sound inventory is sound, is a successor for              *)
(* check_successor and needs no artifact but the supplied and the          *)
(* installed ones (ImportFits to RollbackFits); every process keeps its    *)
(* candidate together with the state it was staged on (IInv); what CURRENT *)
(* names is sound and has its files, also among what a power failure       *)
(* certainly leaves, as has a candidate before CURRENT is moved to it      *)
(* (DInv: FilesKept, CandidateKept); and a checked candidate is a change   *)
(* of the current state, which the writer lock then keeps (HInv), so that  *)
(* the store implements PackageHistory.                                    *)
(***************************************************************************)
EXTENDS PackageStore, TLAPS

(* Receipts of one package never carry the identifier of another. *)
Keyed(receipts) == \A id \in Packages : receipts[id] # None => receipts[id].id = id

(* What a load guarantees of an inventory, and what staging preserves. *)
Sound(inv) == inv \in Inventories /\ Keyed(inv.installed) /\ StateParses(inv)

(* CheckSuccessor of a changed inventory, without the generation. *)
Extends(inv, next) ==
    /\ \A id \in Packages :
          LET old == inv.installed[id]  new == next.installed[id] IN
          old # None /\ new # None =>
              \/ new.revision > old.revision
              \/ new.revision < old.revision /\ RollbackTarget(inv, id) = new
              \/ new = old
    /\ next.targets = DerivedTargets(inv, next)
    /\ \A id \in Packages :
          inv.highest[id] # None =>
              /\ next.highest[id] # None
              /\ \/ next.highest[id].revision > inv.highest[id].revision
                 \/ next.highest[id] = inv.highest[id]
    /\ inv.catalog # None => next.catalog # None /\ CatalogFollows(inv, next.catalog)
    /\ ReceiptHistoryValid(next)

Fits(inv, candidate, supplied) ==
    /\ Sound(candidate)
    /\ CheckSuccessor(inv, candidate)
    /\ supplied \subseteq InstalledArtifacts(candidate)
    /\ InstalledArtifacts(candidate) \subseteq supplied \cup InstalledArtifacts(inv)

(* The generation that finish gives a changed inventory is the one that     *)
(* check_successor asks for.                                                *)
LEMMA FinishFits ==
    ASSUME NEW inv, Sound(inv),
           NEW next \in Inventories,
           next.generation = inv.generation,
           Keyed(next.installed),
           Extends(inv, next),
           NEW candidate \in Finish(next, inv)
    PROVE  Sound(candidate) /\ CheckSuccessor(inv, candidate) /\ candidate.installed = next.installed
<1>1. CASE next = inv
    <2>1. candidate = inv
        BY <1>1 DEF Finish
    <2> QED
        BY <1>1, <2>1 DEF Sound, CheckSuccessor
<1>2. CASE next # inv
    <2>1. /\ inv.generation # MaxGeneration
          /\ candidate = [next EXCEPT !.generation = inv.generation + 1]
        BY <1>2 DEF Finish
    <2>2. inv.generation \in 0 .. MaxGeneration /\ MaxGeneration \in Nat
        BY PackageConstants DEF Sound, Inventories
    <2>3. /\ candidate \in Inventories
          /\ candidate.generation = inv.generation + 1
          /\ candidate.installed = next.installed
          /\ candidate.highest = next.highest
          /\ candidate.targets = next.targets
          /\ candidate.catalog = next.catalog
        BY <2>1, <2>2 DEF Inventories
    <2>4. ReceiptHistoryValid(candidate)
        BY <2>3 DEF Extends, ReceiptHistoryValid
    <2>5. Sound(candidate)
        BY <2>2, <2>3, <2>4 DEF Sound, StateParses
    <2>6. DerivedTargets(inv, candidate) = DerivedTargets(inv, next)
        BY <2>3 DEF DerivedTargets
    <2>7. CheckSuccessor(inv, candidate)
        BY <2>3, <2>4, <2>6 DEF CheckSuccessor, Extends
    <2> QED
        BY <2>3, <2>5, <2>7
<1> QED
    BY <1>1, <1>2

(* What add_packages makes of an inventory extends it. *)
LEMMA AddExtends ==
    ASSUME NEW inv, Sound(inv), NEW new \in SUBSET Artifacts, MayAdd(inv, new)
    PROVE  LET next == AddPackages(inv, new) IN
           /\ next \in Inventories
           /\ next.generation = inv.generation
           /\ next.catalog = inv.catalog
           /\ Keyed(next.installed)
           /\ Extends(inv, next)
           /\ new \subseteq InstalledArtifacts(next)
           /\ InstalledArtifacts(next) \subseteq new \cup InstalledArtifacts(inv)
<1> DEFINE next == AddPackages(inv, new)
<1>1. /\ inv.installed \in Receipts /\ inv.highest \in Receipts /\ inv.targets \in Receipts
      /\ inv \in Inventories /\ Keyed(inv.installed) /\ ReceiptHistoryValid(inv)
    BY DEF Sound, Inventories, StateParses
<1>2. Replaced(inv, new) \in SUBSET Artifacts
    BY <1>1, PackageConstants DEF Replaced, Receipts
<1>3. ASSUME NEW receipts \in Receipts, NEW added \in SUBSET Artifacts
      PROVE  Put(receipts, added) \in Receipts
    BY <1>3 DEF Put, Receipts
<1>4. /\ next \in Inventories
      /\ next.generation = inv.generation
      /\ next.catalog = inv.catalog
      /\ next.installed = Put(inv.installed, new)
      /\ next.highest = Put(inv.highest, new)
      /\ next.targets = Put(inv.targets, Replaced(inv, new))
    BY <1>1, <1>2, <1>3 DEF AddPackages, Inventories
<1>5. ASSUME NEW a \in new, NEW receipts
      PROVE  a.id \in Packages /\ Put(receipts, new)[a.id] = a
    BY PackageConstants DEF MayAdd, OneEach, Put
<1>6. ASSUME NEW id \in Packages, \A a \in new : a.id # id, NEW receipts
      PROVE  Put(receipts, new)[id] = receipts[id]
    BY <1>6 DEF Put
<1>7. Keyed(next.installed)
    <2> SUFFICES ASSUME NEW id \in Packages, next.installed[id] # None
                 PROVE  next.installed[id].id = id
        BY DEF Keyed
    <2>1. CASE \E a \in new : a.id = id
        BY <2>1, <1>4, <1>5
    <2>2. CASE \A a \in new : a.id # id
        BY <2>2, <1>1, <1>4, <1>6 DEF Keyed
    <2> QED
        BY <2>1, <2>2
<1>8. ASSUME NEW a \in new
      PROVE  LET old == inv.installed[a.id] IN
             old # None => a.revision > old.revision \/ a = old
    <2>1. a.id \in Packages /\ a.revision \in Nat
        BY PackageConstants
    <2>2. NotOlder(inv, a)
        BY DEF MayAdd
    <2> DEFINE old == inv.installed[a.id]
               high == inv.highest[a.id]
    <2> SUFFICES ASSUME old # None
                 PROVE  a.revision > old.revision \/ a = old
        OBVIOUS
    <2>3. old \in Artifacts /\ high \in Artifacts /\ high # None
        BY <1>1, <2>1 DEF Receipts, ReceiptHistoryValid
    <2>4. old.revision \in Nat /\ high.revision \in Nat
        BY <2>3, PackageConstants
    <2>5. old = high \/ old.revision < high.revision
        BY <1>1, <2>1 DEF ReceiptHistoryValid
    <2>6. high.revision < a.revision \/ high = a
        BY <2>2, <2>3 DEF NotOlder
    <2> QED
        BY <2>1, <2>4, <2>5, <2>6
<1>9. next.targets = DerivedTargets(inv, next)
    <2> SUFFICES ASSUME NEW id \in Packages
                 PROVE  Put(inv.targets, Replaced(inv, new))[id] = DerivedTargets(inv, next)[id]
        BY <1>4 DEF Put, DerivedTargets
    <2>1. CASE \E a \in new : a.id = id
        <3>1. PICK a \in new : a.id = id
            BY <2>1
        <3>2. next.installed[id] = a
            BY <1>4, <1>5, <3>1
        <3>3. CASE inv.installed[id] # None /\ inv.installed[id].revision < a.revision
            <4>1. inv.installed[id] \in Replaced(inv, new) /\ inv.installed[id].id = id
                BY <1>1, <3>1, <3>3 DEF Replaced, Keyed
            <4>2. \A r \in Replaced(inv, new) : r.id = id => r = inv.installed[id]
                BY <1>1, PackageConstants DEF Replaced, Keyed
            <4>3. Put(inv.targets, Replaced(inv, new))[id] = inv.installed[id]
                BY <4>1, <4>2 DEF Put
            <4>4. a.revision > inv.installed[id].revision /\ a # None
                BY <3>3, <1>1, PackageConstants DEF Receipts
            <4> QED
                BY <3>2, <3>3, <4>3, <4>4 DEF DerivedTargets
        <3>4. CASE ~(inv.installed[id] # None /\ inv.installed[id].revision < a.revision)
            <4>1. \A r \in Replaced(inv, new) : r.id # id
                BY <1>1, <3>1, <3>4, PackageConstants DEF Replaced, Keyed, MayAdd, OneEach
            <4>2. Put(inv.targets, Replaced(inv, new))[id] = inv.targets[id]
                BY <4>1 DEF Put
            <4>3. inv.installed[id] # None => inv.installed[id] \in Artifacts
                BY <1>1 DEF Receipts
            <4>4. inv.installed[id] # None => ~(a.revision > inv.installed[id].revision) /\ a # None
                BY <3>4, <4>3, PackageConstants
            <4> QED
                BY <3>2, <4>2, <4>4 DEF DerivedTargets
        <3> QED
            BY <3>3, <3>4
    <2>2. CASE \A a \in new : a.id # id
        <3>1. next.installed[id] = inv.installed[id]
            BY <1>4, <1>6, <2>2
        <3>2. \A r \in Replaced(inv, new) : r.id # id
            BY <1>1, <2>2, PackageConstants DEF Replaced, Keyed
        <3>3. Put(inv.targets, Replaced(inv, new))[id] = inv.targets[id]
            BY <3>2 DEF Put
        <3>4. inv.installed[id] # None => inv.installed[id].revision \in Nat
            BY <1>1, PackageConstants DEF Receipts
        <3>5. inv.installed[id] = None => inv.targets[id] = None
            BY <1>1 DEF ReceiptHistoryValid
        <3> QED
            BY <3>1, <3>3, <3>4, <3>5 DEF DerivedTargets
    <2> QED
        BY <2>1, <2>2
<1>10. Extends(inv, next)
    <2>1. ASSUME NEW id \in Packages, inv.installed[id] # None, next.installed[id] # None
          PROVE  \/ next.installed[id].revision > inv.installed[id].revision
                 \/ next.installed[id] = inv.installed[id]
        BY <2>1, <1>4, <1>5, <1>6, <1>8
    <2>2. ASSUME NEW id \in Packages, inv.highest[id] # None
          PROVE  /\ next.highest[id] # None
                 /\ \/ next.highest[id].revision > inv.highest[id].revision
                    \/ next.highest[id] = inv.highest[id]
        <3>1. CASE \E a \in new : a.id = id
            <4>1. PICK a \in new : a.id = id
                BY <3>1
            <4>2. next.highest[id] = a /\ a # None /\ NotOlder(inv, a)
                BY <1>4, <1>5, <4>1, PackageConstants DEF MayAdd
            <4>3. inv.highest[id].revision \in Nat /\ a.revision \in Nat
                BY <1>1, <2>2, PackageConstants DEF Receipts
            <4> QED
                BY <2>2, <4>1, <4>2, <4>3 DEF NotOlder
        <3>2. CASE \A a \in new : a.id # id
            BY <2>2, <3>2, <1>4, <1>6
        <3> QED
            BY <3>1, <3>2
    <2>3. inv.catalog # None => next.catalog # None /\ CatalogFollows(inv, next.catalog)
        BY <1>4 DEF CatalogFollows
    <2>4. ReceiptHistoryValid(next)
        BY DEF MayAdd
    <2> QED
        BY <1>9, <2>1, <2>2, <2>3, <2>4 DEF Extends
<1>11. new \subseteq InstalledArtifacts(next)
    <2> SUFFICES ASSUME NEW a \in new
                 PROVE  a \in InstalledArtifacts(next)
        OBVIOUS
    <2>1. a.id \in Packages /\ next.installed[a.id] = a /\ a # None
        BY <1>4, <1>5, PackageConstants
    <2> QED
        BY <2>1 DEF InstalledArtifacts
<1>12. InstalledArtifacts(next) \subseteq new \cup InstalledArtifacts(inv)
    <2> SUFFICES ASSUME NEW id \in Packages, next.installed[id] # None
                 PROVE  next.installed[id] \in new \cup InstalledArtifacts(inv)
        BY DEF InstalledArtifacts
    <2>1. CASE \E a \in new : a.id = id
        BY <2>1, <1>4, <1>5
    <2>2. CASE \A a \in new : a.id # id
        BY <2>2, <1>4, <1>6 DEF InstalledArtifacts
    <2> QED
        BY <2>1, <2>2
<1> QED
    BY <1>4, <1>7, <1>10, <1>11, <1>12

LEMMA EmptySound == Sound(EmptyInventory)
<1>1. /\ EmptyInventory \in Inventories
      /\ \A id \in Packages : /\ EmptyInventory.installed[id] = None
                             /\ EmptyInventory.highest[id] = None
                             /\ EmptyInventory.targets[id] = None
      /\ EmptyInventory.installed = NoReceipts
      /\ EmptyInventory.highest = NoReceipts
      /\ EmptyInventory.catalog = None
    BY PackageConstants DEF EmptyInventory, NoReceipts, Inventories, Receipts
<1> QED
    BY <1>1 DEF Sound, Keyed, StateParses, ReceiptHistoryValid

(* Forgetting a withdrawn catalog keeps everything else. *)
LEMMA RestoreSound ==
    ASSUME NEW inv, Sound(inv), NEW trust
    PROVE  /\ Sound(Restore(inv, trust))
           /\ InstalledArtifacts(Restore(inv, trust)) = InstalledArtifacts(inv)
           /\ Restore(inv, trust).targets = inv.targets
           /\ Restore(inv, trust).installed = inv.installed
<1> DEFINE restored == [inv EXCEPT !.catalog = None]
<1>1. /\ restored \in Inventories
      /\ restored.generation = inv.generation
      /\ restored.installed = inv.installed
      /\ restored.highest = inv.highest
      /\ restored.targets = inv.targets
      /\ restored.catalog = None
    BY DEF Sound, Inventories
<1>2. Sound(restored)
    BY <1>1 DEF Sound, Keyed, StateParses, ReceiptHistoryValid
<1>3. InstalledArtifacts(restored) = InstalledArtifacts(inv)
    BY <1>1 DEF InstalledArtifacts
<1> QED
    BY <1>1, <1>2, <1>3 DEF Restore

(* stage_import *)
LEMMA ImportFits ==
    ASSUME NEW inv, Sound(inv), NEW new \in SUBSET Artifacts,
           NEW candidate \in StageImport(inv, new)
    PROVE  Fits(inv, candidate, new)
<1>1. MayAdd(inv, new) /\ candidate \in Finish(AddPackages(inv, new), inv)
    BY DEF StageImport
<1>2. /\ Sound(candidate)
      /\ CheckSuccessor(inv, candidate)
      /\ candidate.installed = AddPackages(inv, new).installed
    BY <1>1, AddExtends, FinishFits
<1>3. InstalledArtifacts(candidate) = InstalledArtifacts(AddPackages(inv, new))
    BY <1>2 DEF InstalledArtifacts
<1> QED
    BY <1>1, <1>2, <1>3, AddExtends DEF Fits

(* stage_catalog_plan *)
LEMMA PlanFits ==
    ASSUME NEW inv, Sound(inv), NEW checkpoint \in Checkpoints, NEW new \in SUBSET Artifacts,
           NEW candidate \in StagePlan(inv, checkpoint, new)
    PROVE  Fits(inv, candidate, new)
<1> DEFINE added == AddPackages(inv, new)
           next == [added EXCEPT !.catalog = checkpoint]
<1>1. /\ MayAdd(inv, new)
      /\ CatalogFollows(inv, checkpoint)
      /\ candidate \in Finish(next, inv)
    BY DEF StagePlan
<1>2. /\ added \in Inventories
      /\ added.generation = inv.generation
      /\ Keyed(added.installed)
      /\ Extends(inv, added)
      /\ new \subseteq InstalledArtifacts(added)
      /\ InstalledArtifacts(added) \subseteq new \cup InstalledArtifacts(inv)
    BY <1>1, AddExtends
<1>3. /\ next \in Inventories
      /\ next.generation = inv.generation
      /\ next.installed = added.installed
      /\ next.highest = added.highest
      /\ next.targets = added.targets
      /\ next.catalog = checkpoint
    BY <1>2 DEF Inventories
<1>4. Extends(inv, next)
    <2>1. DerivedTargets(inv, next) = DerivedTargets(inv, added)
        BY <1>3 DEF DerivedTargets
    <2>2. ReceiptHistoryValid(next)
        BY <1>2, <1>3 DEF Extends, ReceiptHistoryValid
    <2>3. next.catalog # None
        BY <1>3, PackageConstants
    <2> HIDE DEF next, added
    <2> QED
        BY <1>1, <1>2, <1>3, <2>1, <2>2, <2>3 DEF Extends
<1>5. Keyed(next.installed)
    BY <1>2, <1>3
<1>6. Sound(candidate) /\ CheckSuccessor(inv, candidate) /\ candidate.installed = added.installed
    <2> HIDE DEF next, added
    <2> QED
        BY <1>1, <1>3, <1>4, <1>5, FinishFits
<1>7. InstalledArtifacts(candidate) = InstalledArtifacts(added)
    BY <1>6 DEF InstalledArtifacts
<1> QED
    BY <1>2, <1>6, <1>7 DEF Fits

(* stage_remove *)
LEMMA RemoveFits ==
    ASSUME NEW inv, Sound(inv), NEW ids \in SUBSET Packages,
           NEW candidate \in StageRemove(inv, ids)
    PROVE  Fits(inv, candidate, {})
<1> DEFINE Without(receipts) == [id \in Packages |-> IF id \in ids THEN None ELSE receipts[id]]
           next == [inv EXCEPT !.installed = Without(inv.installed),
                               !.targets = Without(inv.targets)]
<1>1. candidate \in Finish(next, inv)
    BY DEF StageRemove
<1>2. /\ inv \in Inventories
      /\ inv.installed \in Receipts /\ inv.highest \in Receipts /\ inv.targets \in Receipts
      /\ Keyed(inv.installed)
      /\ ReceiptHistoryValid(inv)
    BY DEF Sound, StateParses, Inventories
<1>3. Without(inv.installed) \in Receipts /\ Without(inv.targets) \in Receipts
    BY <1>2 DEF Receipts
<1>4. /\ next \in Inventories
      /\ next.generation = inv.generation
      /\ next.installed = Without(inv.installed)
      /\ next.highest = inv.highest
      /\ next.targets = Without(inv.targets)
      /\ next.catalog = inv.catalog
    BY <1>2, <1>3 DEF Inventories
<1>5. Keyed(next.installed)
    BY <1>2, <1>4 DEF Keyed
<1>6. \A id \in Packages : inv.installed[id] # None => inv.installed[id].revision \in Nat
    BY <1>2, PackageConstants DEF Receipts
<1>7. next.targets = DerivedTargets(inv, next)
    <2> SUFFICES ASSUME NEW id \in Packages
                 PROVE  Without(inv.targets)[id] = DerivedTargets(inv, next)[id]
        BY <1>4 DEF DerivedTargets
    <2>1. inv.installed[id] = None => inv.targets[id] = None
        BY <1>2 DEF ReceiptHistoryValid
    <2> QED
        BY <1>4, <1>6, <2>1 DEF DerivedTargets
<1>8. ReceiptHistoryValid(next)
    <2>1. \A id \in Packages \ ids : /\ next.installed[id] = inv.installed[id]
                                   /\ next.highest[id] = inv.highest[id]
                                   /\ next.targets[id] = inv.targets[id]
        BY <1>4
    <2>2. \A id \in ids : next.installed[id] = None /\ next.targets[id] = None
        BY <1>4
    <2> HIDE DEF next
    <2> QED
        BY <1>2, <2>1, <2>2 DEF ReceiptHistoryValid
<1>9. Extends(inv, next)
    <2>1. \A id \in Packages :
              next.installed[id] # None => next.installed[id] = inv.installed[id]
        BY <1>4
    <2> HIDE DEF next
    <2>2. inv.catalog # None => CatalogFollows(inv, inv.catalog)
        BY DEF CatalogFollows
    <2> QED
        BY <1>4, <1>7, <1>8, <2>1, <2>2 DEF Extends
<1>10. /\ Sound(candidate)
       /\ CheckSuccessor(inv, candidate)
       /\ candidate.installed = Without(inv.installed)
    <2> HIDE DEF next
    <2> QED
        BY <1>1, <1>4, <1>5, <1>9, FinishFits
<1>11. InstalledArtifacts(candidate) \subseteq InstalledArtifacts(inv)
    BY <1>10 DEF InstalledArtifacts
<1> QED
    BY <1>10, <1>11 DEF Fits

(* stage_rollback *)
LEMMA RollbackFits ==
    ASSUME NEW inv, Sound(inv), NEW id \in Packages,
           NEW candidate \in StageRollback(inv, id)
    PROVE  Fits(inv, candidate, {RollbackTarget(inv, id)})
<1> DEFINE target == inv.targets[id]
           next == [inv EXCEPT !.installed[id] = inv.targets[id]]
<1>1. /\ RollbackTarget(inv, id) = target
      /\ target # None
      /\ inv.installed[id] # None
      /\ inv.installed[id].revision > target.revision
      /\ ReceiptHistoryValid(next)
      /\ candidate \in Finish(next, inv)
    BY DEF StageRollback, RollbackTarget
<1>2. /\ inv \in Inventories
      /\ inv.installed \in Receipts /\ inv.highest \in Receipts /\ inv.targets \in Receipts
      /\ Keyed(inv.installed)
      /\ ReceiptHistoryValid(inv)
    BY DEF Sound, StateParses, Inventories
<1>3. /\ next \in Inventories
      /\ next.generation = inv.generation
      /\ next.installed = [inv.installed EXCEPT ![id] = target]
      /\ next.highest = inv.highest
      /\ next.targets = inv.targets
      /\ next.catalog = inv.catalog
    BY <1>2 DEF Inventories, Receipts
<1>4. /\ next.installed[id] = target
      /\ \A other \in Packages \ {id} : next.installed[other] = inv.installed[other]
    BY <1>2, <1>3 DEF Receipts
<1>5. Keyed(next.installed)
    BY <1>1, <1>2, <1>4 DEF Keyed, ReceiptHistoryValid
<1>6. /\ \A i \in Packages : inv.installed[i] # None => inv.installed[i].revision \in Nat
      /\ target.revision \in Nat
    BY <1>1, <1>2, PackageConstants DEF Receipts
<1>7. next.targets = DerivedTargets(inv, next)
    <2> SUFFICES ASSUME NEW i \in Packages
                 PROVE  inv.targets[i] = DerivedTargets(inv, next)[i]
        BY <1>2, <1>3 DEF DerivedTargets, Receipts
    <2>1. inv.installed[i] = None => inv.targets[i] = None
        BY <1>2 DEF ReceiptHistoryValid
    <2>2. CASE i = id
        BY <1>1, <1>4, <1>6, <2>2 DEF DerivedTargets
    <2>3. CASE i # id
        BY <1>4, <1>6, <2>1, <2>3 DEF DerivedTargets
    <2> QED
        BY <2>2, <2>3
<1>8. Extends(inv, next)
    <2> HIDE DEF next
    <2>1. \A i \in Packages :
              \/ next.installed[i] = inv.installed[i]
              \/ /\ next.installed[i].revision < inv.installed[i].revision
                 /\ RollbackTarget(inv, i) = next.installed[i]
        BY <1>1, <1>4, <1>6
    <2>2. inv.catalog # None => CatalogFollows(inv, inv.catalog)
        BY DEF CatalogFollows
    <2> QED
        BY <1>1, <1>3, <1>7, <2>1, <2>2 DEF Extends
<1>9. /\ Sound(candidate)
      /\ CheckSuccessor(inv, candidate)
      /\ candidate.installed = next.installed
    <2> HIDE DEF next
    <2> QED
        BY <1>1, <1>3, <1>5, <1>8, FinishFits
<1>10. /\ target \in InstalledArtifacts(candidate)
       /\ InstalledArtifacts(candidate) \subseteq {target} \cup InstalledArtifacts(inv)
    BY <1>1, <1>4, <1>9 DEF InstalledArtifacts
<1> QED
    BY <1>1, <1>9, <1>10 DEF Fits

-----------------------------------------------------------------------------
(* The inductive invariant.  FileInv: whatever has a state file is sound.   *)
(* ProcInv: what each process carries from step to step.                    *)
Contents == Inventories \cup {NoStore, Absent, Blank}

Jobs ==
    [step : Steps, trust : Releases,
     expected : Inventories \cup {None}, candidate : Inventories \cup {None},
     supplied : SUBSET Artifacts, catalog : Checkpoints \cup {None}, migrates : BOOLEAN]

(* A candidate fits the state it was staged on until the commit has checked *)
(* that this state is current; a migration's fits the empty inventory.      *)
JobSound(job) ==
    /\ job.step \in {"prepared", "locked"} =>
          /\ Sound(job.expected)
          /\ Fits(Restore(job.expected, job.trust), job.candidate, job.supplied)
          /\ Authenticated(job.supplied, job.trust)
    /\ job.step \in {"makeRoot", "linkEmpty", "makePointer", "writePointer", "syncNew", "open"} =>
          /\ Fits(EmptyInventory, job.candidate, job.supplied)
          /\ Authenticated(job.supplied, job.trust)
    /\ job.step \in {"linkBlobs", "syncState", "movePointer", "syncPointer"} =>
          Sound(job.candidate)
    /\ job.step = "accepted" => Sound(job.expected) /\ job.catalog \in Checkpoints

FileInv ==
    /\ pointer \in Contents
    /\ \A s \in states : Sound(s)
    /\ blobs \subseteq Artifacts
    /\ durable \in [pointer : Contents, states : SUBSET states, blobs : SUBSET blobs]

ProcInv ==
    /\ proc \in [Procs -> Jobs]
    /\ lock \in Procs \cup {None}
    /\ \A p \in Procs : /\ JobSound(proc[p])
                        /\ lock = p <=> proc[p].step \in LockedSteps

RestInv ==
    /\ mode \in {"legacy", "managed"}
    /\ followed \in Inventories \cup {None}
    /\ confirmed \in Inventories \cup {None}

IInv == FileInv /\ ProcInv /\ RestInv

(* A process takes a step: what it carries stays sound, and it takes the    *)
(* lock, keeps it, gives it back or has nothing to do with it.              *)
LEMMA OneJob ==
    ASSUME ProcInv, NEW p \in Procs,
           NEW job \in Jobs, JobSound(job),
           proc' = [proc EXCEPT ![p] = job],
           \/ lock' = lock /\ (job.step \in LockedSteps <=> proc[p].step \in LockedSteps)
           \/ lock = None /\ lock' = p /\ job.step \in LockedSteps
           \/ Unlock(p) /\ job.step \notin LockedSteps
    PROVE  ProcInv'
<1>1. /\ proc' \in [Procs -> Jobs]
      /\ proc'[p] = job
      /\ \A q \in Procs \ {p} : proc'[q] = proc[q]
    BY DEF ProcInv
<1>2. \A q \in Procs : JobSound(proc'[q])
    BY <1>1 DEF ProcInv
<1>3. \A q \in Procs : JobSound(proc[q])'
    BY <1>2 DEF JobSound, Sound, Fits, StateParses
<1>4. lock' \in Procs \cup {None} /\ \A q \in Procs : lock' = q <=> proc'[q].step \in LockedSteps
    BY <1>1, StoreConstants DEF ProcInv, Unlock
<1> QED
    BY <1>1, <1>3, <1>4 DEF ProcInv, LockedSteps

LEMMA IdleJob ==
    ASSUME NEW trust \in Releases
    PROVE  Idle(trust) \in Jobs /\ JobSound(Idle(trust)) /\ Idle(trust).step \notin LockedSteps
BY DEF Idle, Jobs, JobSound, Steps, LockedSteps

(* A step that only moves on. *)
LEMMA NextJob ==
    ASSUME NEW job \in Jobs, NEW step \in Steps
    PROVE  LET next == [job EXCEPT !.step = step] IN
           /\ next \in Jobs
           /\ next.step = step
           /\ next.trust = job.trust
           /\ next.expected = job.expected
           /\ next.candidate = job.candidate
           /\ next.supplied = job.supplied
           /\ next.catalog = job.catalog
BY DEF Jobs

(* What a load finds is sound. *)
LEMMA LoadsSound ==
    ASSUME FileInv, NEW trust, Loads(trust)
    PROVE  Sound(pointer) /\ pointer \in Inventories /\ Sound(Current(trust))
BY RestoreSound DEF FileInv, Loads, Sound, Current

LEMMA InitInv == Init => IInv
<1> SUFFICES ASSUME Init PROVE IInv
    OBVIOUS
<1>1. PICK trust \in [Procs -> Releases] : proc = [p \in Procs |-> Idle(trust[p])]
    BY DEF Init
<1>2. ProcInv
    BY <1>1, IdleJob, StoreConstants DEF Init, ProcInv
<1>3. FileInv /\ RestInv
    BY DEF Init, FileInv, RestInv, Contents
<1> QED
    BY <1>2, <1>3 DEF IInv

-----------------------------------------------------------------------------
(* Preparing. *)

LEMMA PrepareStep ==
    ASSUME IInv, NEW p \in Procs, At(p, "idle"), Loads(proc[p].trust),
           NEW candidates, NEW supplied \in SUBSET Artifacts, NEW catalog \in Checkpoints \cup {None},
           Prepare(p, candidates, supplied, catalog),
           Authenticated(supplied, proc[p].trust),
           \A c \in candidates : Fits(Current(proc[p].trust), c, supplied)
    PROVE  IInv'
<1>1. PICK candidate \in candidates :
          proc' = [proc EXCEPT ![p].step = "prepared", ![p].expected = pointer,
                               ![p].candidate = candidate, ![p].supplied = supplied,
                               ![p].catalog = catalog]
    BY DEF Prepare
<1> DEFINE job == [proc[p] EXCEPT !.step = "prepared", !.expected = pointer,
                                  !.candidate = candidate, !.supplied = supplied,
                                  !.catalog = catalog]
<1>2. proc[p] \in Jobs /\ proc[p].trust \in Releases
    BY DEF IInv, ProcInv, Jobs
<1>3. Sound(pointer) /\ pointer \in Inventories
    BY LoadsSound DEF IInv
<1>4. Fits(Restore(pointer, proc[p].trust), candidate, supplied) /\ candidate \in Inventories
    BY DEF Fits, Sound, Current
<1>5. /\ job \in Jobs
      /\ job.step = "prepared" /\ job.trust = proc[p].trust /\ job.expected = pointer
      /\ job.candidate = candidate /\ job.supplied = supplied
    BY <1>2, <1>3, <1>4 DEF Jobs, Steps
<1>6. proc' = [proc EXCEPT ![p] = job]
    BY <1>1 DEF IInv, ProcInv
<1>7. lock' = lock /\ (job.step \in LockedSteps <=> proc[p].step \in LockedSteps)
    BY <1>5 DEF Prepare, At, LockedSteps
<1> HIDE DEF job
<1>8. JobSound(job)
    BY <1>3, <1>4, <1>5 DEF JobSound
<1>9. ProcInv'
    BY <1>5, <1>6, <1>7, <1>8, OneJob DEF IInv
<1> QED
    BY <1>9 DEF IInv, FileInv, RestInv, Prepare, files

LEMMA PreparingSteps ==
    ASSUME IInv, NEW p \in Procs,
           PrepareImport(p) \/ PrepareRemoval(p) \/ PrepareRollback(p) \/ AcceptCatalog(p)
    PROVE  IInv'
<1> DEFINE trust == proc[p].trust
<1>1. At(p, "idle") /\ Loads(trust)
    BY DEF PrepareImport, PrepareRemoval, PrepareRollback, AcceptCatalog, InSettings, CanPrepare
<1>2. /\ Sound(pointer)
      /\ Sound(Current(trust))
      /\ Current(trust).targets = pointer.targets
      /\ Current(trust).installed = pointer.installed
    BY <1>1, LoadsSound, RestoreSound DEF IInv, Current
<1>3. CASE PrepareImport(p)
    <2>1. PICK a \in Artifacts :
              /\ a.signer \in trust
              /\ Prepare(p, StageImport(Current(trust), {a}), {a}, None)
        BY <1>3 DEF PrepareImport
    <2>2. Authenticated({a}, trust)
        BY <2>1 DEF Authenticated
    <2>3. \A c \in StageImport(Current(trust), {a}) : Fits(Current(trust), c, {a})
        BY <1>2, ImportFits
    <2> QED
        BY <1>1, <2>1, <2>2, <2>3, PrepareStep
<1>4. CASE PrepareRemoval(p)
    <2>1. PICK id \in Packages : Prepare(p, StageRemove(Current(trust), {id}), {}, None)
        BY <1>4 DEF PrepareRemoval
    <2>2. Authenticated({}, trust)
        BY DEF Authenticated
    <2>3. \A c \in StageRemove(Current(trust), {id}) : Fits(Current(trust), c, {})
        BY <1>2, RemoveFits
    <2> QED
        BY <1>1, <2>1, <2>2, <2>3, PrepareStep
<1>5. CASE PrepareRollback(p)
    <2>1. PICK id \in Packages :
              LET target == RollbackTarget(pointer, id) IN
              /\ target \in blobs
              /\ target.signer \in trust
              /\ Prepare(p, StageRollback(Current(trust), id), {target}, None)
        BY <1>5 DEF PrepareRollback
    <2>2. RollbackTarget(Current(trust), id) = RollbackTarget(pointer, id)
        BY <1>2 DEF RollbackTarget
    <2> DEFINE target == RollbackTarget(pointer, id)
    <2>3. target \in Artifacts /\ Authenticated({target}, trust)
        BY <2>1 DEF Authenticated, IInv, FileInv
    <2>4. \A c \in StageRollback(Current(trust), id) : Fits(Current(trust), c, {target})
        BY <1>2, <2>2, RollbackFits
    <2> QED
        BY <1>1, <2>1, <2>3, <2>4, PrepareStep
<1>6. CASE AcceptCatalog(p)
    <2>1. PICK c \in Checkpoints : Prepare(p, StagePlan(Current(trust), c, {}), {}, c)
        BY <1>6 DEF AcceptCatalog
    <2>2. Authenticated({}, trust)
        BY DEF Authenticated
    <2>3. \A d \in StagePlan(Current(trust), c, {}) : Fits(Current(trust), d, {})
        BY <1>2, PlanFits
    <2> QED
        BY <1>1, <2>1, <2>2, <2>3, PrepareStep
<1> QED
    BY <1>3, <1>4, <1>5, <1>6

LEMMA InstallStep ==
    ASSUME IInv, NEW p \in Procs, PrepareInstall(p)
    PROVE  IInv'
<1> DEFINE trust == proc[p].trust
           before == Restore(proc[p].expected, trust)
           catalog == proc[p].catalog
<1>1. /\ proc[p] \in Jobs
      /\ proc[p].step = "accepted"
      /\ Sound(proc[p].expected)
      /\ catalog \in Checkpoints
    BY DEF IInv, ProcInv, JobSound, PrepareInstall, At
<1> DEFINE Takes(new, candidate) ==
               /\ Authenticated(new, trust)
               /\ proc' = [proc EXCEPT ![p].step = "prepared", ![p].candidate = candidate,
                                       ![p].supplied = new, ![p].catalog = None]
<1>a. PICK new \in (SUBSET Offers[catalog]) \ {{}} :
          \E candidate \in StagePlan(before, catalog, new) : Takes(new, candidate)
    BY DEF PrepareInstall
<1>2. PICK candidate \in StagePlan(before, catalog, new) : Takes(new, candidate)
    BY <1>a
<1>3. new \in SUBSET Artifacts
    BY <1>1, StoreConstants
<1>4. Fits(before, candidate, new) /\ candidate \in Inventories
    BY <1>1, <1>3, RestoreSound, PlanFits DEF Fits, Sound
<1> DEFINE job == [proc[p] EXCEPT !.step = "prepared", !.candidate = candidate,
                                  !.supplied = new, !.catalog = None]
<1>5. /\ job \in Jobs
      /\ job.step = "prepared" /\ job.trust = trust /\ job.expected = proc[p].expected
      /\ job.candidate = candidate /\ job.supplied = new
    BY <1>1, <1>3, <1>4 DEF Jobs, Steps
<1>6. proc' = [proc EXCEPT ![p] = job]
    BY <1>2 DEF IInv, ProcInv
<1>7. lock' = lock /\ (job.step \in LockedSteps <=> proc[p].step \in LockedSteps)
    BY <1>1, <1>5 DEF PrepareInstall, LockedSteps
<1> HIDE DEF job
<1>8. JobSound(job)
    BY <1>1, <1>2, <1>4, <1>5 DEF JobSound
<1>9. ProcInv'
    BY <1>5, <1>6, <1>7, <1>8, OneJob DEF IInv
<1> QED
    BY <1>9 DEF IInv, FileInv, RestInv, PrepareInstall, files

(* A process that gives up. *)
LEMMA GiveUpStep ==
    ASSUME ProcInv, NEW p \in Procs, NEW trust \in Releases,
           proc' = [proc EXCEPT ![p] = Idle(trust)],
           \/ lock' = lock /\ proc[p].step \notin LockedSteps
           \/ Unlock(p)
    PROVE  ProcInv'
BY IdleJob, OneJob

LEMMA CancelStep ==
    ASSUME IInv, NEW p \in Procs, Cancel(p)
    PROVE  IInv'
<1>1. ProcInv'
    BY GiveUpStep DEF Cancel, GiveUp, IInv, ProcInv, Jobs, LockedSteps
<1> QED
    BY <1>1 DEF IInv, FileInv, RestInv, Cancel, files

-----------------------------------------------------------------------------
(* Migrating. *)

LEMMA StartMigrationStep ==
    ASSUME IInv, NEW p \in Procs, StartMigration(p)
    PROVE  IInv'
<1> DEFINE first == IF pointer = NoStore THEN "makeRoot" ELSE "open"
           Starts(new, candidate) ==
               /\ Authenticated(new, proc[p].trust)
               /\ proc' = [proc EXCEPT ![p].step = first, ![p].candidate = candidate,
                                       ![p].supplied = new, ![p].migrates = TRUE]
<1>1. PICK new \in SUBSET Artifacts :
          \E candidate \in StageImport(EmptyInventory, new) : Starts(new, candidate)
    BY DEF StartMigration
<1>2. PICK candidate \in StageImport(EmptyInventory, new) : Starts(new, candidate)
    BY <1>1
<1>3. Fits(EmptyInventory, candidate, new) /\ candidate \in Inventories
    BY EmptySound, ImportFits DEF Fits, Sound
<1>4. proc[p] \in Jobs /\ proc[p].step = "idle"
    BY DEF IInv, ProcInv, StartMigration, At
<1> DEFINE job == [proc[p] EXCEPT !.step = first, !.candidate = candidate,
                                  !.supplied = new, !.migrates = TRUE]
<1>5. /\ job \in Jobs
      /\ job.step \in {"makeRoot", "open"} /\ job.trust = proc[p].trust
      /\ job.candidate = candidate /\ job.supplied = new
    BY <1>3, <1>4 DEF Jobs, Steps
<1>6. proc' = [proc EXCEPT ![p] = job]
    BY <1>2 DEF IInv, ProcInv
<1>7. lock' = lock /\ (job.step \in LockedSteps <=> proc[p].step \in LockedSteps)
    BY <1>4, <1>5 DEF StartMigration, LockedSteps
<1> HIDE DEF job
<1>8. JobSound(job)
    BY <1>2, <1>3, <1>5 DEF JobSound
<1>9. ProcInv'
    BY <1>5, <1>6, <1>7, <1>8, OneJob DEF IInv
<1> QED
    BY <1>9 DEF IInv, FileInv, RestInv, StartMigration, files

(* What a step without the lock only moves on with. *)
LEMMA MoveOnStep ==
    ASSUME ProcInv, NEW p \in Procs, NEW step \in Steps, GoTo(p, step), lock' = lock,
           \/ /\ proc[p].step \in {"makeRoot", "linkEmpty", "makePointer", "writePointer", "syncNew"}
              /\ step \in {"linkEmpty", "makePointer", "writePointer", "syncNew", "open"}
           \/ /\ proc[p].step \in {"linkBlobs", "syncState", "movePointer"}
              /\ step \in {"syncState", "movePointer", "syncPointer"}
           \/ proc[p].step = "pinned" /\ step = "activating"
    PROVE  ProcInv'
<1> DEFINE job == [proc[p] EXCEPT !.step = step]
<1>1. proc[p] \in Jobs /\ JobSound(proc[p])
    BY DEF ProcInv
<1>2. /\ job \in Jobs
      /\ job.step = step /\ job.trust = proc[p].trust /\ job.expected = proc[p].expected
      /\ job.candidate = proc[p].candidate /\ job.supplied = proc[p].supplied
    BY <1>1, NextJob
<1>3. proc' = [proc EXCEPT ![p] = job]
    BY DEF ProcInv, GoTo
<1> HIDE DEF job
<1>4. JobSound(job)
    BY <1>1, <1>2 DEF JobSound
<1>5. job.step \in LockedSteps <=> proc[p].step \in LockedSteps
    BY <1>2 DEF LockedSteps
<1> QED
    BY <1>2, <1>3, <1>4, <1>5, OneJob

LEMMA InitializeSteps ==
    ASSUME IInv, NEW p \in Procs,
           \/ MakeRoot(p) \/ LinkEmpty(p) \/ MakePointer(p) \/ WritePointer(p) \/ SyncNew(p)
    PROVE  IInv'
<1> USE DEF IInv
<1>1. {"linkEmpty", "makePointer", "writePointer", "syncNew", "open"} \subseteq Steps
    BY DEF Steps
<1>2. CASE MakeRoot(p)
    <2>1. ProcInv'
        BY <1>1, <1>2, MoveOnStep, GiveUpStep
           DEF MakeRoot, At, GiveUp, ProcInv, Jobs, LockedSteps
    <2>2. FileInv'
        BY <1>2 DEF MakeRoot, FileInv, Contents
    <2> QED
        BY <1>2, <2>1, <2>2 DEF RestInv, MakeRoot
<1>3. CASE LinkEmpty(p)
    <2>1. ProcInv'
        BY <1>1, <1>3, MoveOnStep DEF LinkEmpty, At
    <2>2. FileInv'
        BY <1>3, EmptySound DEF LinkEmpty, FileInv
    <2> QED
        BY <1>3, <2>1, <2>2 DEF RestInv, LinkEmpty
<1>4. CASE MakePointer(p)
    <2>1. ProcInv'
        BY <1>1, <1>4, MoveOnStep DEF MakePointer, At
    <2>2. FileInv'
        BY <1>4 DEF MakePointer, FileInv, Contents
    <2> QED
        BY <1>4, <2>1, <2>2 DEF RestInv, MakePointer
<1>5. CASE WritePointer(p)
    <2>1. ProcInv'
        BY <1>1, <1>5, MoveOnStep DEF WritePointer, At
    <2>2. FileInv'
        BY <1>5, EmptySound DEF WritePointer, FileInv, Contents, Sound
    <2> QED
        BY <1>5, <2>1, <2>2 DEF RestInv, WritePointer
<1>6. CASE SyncNew(p)
    <2>1. ProcInv'
        BY <1>1, <1>6, MoveOnStep DEF SyncNew, At
    <2>2. FileInv'
        BY <1>6 DEF SyncNew, SyncDirectory, FileInv
    <2> QED
        BY <1>6, <2>1, <2>2 DEF RestInv, SyncNew
<1> QED
    BY <1>2, <1>3, <1>4, <1>5, <1>6

LEMMA OpenMigratedStep ==
    ASSUME IInv, NEW p \in Procs, OpenMigrated(p)
    PROVE  IInv'
<1> DEFINE trust == proc[p].trust
           job == [proc[p] EXCEPT !.step = "prepared", !.expected = pointer]
<1>1. /\ proc[p] \in Jobs
      /\ proc[p].step = "open"
      /\ Fits(EmptyInventory, proc[p].candidate, proc[p].supplied)
      /\ Authenticated(proc[p].supplied, trust)
    BY DEF IInv, ProcInv, JobSound, OpenMigrated, At
<1>2. CASE Loads(trust) /\ Current(trust) \in {EmptyInventory, proc[p].candidate}
    <2>1. Sound(pointer) /\ pointer \in Inventories
        BY <1>2, LoadsSound DEF IInv
    <2>2. Fits(Restore(pointer, trust), proc[p].candidate, proc[p].supplied)
        BY <1>1, <1>2 DEF Current, Fits, CheckSuccessor
    <2>3. /\ job \in Jobs
          /\ job.step = "prepared" /\ job.trust = trust /\ job.expected = pointer
          /\ job.candidate = proc[p].candidate /\ job.supplied = proc[p].supplied
        BY <1>1, <2>1 DEF Jobs, Steps
    <2>4. proc' = [proc EXCEPT ![p] = job]
        BY <1>2 DEF OpenMigrated, IInv, ProcInv
    <2>5. lock' = lock /\ (job.step \in LockedSteps <=> proc[p].step \in LockedSteps)
        BY <1>1, <2>3 DEF OpenMigrated, LockedSteps
    <2> HIDE DEF job
    <2>6. JobSound(job)
        BY <1>1, <2>1, <2>2, <2>3 DEF JobSound
    <2>7. ProcInv'
        BY <2>3, <2>4, <2>5, <2>6, OneJob DEF IInv
    <2> QED
        BY <2>7 DEF IInv, FileInv, RestInv, OpenMigrated, files
<1>3. CASE ~(Loads(trust) /\ Current(trust) \in {EmptyInventory, proc[p].candidate})
    <2>1. ProcInv'
        BY <1>1, <1>3, GiveUpStep DEF IInv, OpenMigrated, GiveUp, Jobs, LockedSteps
    <2> QED
        BY <2>1 DEF IInv, FileInv, RestInv, OpenMigrated, files
<1> QED
    BY <1>2, <1>3

-----------------------------------------------------------------------------
(* Committing. *)

LEMMA WriterLockStep ==
    ASSUME IInv, NEW p \in Procs, WriterLock(p)
    PROVE  IInv'
<1> DEFINE next == IF At(p, "prepared") THEN "locked" ELSE "pinned"
           job == [proc[p] EXCEPT !.step = next]
<1>1. proc[p] \in Jobs /\ JobSound(proc[p]) /\ proc[p].step \in {"prepared", "activate"}
    BY DEF IInv, ProcInv, WriterLock
<1>2. CASE lock = None
    <2>1. next \in Steps /\ next \in LockedSteps
        BY DEF Steps, LockedSteps
    <2>2. /\ job \in Jobs
          /\ job.step = next /\ job.trust = proc[p].trust /\ job.expected = proc[p].expected
          /\ job.candidate = proc[p].candidate /\ job.supplied = proc[p].supplied
        BY <1>1, <2>1, NextJob
    <2>3. proc' = [proc EXCEPT ![p] = job] /\ lock' = p
        BY <1>2 DEF WriterLock, GoTo, IInv, ProcInv
    <2> HIDE DEF job
    <2>4. JobSound(job)
        BY <1>1, <2>2 DEF JobSound, At
    <2>5. ProcInv'
        BY <1>2, <2>1, <2>2, <2>3, <2>4, OneJob DEF IInv
    <2> QED
        BY <2>5 DEF IInv, FileInv, RestInv, WriterLock, files
<1>3. CASE lock # None
    <2>1. ProcInv'
        BY <1>1, <1>3, GiveUpStep DEF IInv, WriterLock, GiveUp, Jobs, LockedSteps
    <2> QED
        BY <2>1 DEF IInv, FileInv, RestInv, WriterLock, files
<1> QED
    BY <1>2, <1>3

(* A commit that succeeds releases the lock and keeps its snapshot. *)
LEMMA DoneStep ==
    ASSUME ProcInv, NEW p \in Procs, NEW snapshot, Sound(snapshot),
           Done(p, snapshot), Unlock(p)
    PROVE  ProcInv'
<1> DEFINE accepted == [proc[p] EXCEPT !.step = "accepted", !.expected = snapshot,
                                       !.candidate = None]
           migrated == [proc[p] EXCEPT !.step = "activate", !.expected = snapshot,
                                       !.candidate = None, !.supplied = {}]
<1>1. /\ proc[p] \in Jobs
      /\ snapshot \in Inventories
    BY DEF ProcInv, Sound
<1>2. CASE proc[p].catalog # None
    <2>1. proc' = [proc EXCEPT ![p] = accepted]
        BY <1>2 DEF Done, ProcInv
    <2>2. /\ accepted \in Jobs
          /\ accepted.step = "accepted"
          /\ accepted.expected = snapshot
          /\ accepted.catalog \in Checkpoints
        BY <1>1, <1>2 DEF Jobs, Steps
    <2> HIDE DEF accepted
    <2>3. JobSound(accepted) /\ accepted.step \notin LockedSteps
        BY <2>2 DEF JobSound, LockedSteps
    <2> QED
        BY <2>1, <2>2, <2>3, OneJob
<1>3. CASE proc[p].catalog = None /\ proc[p].migrates
    <2>1. proc' = [proc EXCEPT ![p] = migrated]
        BY <1>3 DEF Done, ProcInv
    <2>2. migrated \in Jobs /\ migrated.step = "activate"
        BY <1>1 DEF Jobs, Steps
    <2> HIDE DEF migrated
    <2>3. JobSound(migrated) /\ migrated.step \notin LockedSteps
        BY <2>2 DEF JobSound, LockedSteps
    <2> QED
        BY <2>1, <2>2, <2>3, OneJob
<1>4. CASE proc[p].catalog = None /\ ~proc[p].migrates
    <2>1. proc' = [proc EXCEPT ![p] = Idle(proc[p].trust)]
        BY <1>4 DEF Done, ProcInv
    <2> QED
        BY <1>1, <2>1, GiveUpStep DEF Jobs
<1> QED
    BY <1>2, <1>3, <1>4

LEMMA CheckCommitStep ==
    ASSUME IInv, NEW p \in Procs, CheckCommit(p)
    PROVE  IInv'
<1>1. /\ proc[p] \in Jobs
      /\ proc[p].step = "locked"
      /\ Sound(proc[p].expected)
      /\ Sound(proc[p].candidate)
    BY DEF IInv, ProcInv, JobSound, CheckCommit, At, Fits
<1>2. UNCHANGED <<files, mode, followed, confirmed>>
    BY DEF CheckCommit
<1>3. CASE ~(StillCurrent(p) /\ Acceptable(p))
    <2>1. GiveUp(p) /\ Unlock(p)
        BY <1>3 DEF CheckCommit
    <2>2. ProcInv'
        BY <1>1, <2>1, GiveUpStep DEF IInv, GiveUp, Jobs
    <2> QED
        BY <1>2, <2>2 DEF IInv, FileInv, RestInv, files
<1>4. CASE StillCurrent(p) /\ Acceptable(p) /\ NothingToCommit(p)
    <2>1. Sound(pointer)
        BY <1>1, <1>4 DEF StillCurrent
    <2>2. Done(p, pointer) /\ Unlock(p)
        BY <1>4 DEF CheckCommit
    <2>3. ProcInv'
        BY <2>1, <2>2, DoneStep DEF IInv
    <2> QED
        BY <1>2, <2>3 DEF IInv, FileInv, RestInv, files
<1>5. CASE StillCurrent(p) /\ Acceptable(p) /\ ~NothingToCommit(p)
    <2> DEFINE job == [proc[p] EXCEPT !.step = "linkBlobs"]
    <2>1. GoTo(p, "linkBlobs") /\ lock' = lock
        BY <1>5 DEF CheckCommit
    <2>2. proc' = [proc EXCEPT ![p] = job]
        BY <2>1 DEF GoTo, IInv, ProcInv
    <2>3. job \in Jobs /\ job.step = "linkBlobs" /\ job.candidate = proc[p].candidate
        BY <1>1, NextJob DEF Steps
    <2> HIDE DEF job
    <2>4. JobSound(job) /\ job.step \in LockedSteps /\ proc[p].step \in LockedSteps
        BY <1>1, <2>3 DEF JobSound, LockedSteps
    <2>5. ProcInv'
        BY <2>1, <2>2, <2>3, <2>4, OneJob DEF IInv
    <2> QED
        BY <1>2, <2>5 DEF IInv, FileInv, RestInv, files
<1> QED
    BY <1>3, <1>4, <1>5

LEMMA CommitSteps ==
    ASSUME IInv, NEW p \in Procs,
           \/ LinkBlob(p) \/ LinkState(p) \/ SyncState(p) \/ MovePointer(p) \/ SyncPointer(p)
    PROVE  IInv'
<1> USE DEF IInv
<1>1. {"syncState", "movePointer", "syncPointer"} \subseteq Steps
    BY DEF Steps
<1>2. /\ proc[p] \in Jobs
      /\ proc[p].step \in {"linkBlobs", "syncState", "movePointer", "syncPointer"}
      /\ Sound(proc[p].candidate)
      /\ proc[p].candidate \in Inventories
      /\ proc[p].supplied \in SUBSET Artifacts
    BY DEF ProcInv, JobSound, Jobs, Sound, LinkBlob, LinkState, SyncState, MovePointer,
           SyncPointer, At
<1>3. CASE LinkBlob(p)
    BY <1>2, <1>3 DEF LinkBlob, FileInv, ProcInv, RestInv, Unlock
<1>4. CASE LinkState(p)
    <2>1. ProcInv'
        BY <1>1, <1>4, MoveOnStep DEF LinkState, At
    <2>2. FileInv'
        BY <1>2, <1>4 DEF LinkState, FileInv
    <2> QED
        BY <1>4, <2>1, <2>2 DEF RestInv, LinkState
<1>5. CASE SyncState(p)
    <2>1. ProcInv'
        BY <1>1, <1>5, MoveOnStep DEF SyncState, At
    <2>2. FileInv'
        BY <1>5 DEF SyncState, SyncDirectory, FileInv
    <2> QED
        BY <1>5, <2>1, <2>2 DEF RestInv, SyncState
<1>6. CASE MovePointer(p)
    <2>1. ProcInv'
        BY <1>1, <1>6, MoveOnStep DEF MovePointer, At
    <2>2. FileInv'
        BY <1>2, <1>6 DEF MovePointer, FileInv, Contents
    <2> QED
        BY <1>6, <2>1, <2>2 DEF RestInv, MovePointer
<1>7. CASE SyncPointer(p)
    <2>1. ProcInv'
        BY <1>2, <1>7, DoneStep DEF SyncPointer
    <2>2. FileInv'
        BY <1>7 DEF SyncPointer, SyncDirectory, FileInv
    <2> QED
        BY <1>2, <1>7, <2>1, <2>2 DEF RestInv, SyncPointer
<1> QED
    BY <1>3, <1>4, <1>5, <1>6, <1>7

-----------------------------------------------------------------------------
(* Activating, failing and following. *)

LEMMA ActivationSteps ==
    ASSUME IInv, NEW p \in Procs, CheckActivation(p) \/ SaveMode(p)
    PROVE  IInv'
<1> USE DEF IInv
<1>1. proc[p] \in Jobs /\ proc[p].trust \in Releases
    BY DEF ProcInv, Jobs
<1>2. CASE CheckActivation(p)
    <2>1. CASE StillCurrent(p)
        <3>1. GoTo(p, "activating") /\ lock' = lock /\ proc[p].step = "pinned"
            BY <1>2, <2>1 DEF CheckActivation, At
        <3>2. ProcInv'
            BY <3>1, MoveOnStep DEF Steps
        <3> QED
            BY <1>2, <3>2 DEF CheckActivation, FileInv, RestInv, files
    <2>2. CASE ~StillCurrent(p)
        <3>1. ProcInv'
            BY <1>1, <1>2, <2>2, GiveUpStep DEF CheckActivation, GiveUp
        <3> QED
            BY <1>2, <3>1 DEF CheckActivation, FileInv, RestInv, files
    <2> QED
        BY <2>1, <2>2
<1>3. CASE SaveMode(p)
    <2>1. ProcInv'
        BY <1>1, <1>3, GiveUpStep DEF SaveMode, GiveUp
    <2> QED
        BY <1>3, <2>1 DEF SaveMode, FileInv, RestInv, files
<1> QED
    BY <1>2, <1>3

LEMMA FailingSteps ==
    ASSUME IInv, (\E p \in Procs : Fails(p)) \/ PowerFails
    PROVE  IInv'
<1> USE DEF IInv
<1>1. CASE \E p \in Procs : Fails(p)
    <2>1. PICK p \in Procs : Fails(p)
        BY <1>1
    <2>2. PICK trust \in Releases : proc' = [proc EXCEPT ![p] = Idle(trust)]
        BY <2>1 DEF Fails
    <2>3. ProcInv'
        BY <2>1, <2>2, GiveUpStep DEF Fails
    <2> QED
        BY <2>1, <2>3 DEF Fails, FileInv, RestInv, files
<1>2. CASE PowerFails
    <2>1. ProcInv'
        <3>1. \A p \in Procs : proc[p].trust \in Releases
            BY DEF ProcInv, Jobs
        <3>2. /\ proc' \in [Procs -> Jobs]
              /\ \A p \in Procs : proc'[p] = Idle(proc[p].trust)
            BY <1>2, <3>1, IdleJob DEF PowerFails
        <3>3. \A p \in Procs : JobSound(proc'[p]) /\ proc'[p].step \notin LockedSteps
            BY <3>1, <3>2, IdleJob
        <3>4. \A p \in Procs : JobSound(proc[p])'
            BY <3>3 DEF JobSound, Sound, Fits, StateParses
        <3> QED
            BY <1>2, <3>2, <3>3, <3>4, StoreConstants DEF PowerFails, ProcInv, LockedSteps
    <2>2. FileInv'
        <3>1. PICK kept \in [pointer : {durable.pointer, pointer},
                             states : {durable.states \cup s : s \in SUBSET (states \ durable.states)},
                             blobs : {durable.blobs \cup b : b \in SUBSET (blobs \ durable.blobs)}] :
                  /\ pointer' = kept.pointer
                  /\ states' = kept.states
                  /\ blobs' = kept.blobs
                  /\ durable' = kept
            BY <1>2 DEF PowerFails
        <3>2. durable.states \subseteq states /\ durable.blobs \subseteq blobs
            BY DEF FileInv
        <3>3. kept.pointer \in Contents /\ kept.states \subseteq states /\ kept.blobs \subseteq blobs
            BY <3>2 DEF FileInv
        <3>4. kept \in [pointer : Contents, states : SUBSET kept.states, blobs : SUBSET kept.blobs]
            BY <3>3
        <3> QED
            BY <3>1, <3>3, <3>4 DEF FileInv
    <2> QED
        BY <1>2, <2>1, <2>2 DEF PowerFails, RestInv
<1> QED
    BY <1>1, <1>2

LEMMA AgentSteps ==
    ASSUME IInv, AgentReloads \/ AgentRestarts
    PROVE  IInv'
<1> USE DEF IInv
<1>1. FileInv' /\ ProcInv'
    BY DEF AgentReloads, AgentRestarts, FileInv, ProcInv, files
<1>2. AgentReloads => pointer \in Inventories
    BY LoadsSound DEF AgentReloads
<1> QED
    BY <1>1, <1>2 DEF AgentReloads, AgentRestarts, RestInv

LEMMA StepInv == IInv /\ [Next]_vars => IInv'
<1> SUFFICES ASSUME IInv, [Next]_vars PROVE IInv'
    OBVIOUS
<1>1. ASSUME NEW p \in Procs, Process(p) PROVE IInv'
    BY <1>1, PreparingSteps, InstallStep, CancelStep, StartMigrationStep, InitializeSteps,
       OpenMigratedStep, WriterLockStep, CheckCommitStep, CommitSteps, ActivationSteps,
       FailingSteps DEF Process
<1>2. CASE UNCHANGED vars
    BY <1>2 DEF IInv, FileInv, ProcInv, RestInv, vars
<1> QED
    BY <1>1, <1>2, FailingSteps, AgentSteps DEF Next

THEOREM StoreInvariant == Spec => []IInv
BY InitInv, StepInv, PTL DEF Spec

-----------------------------------------------------------------------------
(* Every variable has its type, and exactly the process between taking and  *)
(* releasing the writer lock holds it: two commits never interleave.        *)
THEOREM StoreTypeOK == Spec => []TypeOK
<1>1. IInv => TypeOK
    <2> SUFFICES ASSUME IInv PROVE TypeOK
        OBVIOUS
    <2>1. states \subseteq Inventories
        BY DEF IInv, FileInv, Sound
    <2>2. /\ pointer \in Inventories \cup {NoStore, Absent, Blank}
          /\ blobs \subseteq Artifacts
          /\ durable.pointer \in Inventories \cup {NoStore, Absent, Blank}
          /\ durable.states \subseteq states
          /\ durable.blobs \subseteq blobs
        BY DEF IInv, FileInv, Contents
    <2>3. \A p \in Procs : proc[p] \in Jobs /\ (lock = p <=> proc[p].step \in LockedSteps)
        BY DEF IInv, ProcInv
    <2>4. lock \in Procs \cup {None}
        BY DEF IInv, ProcInv
    <2> QED
        BY <2>1, <2>2, <2>3, <2>4 DEF IInv, RestInv, TypeOK, Jobs
<1> QED
    BY <1>1, StoreInvariant, PTL

(* What was staged on a state that is still current is never refused: the   *)
(* staging functions of the inventory (package_inventory.rs) and the        *)
(* store's own check of a successor (commit_inner) agree, for every set of  *)
(* packages, catalogs and releases and every history of the store.          *)
THEOREM FreshChangeAcceptedAlways == Spec => []FreshChangeAccepted
<1>1. IInv => FreshChangeAccepted
    <2> SUFFICES ASSUME IInv, NEW p \in Procs, At(p, "locked"), StillCurrent(p)
                 PROVE  Acceptable(p)
        BY DEF FreshChangeAccepted
    <2>1. /\ Sound(proc[p].expected)
          /\ Fits(Restore(proc[p].expected, proc[p].trust), proc[p].candidate, proc[p].supplied)
          /\ Authenticated(proc[p].supplied, proc[p].trust)
        BY DEF IInv, ProcInv, JobSound, At
    <2>2. Loads(proc[p].trust) /\ pointer = proc[p].expected
        BY DEF StillCurrent
    <2>3. /\ Fits(Current(proc[p].trust), proc[p].candidate, proc[p].supplied)
          /\ InstalledArtifacts(Current(proc[p].trust)) = InstalledArtifacts(pointer)
        BY <2>1, <2>2, RestoreSound DEF Current
    <2>4. ArtifactsComplete(p)
        BY <2>1, <2>2, <2>3 DEF ArtifactsComplete, Fits, Loads, Authenticated
    <2> QED
        BY <2>3, <2>4 DEF Acceptable, Fits, Sound
<1> QED
    BY <1>1, StoreInvariant, PTL

-----------------------------------------------------------------------------
(* The artifacts that an inventory, or a rollback of it, needs. *)
Held(inv) == InstalledArtifacts(inv) \cup ({inv.targets[id] : id \in Packages} \ {None})

Initializing == {"linkEmpty", "makePointer", "writePointer"}

Writing == {"linkBlobs", "syncState", "movePointer", "syncPointer"}

Kept(content, inStates, inBlobs) ==
    IsInventory(content) =>
        /\ Sound(content)
        /\ Held(content) \subseteq inBlobs
        /\ content \in inStates \/ (content = EmptyInventory /\ confirmed = None)

FilesKept ==
    /\ Kept(pointer, states, blobs)
    /\ SyncsDirectory => /\ Kept(pointer, durable.states, durable.blobs)
                         /\ Kept(durable.pointer, durable.states, durable.blobs)
    /\ confirmed # None => /\ IsInventory(pointer)
                           /\ SyncsDirectory => IsInventory(durable.pointer)

(* Only one process initializes a store, and nobody can commit meanwhile. *)
InitializesAlone ==
    \A p \in Procs : proc[p].step \in Initializing =>
        /\ ~IsInventory(pointer)
        /\ pointer # NoStore
        /\ \A q \in Procs \ {p} : proc[q].step \notin Initializing

(* How much of its candidate a writer has made safe. *)
CandidateKept(p) ==
    LET held == Held(proc[p].candidate) IN
    /\ proc[p].step \in Writing => IsInventory(pointer)
    /\ proc[p].step = "linkBlobs" => held \subseteq proc[p].supplied \cup blobs
    /\ proc[p].step \in {"syncState", "movePointer", "syncPointer"} =>
          held \subseteq blobs /\ proc[p].candidate \in states
    /\ proc[p].step \in {"movePointer", "syncPointer"} /\ SyncsDirectory =>
          held \subseteq durable.blobs /\ proc[p].candidate \in durable.states
    /\ proc[p].step = "syncPointer" => pointer = proc[p].candidate

DInv ==
    /\ IInv
    /\ FilesKept
    /\ InitializesAlone
    /\ \A p \in Procs : CandidateKept(p)

LEMMA EmptyHeld == Held(EmptyInventory) = {}
BY DEF Held, InstalledArtifacts, EmptyInventory, NoReceipts

LEMMA RestoreHeld ==
    ASSUME NEW inv, Sound(inv), NEW trust
    PROVE  Held(Restore(inv, trust)) = Held(inv)
BY RestoreSound DEF Held

(* A staged candidate holds nothing but what was held and what is supplied. *)
LEMMA FitsHeld ==
    ASSUME NEW inv, Sound(inv), NEW candidate, NEW supplied, Fits(inv, candidate, supplied)
    PROVE  Held(candidate) \subseteq supplied \cup Held(inv)
<1>1. InstalledArtifacts(candidate) \subseteq supplied \cup InstalledArtifacts(inv)
    BY DEF Fits
<1>2. CASE candidate = inv
    BY <1>2
<1>3. CASE candidate # inv
    <2>1. candidate.targets = DerivedTargets(inv, candidate)
        BY <1>3 DEF Fits, CheckSuccessor
    <2>2. \A id \in Packages :
              candidate.targets[id] \in {inv.targets[id], inv.installed[id], None}
        BY <2>1 DEF DerivedTargets
    <2>3. \A id \in Packages : candidate.targets[id] # None => candidate.targets[id] \in Held(inv)
        BY <2>2 DEF Held, InstalledArtifacts
    <2> QED
        BY <1>1, <2>3 DEF Held
<1> QED
    BY <1>2, <1>3

-----------------------------------------------------------------------------
(* A step that leaves the files alone, after which nobody but those who     *)
(* already did initializes or writes.                                       *)
LEMMA QuietStep ==
    ASSUME DInv, IInv', UNCHANGED <<pointer, states, blobs, durable, confirmed>>,
           \A q \in Procs : \/ proc'[q] = proc[q]
                            \/ proc'[q].step \notin Initializing \cup Writing
    PROVE  DInv'
<1>1. FilesKept'
    BY DEF DInv, FilesKept, Kept, IsInventory, Sound, StateParses
<1>2. InitializesAlone'
    BY DEF DInv, InitializesAlone, IsInventory
<1>3. \A p \in Procs : CandidateKept(p)'
    BY DEF DInv, CandidateKept, IsInventory, Writing
<1> QED
    BY <1>1, <1>2, <1>3 DEF DInv

(* A process that moves on keeps what it carries. *)
LEMMA MovedOn ==
    ASSUME ProcInv, NEW p \in Procs, NEW step \in Steps, GoTo(p, step)
    PROVE  /\ proc'[p].step = step
           /\ proc'[p].candidate = proc[p].candidate
           /\ proc'[p].supplied = proc[p].supplied
           /\ \A q \in Procs \ {p} : proc'[q] = proc[q]
<1>1. proc[p] \in Jobs /\ proc \in [Procs -> Jobs]
    BY DEF ProcInv
<1>2. /\ proc'[p] = [proc[p] EXCEPT !.step = step]
      /\ \A q \in Procs \ {p} : proc'[q] = proc[q]
    BY <1>1 DEF GoTo
<1> QED
    BY <1>1, <1>2, NextJob

(* Two processes never write at the same time. *)
LEMMA WritesAlone ==
    ASSUME IInv, NEW p \in Procs, proc[p].step \in LockedSteps
    PROVE  \A q \in Procs \ {p} : proc[q].step \notin LockedSteps /\ proc[q].step \notin Writing
BY DEF IInv, ProcInv, LockedSteps, Writing

LEMMA MadeRoot ==
    ASSUME DInv, IInv', NEW p \in Procs, MakeRoot(p)
    PROVE  DInv'
<1>1. ProcInv /\ proc[p] \in Jobs
    BY DEF DInv, IInv, ProcInv
<1>2. CASE pointer # NoStore
    <2>1. \A q \in Procs : proc'[q] = proc[q] \/ proc'[q].step = "idle"
        BY <1>1, <1>2 DEF MakeRoot, GiveUp, Idle, ProcInv
    <2> QED
        BY <1>2, <2>1, QuietStep DEF MakeRoot, Initializing, Writing
<1>3. CASE pointer = NoStore
    <2>1. /\ pointer' = Absent
          /\ durable' = [durable EXCEPT !.pointer = Absent]
          /\ GoTo(p, "linkEmpty")
          /\ UNCHANGED <<states, blobs, confirmed>>
        BY <1>3 DEF MakeRoot
    <2>2. ~IsInventory(pointer) /\ ~IsInventory(pointer') /\ pointer' # NoStore
        BY <1>3, <2>1, StoreConstants DEF IsInventory
    <2>3. /\ durable'.pointer = Absent
          /\ durable'.states = durable.states
          /\ durable'.blobs = durable.blobs
        BY <2>1 DEF DInv, IInv, FileInv
    <2>4. confirmed = None
        BY <2>2 DEF DInv, FilesKept
    <2>5. /\ proc'[p].step = "linkEmpty"
          /\ \A q \in Procs \ {p} : proc'[q] = proc[q]
        BY <1>1, <2>1, MovedOn DEF Steps
    <2>6. \A q \in Procs : proc[q].step \notin Initializing \cup Writing
        BY <1>3, <2>2 DEF DInv, InitializesAlone, CandidateKept
    <2>7. FilesKept'
        BY <2>1, <2>2, <2>3, <2>4 DEF FilesKept, Kept, IsInventory
    <2>8. InitializesAlone'
        BY <2>1, <2>2, <2>5, <2>6 DEF InitializesAlone, IsInventory
    <2>9. \A q \in Procs : CandidateKept(q)'
        BY <2>5, <2>6 DEF CandidateKept, Writing
    <2> QED
        BY <2>7, <2>8, <2>9 DEF DInv
<1> QED
    BY <1>2, <1>3

LEMMA LinkedEmpty ==
    ASSUME DInv, IInv', NEW p \in Procs, LinkEmpty(p)
    PROVE  DInv'
<1>1. /\ proc[p].step = "linkEmpty"
      /\ states \subseteq states'
      /\ UNCHANGED <<pointer, blobs, durable, confirmed>>
    BY DEF LinkEmpty, At
<1>2. /\ proc'[p].step = "makePointer"
      /\ \A q \in Procs \ {p} : proc'[q] = proc[q]
    BY MovedOn DEF LinkEmpty, DInv, IInv, Steps
<1>3. FilesKept'
    BY <1>1 DEF DInv, FilesKept, Kept, IsInventory, Sound, StateParses
<1>4. InitializesAlone'
    BY <1>1, <1>2 DEF DInv, InitializesAlone, IsInventory, Initializing
<1>5. \A q \in Procs : CandidateKept(q)'
    BY <1>1, <1>2 DEF DInv, CandidateKept, IsInventory, Writing
<1> QED
    BY <1>3, <1>4, <1>5 DEF DInv

LEMMA MadePointer ==
    ASSUME DInv, IInv', NEW p \in Procs, MakePointer(p)
    PROVE  DInv'
<1>1. /\ proc[p].step = "makePointer"
      /\ pointer' = Blank
      /\ UNCHANGED <<states, blobs, durable, confirmed>>
    BY DEF MakePointer, At
<1>2. /\ proc'[p].step = "writePointer"
      /\ \A q \in Procs \ {p} : proc'[q] = proc[q]
    BY MovedOn DEF MakePointer, DInv, IInv, Steps
<1>3. ~IsInventory(pointer) /\ ~IsInventory(pointer') /\ pointer' # NoStore
    BY <1>1, StoreConstants DEF DInv, InitializesAlone, IsInventory, Initializing
<1>4. confirmed = None
    BY <1>3 DEF DInv, FilesKept
<1>5. \A q \in Procs : proc[q].step \notin Writing
    BY <1>3 DEF DInv, CandidateKept
<1>6. FilesKept'
    BY <1>1, <1>3, <1>4 DEF DInv, FilesKept, Kept, IsInventory, Sound, StateParses
<1>7. InitializesAlone'
    BY <1>1, <1>2, <1>3 DEF DInv, InitializesAlone, IsInventory, Initializing
<1>8. \A q \in Procs : CandidateKept(q)'
    BY <1>2, <1>5 DEF CandidateKept, Writing
<1> QED
    BY <1>6, <1>7, <1>8 DEF DInv

LEMMA WrotePointer ==
    ASSUME DInv, IInv', NEW p \in Procs, WritePointer(p)
    PROVE  DInv'
<1>1. /\ proc[p].step = "writePointer"
      /\ pointer' = EmptyInventory
      /\ UNCHANGED <<states, blobs, durable, confirmed>>
    BY DEF WritePointer, At
<1>2. /\ proc'[p].step = "syncNew"
      /\ \A q \in Procs \ {p} : proc'[q] = proc[q]
    BY MovedOn DEF WritePointer, DInv, IInv, Steps
<1>3. /\ ~IsInventory(pointer)
      /\ \A q \in Procs \ {p} : proc[q].step \notin Initializing
    BY <1>1 DEF DInv, InitializesAlone, Initializing
<1>4. confirmed = None
    BY <1>3 DEF DInv, FilesKept
<1>5. \A q \in Procs : proc[q].step \notin Writing
    BY <1>3 DEF DInv, CandidateKept
<1>6. FilesKept'
    <2>1. Sound(EmptyInventory) /\ Held(EmptyInventory) = {}
        BY EmptySound, EmptyHeld
    <2>3. Kept(pointer, states, blobs)' /\ Kept(pointer, durable.states, durable.blobs)'
        BY <1>1, <1>4, <2>1 DEF Kept, Sound, StateParses
    <2>4. SyncsDirectory => Kept(durable.pointer, durable.states, durable.blobs)'
        BY <1>1 DEF DInv, FilesKept, Kept, IsInventory, Sound, StateParses
    <2> QED
        BY <1>1, <1>4, <2>3, <2>4 DEF FilesKept
<1>7. InitializesAlone'
    BY <1>2, <1>3 DEF InitializesAlone, Initializing
<1>8. \A q \in Procs : CandidateKept(q)'
    BY <1>2, <1>5 DEF CandidateKept, Writing
<1> QED
    BY <1>6, <1>7, <1>8 DEF DInv

(* Synchronising makes everything that is there certain. *)
LEMMA Synchronised ==
    ASSUME DInv, SyncDirectory, UNCHANGED <<pointer, states, blobs>>,
           \/ confirmed' = confirmed
           \/ IsInventory(pointer) /\ pointer \in states
    PROVE  /\ FilesKept'
           /\ SyncsDirectory => durable'.states = states /\ durable'.blobs = blobs
           /\ ~SyncsDirectory => durable' = durable
<1>1. /\ SyncsDirectory => durable' = [pointer |-> pointer, states |-> states, blobs |-> blobs]
      /\ ~SyncsDirectory => durable' = durable
    BY DEF SyncDirectory
<1>3. Kept(pointer, states, blobs)'
    BY DEF DInv, FilesKept, Kept, IsInventory, Sound, StateParses
<1> QED
    BY <1>1, <1>3 DEF DInv, FilesKept, Kept, IsInventory, Sound, StateParses

LEMMA SyncedNew ==
    ASSUME DInv, IInv', NEW p \in Procs, SyncNew(p)
    PROVE  DInv'
<1>1. /\ proc[p].step = "syncNew"
      /\ SyncDirectory
      /\ UNCHANGED <<pointer, states, blobs, confirmed>>
    BY DEF SyncNew, At
<1>2. /\ proc'[p].step = "open"
      /\ \A q \in Procs \ {p} : proc'[q] = proc[q]
    BY MovedOn DEF SyncNew, DInv, IInv, Steps
<1>3. FilesKept' /\ durable.states \subseteq states /\ durable.blobs \subseteq blobs
      /\ (SyncsDirectory => durable'.states = states /\ durable'.blobs = blobs)
    BY <1>1, Synchronised DEF DInv, IInv, FileInv
<1>4. InitializesAlone'
    BY <1>1, <1>2 DEF DInv, InitializesAlone, IsInventory, Initializing
<1>5. \A q \in Procs : CandidateKept(q)'
    BY <1>1, <1>2, <1>3 DEF DInv, CandidateKept, IsInventory, Writing
<1> QED
    BY <1>3, <1>4, <1>5 DEF DInv

-----------------------------------------------------------------------------
(* The steps that leave the files alone. *)

LEMMA Finished ==
    ASSUME ProcInv, NEW p \in Procs, NEW snapshot, Done(p, snapshot)
    PROVE  /\ proc'[p].step \notin Initializing \cup Writing
           /\ \A q \in Procs \ {p} : proc'[q] = proc[q]
<1>1. proc[p] \in Jobs /\ proc \in [Procs -> Jobs]
    BY DEF ProcInv
<1>2. proc'[p].step \in {"accepted", "activate", "idle"}
    BY <1>1 DEF Done, Idle, Jobs
<1> QED
    BY <1>1, <1>2 DEF Done, Initializing, Writing

LEMMA QuietSteps ==
    ASSUME DInv, IInv', NEW p \in Procs,
           \/ PrepareImport(p) \/ PrepareRemoval(p) \/ PrepareRollback(p)
           \/ AcceptCatalog(p) \/ PrepareInstall(p) \/ Cancel(p)
           \/ StartMigration(p) \/ OpenMigrated(p) \/ WriterLock(p)
           \/ CheckActivation(p) \/ SaveMode(p) \/ Fails(p)
    PROVE  DInv'
<1>1. proc \in [Procs -> Jobs] /\ proc[p] \in Jobs /\ ProcInv
    BY DEF DInv, IInv, ProcInv
<1>2. UNCHANGED <<pointer, states, blobs, durable, confirmed>>
    BY DEF PrepareImport, PrepareRemoval, PrepareRollback, AcceptCatalog, Prepare,
           PrepareInstall, Cancel, StartMigration, OpenMigrated, WriterLock,
           CheckActivation, SaveMode, Fails, files
<1>3. ASSUME NEW trust, proc' = [proc EXCEPT ![p] = Idle(trust)]
      PROVE  \A q \in Procs : proc'[q] = proc[q] \/ proc'[q].step = "idle"
    BY <1>1, <1>3 DEF Idle
<1>4. ASSUME NEW step \in Steps, GoTo(p, step)
      PROVE  \A q \in Procs : proc'[q] = proc[q] \/ proc'[q].step = step
    BY <1>1, <1>4, MovedOn
<1>5. CASE PrepareImport(p) \/ PrepareRemoval(p) \/ PrepareRollback(p) \/ AcceptCatalog(p)
    <2>1. ASSUME NEW candidates, NEW supplied, NEW catalog, Prepare(p, candidates, supplied, catalog)
          PROVE  \A q \in Procs : proc'[q] = proc[q] \/ proc'[q].step = "prepared"
        <3>1. PICK candidate \in candidates :
                  proc' = [proc EXCEPT ![p].step = "prepared", ![p].expected = pointer,
                                       ![p].candidate = candidate, ![p].supplied = supplied,
                                       ![p].catalog = catalog]
            BY <2>1 DEF Prepare
        <3> QED
            BY <1>1, <3>1 DEF Jobs
    <2>2. \A q \in Procs : proc'[q] = proc[q] \/ proc'[q].step = "prepared"
        BY <1>5, <2>1 DEF PrepareImport, PrepareRemoval, PrepareRollback, AcceptCatalog
    <2> QED
        BY <1>2, <2>2, QuietStep DEF Initializing, Writing
<1>6. CASE PrepareInstall(p)
    <2>1. \E new, candidate :
              proc' = [proc EXCEPT ![p].step = "prepared", ![p].candidate = candidate,
                                   ![p].supplied = new, ![p].catalog = None]
        BY <1>6 DEF PrepareInstall
    <2>2. \A q \in Procs : proc'[q] = proc[q] \/ proc'[q].step = "prepared"
        BY <1>1, <2>1 DEF Jobs
    <2> QED
        BY <1>2, <2>2, QuietStep DEF Initializing, Writing
<1>7. CASE StartMigration(p)
    <2> DEFINE first == IF pointer = NoStore THEN "makeRoot" ELSE "open"
    <2>1. \E new, candidate :
              proc' = [proc EXCEPT ![p].step = first, ![p].candidate = candidate,
                                   ![p].supplied = new, ![p].migrates = TRUE]
        BY <1>7 DEF StartMigration
    <2>2. first \in {"makeRoot", "open"}
        OBVIOUS
    <2> HIDE DEF first
    <2>3. \A q \in Procs : proc'[q] = proc[q] \/ proc'[q].step = first
        BY <1>1, <2>1 DEF Jobs
    <2> QED
        BY <1>2, <2>2, <2>3, QuietStep DEF Initializing, Writing
<1>8. CASE OpenMigrated(p)
    <2>1. \A q \in Procs : proc'[q] = proc[q] \/ proc'[q].step \in {"prepared", "idle"}
        BY <1>1, <1>3, <1>8 DEF OpenMigrated, GiveUp, Jobs
    <2> QED
        BY <1>2, <2>1, QuietStep DEF Initializing, Writing
<1>9. CASE WriterLock(p)
    <2>1. \A q \in Procs : proc'[q] = proc[q] \/ proc'[q].step \in {"locked", "pinned", "idle"}
        BY <1>3, <1>4, <1>9 DEF WriterLock, GiveUp, Steps
    <2> QED
        BY <1>2, <2>1, QuietStep DEF Initializing, Writing
<1>10. CASE CheckActivation(p)
    <2>1. \A q \in Procs : proc'[q] = proc[q] \/ proc'[q].step \in {"activating", "idle"}
        BY <1>3, <1>4, <1>10 DEF CheckActivation, GiveUp, Steps
    <2> QED
        BY <1>2, <2>1, QuietStep DEF Initializing, Writing
<1>11. CASE Cancel(p) \/ SaveMode(p) \/ Fails(p)
    <2>1. \A q \in Procs : proc'[q] = proc[q] \/ proc'[q].step = "idle"
        BY <1>3, <1>11 DEF Cancel, SaveMode, Fails, GiveUp
    <2> QED
        BY <1>2, <2>1, QuietStep DEF Initializing, Writing
<1> QED
    BY <1>5, <1>6, <1>7, <1>8, <1>9, <1>10, <1>11

-----------------------------------------------------------------------------
(* The steps of a commit. *)

(* The check under the lock finds the state the candidate was staged on, so *)
(* what is not supplied is in the store, the rollback targets too.          *)
LEMMA Checked ==
    ASSUME DInv, IInv', NEW p \in Procs, CheckCommit(p)
    PROVE  DInv'
<1>1. /\ ProcInv /\ FileInv
      /\ proc[p].step = "locked"
      /\ UNCHANGED <<pointer, states, blobs, durable, confirmed>>
    BY DEF CheckCommit, At, files, DInv, IInv
<1>2. CASE ~(StillCurrent(p) /\ Acceptable(p))
    <2>1. \A q \in Procs : proc'[q] = proc[q] \/ proc'[q].step = "idle"
        BY <1>1, <1>2 DEF CheckCommit, GiveUp, Idle, ProcInv
    <2> QED
        BY <1>1, <2>1, QuietStep DEF Initializing, Writing
<1>3. CASE StillCurrent(p) /\ Acceptable(p) /\ NothingToCommit(p)
    <2>1. Done(p, pointer)
        BY <1>3 DEF CheckCommit
    <2> QED
        BY <1>1, <2>1, Finished, QuietStep
<1>4. CASE StillCurrent(p) /\ Acceptable(p) /\ ~NothingToCommit(p)
    <2> DEFINE candidate == proc[p].candidate
               supplied == proc[p].supplied
    <2>1. /\ proc'[p].step = "linkBlobs"
          /\ proc'[p].candidate = candidate
          /\ proc'[p].supplied = supplied
          /\ \A q \in Procs \ {p} : proc'[q] = proc[q]
        BY <1>1, <1>4, MovedOn DEF CheckCommit, Steps
    <2>2. Loads(proc[p].trust) /\ pointer = proc[p].expected
        BY <1>4 DEF StillCurrent
    <2>3. Sound(pointer) /\ IsInventory(pointer)
        BY <1>1, <2>2, LoadsSound, StoreConstants DEF IsInventory
    <2>4. Fits(Restore(pointer, proc[p].trust), candidate, supplied)
        BY <1>1, <2>2 DEF ProcInv, JobSound
    <2>5. Held(candidate) \subseteq supplied \cup Held(pointer)
        BY <2>3, <2>4, FitsHeld, RestoreHeld, RestoreSound
    <2>6. Held(pointer) \subseteq blobs
        BY <2>3 DEF DInv, FilesKept, Kept
    <2>7. CandidateKept(p)'
        BY <1>1, <2>1, <2>3, <2>5, <2>6 DEF CandidateKept, IsInventory
    <2>8. \A q \in Procs \ {p} : CandidateKept(q)'
        BY <1>1, <2>1 DEF DInv, CandidateKept, IsInventory
    <2>9. InitializesAlone'
        BY <1>1, <2>1 DEF DInv, InitializesAlone, IsInventory, Initializing
    <2>10. FilesKept'
        BY <1>1 DEF DInv, FilesKept, Kept, IsInventory, Sound, StateParses
    <2> QED
        BY <2>7, <2>8, <2>9, <2>10 DEF DInv
<1> QED
    BY <1>2, <1>3, <1>4

LEMMA LinkedBlob ==
    ASSUME DInv, IInv', NEW p \in Procs, LinkBlob(p)
    PROVE  DInv'
<1>1. /\ blobs \subseteq blobs'
      /\ UNCHANGED <<pointer, states, durable, proc, confirmed>>
    BY DEF LinkBlob
<1>2. FilesKept'
    BY <1>1 DEF DInv, FilesKept, Kept, IsInventory, Sound, StateParses
<1>3. InitializesAlone'
    BY <1>1 DEF DInv, InitializesAlone, IsInventory
<1>4. \A q \in Procs : CandidateKept(q)'
    BY <1>1 DEF DInv, CandidateKept, IsInventory
<1> QED
    BY <1>2, <1>3, <1>4 DEF DInv

LEMMA LinkedState ==
    ASSUME DInv, IInv', NEW p \in Procs, LinkState(p)
    PROVE  DInv'
<1>1. /\ proc[p].step = "linkBlobs"
      /\ proc[p].supplied \subseteq blobs
      /\ states \subseteq states' /\ proc[p].candidate \in states'
      /\ UNCHANGED <<pointer, blobs, durable, confirmed>>
    BY DEF LinkState, At
<1>2. /\ proc'[p].step = "syncState"
      /\ proc'[p].candidate = proc[p].candidate
      /\ \A q \in Procs \ {p} : proc'[q] = proc[q]
    BY MovedOn DEF LinkState, DInv, IInv, Steps
<1>3. FilesKept'
    BY <1>1 DEF DInv, FilesKept, Kept, IsInventory, Sound, StateParses
<1>4. InitializesAlone'
    BY <1>1, <1>2 DEF DInv, InitializesAlone, IsInventory, Initializing
<1>5. CandidateKept(p)'
    BY <1>1, <1>2 DEF DInv, CandidateKept, IsInventory, Writing
<1>6. \A q \in Procs \ {p} : CandidateKept(q)'
    BY <1>1, <1>2 DEF DInv, CandidateKept, IsInventory
<1> QED
    BY <1>3, <1>4, <1>5, <1>6 DEF DInv

LEMMA SyncedState ==
    ASSUME DInv, IInv', NEW p \in Procs, SyncState(p)
    PROVE  DInv'
<1>1. /\ proc[p].step = "syncState"
      /\ SyncDirectory
      /\ UNCHANGED <<pointer, states, blobs, confirmed>>
    BY DEF SyncState, At
<1>2. /\ proc'[p].step = "movePointer"
      /\ proc'[p].candidate = proc[p].candidate
      /\ \A q \in Procs \ {p} : proc'[q] = proc[q]
    BY MovedOn DEF SyncState, DInv, IInv, Steps
<1>3. /\ FilesKept'
      /\ SyncsDirectory => durable'.states = states /\ durable'.blobs = blobs
    BY <1>1, Synchronised
<1>4. InitializesAlone'
    BY <1>1, <1>2 DEF DInv, InitializesAlone, IsInventory, Initializing
<1>5. CandidateKept(p)'
    BY <1>1, <1>2, <1>3 DEF DInv, CandidateKept, IsInventory, Writing
<1>6. \A q \in Procs \ {p} : CandidateKept(q)'
    BY <1>1, <1>2, <1>3, WritesAlone DEF DInv, CandidateKept, Writing, LockedSteps
<1> QED
    BY <1>3, <1>4, <1>5, <1>6 DEF DInv

LEMMA MovedPointer ==
    ASSUME DInv, IInv', NEW p \in Procs, MovePointer(p)
    PROVE  DInv'
<1> DEFINE candidate == proc[p].candidate
<1>1. /\ proc[p].step = "movePointer"
      /\ pointer' = candidate
      /\ UNCHANGED <<states, blobs, durable, confirmed>>
    BY DEF MovePointer, At
<1>2. /\ proc'[p].step = "syncPointer"
      /\ proc'[p].candidate = candidate
      /\ \A q \in Procs \ {p} : proc'[q] = proc[q]
    BY MovedOn DEF MovePointer, DInv, IInv, Steps
<1>3. Sound(candidate) /\ IsInventory(candidate)
    BY <1>1, StoreConstants DEF DInv, IInv, ProcInv, JobSound, Sound, IsInventory
<1>4. /\ IsInventory(pointer)
      /\ Held(candidate) \subseteq blobs /\ candidate \in states
      /\ SyncsDirectory => Held(candidate) \subseteq durable.blobs /\ candidate \in durable.states
    BY <1>1 DEF DInv, CandidateKept, Writing
<1>5. \A q \in Procs : proc[q].step \notin Initializing
    BY <1>4 DEF DInv, InitializesAlone
<1>6. FilesKept'
    <2>1. Kept(pointer, states, blobs)'
        BY <1>1, <1>3, <1>4 DEF Kept, Sound, StateParses
    <2>2. SyncsDirectory => Kept(pointer, durable.states, durable.blobs)'
        BY <1>1, <1>3, <1>4 DEF Kept, Sound, StateParses
    <2>3. SyncsDirectory => Kept(durable.pointer, durable.states, durable.blobs)'
        BY <1>1 DEF DInv, FilesKept, Kept, IsInventory, Sound, StateParses
    <2> QED
        BY <1>1, <1>3, <2>1, <2>2, <2>3 DEF DInv, FilesKept, IsInventory
<1>7. InitializesAlone'
    BY <1>2, <1>5 DEF InitializesAlone, Initializing
<1>8. CandidateKept(p)'
    BY <1>1, <1>2, <1>3, <1>4 DEF CandidateKept, IsInventory
<1>9. \A q \in Procs \ {p} : CandidateKept(q)'
    BY <1>1, <1>2, WritesAlone DEF DInv, CandidateKept, Writing, LockedSteps
<1> QED
    BY <1>6, <1>7, <1>8, <1>9 DEF DInv

LEMMA SyncedPointer ==
    ASSUME DInv, IInv', NEW p \in Procs, SyncPointer(p)
    PROVE  DInv'
<1>1. /\ proc[p].step = "syncPointer"
      /\ SyncDirectory
      /\ Done(p, proc[p].candidate)
      /\ UNCHANGED <<pointer, states, blobs>>
    BY DEF SyncPointer, At
<1>2. /\ proc'[p].step \notin Initializing \cup Writing
      /\ \A q \in Procs \ {p} : proc'[q] = proc[q]
    BY <1>1, Finished DEF DInv, IInv
<1>3. IsInventory(pointer) /\ pointer \in states
    BY <1>1 DEF DInv, CandidateKept, Writing
<1>4. FilesKept'
    BY <1>1, <1>3, Synchronised
<1>5. InitializesAlone'
    BY <1>1, <1>2 DEF DInv, InitializesAlone, IsInventory
<1>6. \A q \in Procs : CandidateKept(q)'
    BY <1>1, <1>2, WritesAlone DEF DInv, CandidateKept, Writing, LockedSteps
<1> QED
    BY <1>4, <1>5, <1>6 DEF DInv

-----------------------------------------------------------------------------
LEMMA PowerFailed ==
    ASSUME DInv, IInv', PowerFails
    PROVE  DInv'
<1>1. PICK kept \in [pointer : {durable.pointer, pointer},
                     states : {durable.states \cup s : s \in SUBSET (states \ durable.states)},
                     blobs : {durable.blobs \cup b : b \in SUBSET (blobs \ durable.blobs)}] :
          /\ pointer' = kept.pointer
          /\ states' = kept.states
          /\ blobs' = kept.blobs
          /\ durable' = kept
    BY DEF PowerFails
<1>2. /\ kept.pointer \in {durable.pointer, pointer}
      /\ durable.states \subseteq kept.states
      /\ durable.blobs \subseteq kept.blobs
      /\ SyncsDirectory /\ confirmed' = confirmed
    BY DEF PowerFails
<1>3. \A q \in Procs : proc'[q].step = "idle"
    BY DEF PowerFails, Idle
<1>4. Kept(kept.pointer, kept.states, kept.blobs)
    BY <1>2 DEF DInv, FilesKept, Kept
<1>5. confirmed # None => IsInventory(kept.pointer)
    BY <1>2 DEF DInv, FilesKept
<1>6. FilesKept'
    BY <1>1, <1>2, <1>4, <1>5 DEF FilesKept, Kept, IsInventory, Sound, StateParses
<1>7. InitializesAlone' /\ \A q \in Procs : CandidateKept(q)'
    BY <1>3 DEF InitializesAlone, CandidateKept, Initializing, Writing
<1> QED
    BY <1>6, <1>7 DEF DInv

LEMMA InitKept == Init => DInv
<1> SUFFICES ASSUME Init PROVE DInv
    OBVIOUS
<1>1. \A p \in Procs : proc[p].step = "idle"
    BY DEF Init, Idle
<1>2. FilesKept
    BY DEF Init, FilesKept, Kept, IsInventory
<1>3. InitializesAlone /\ \A p \in Procs : CandidateKept(p)
    BY <1>1 DEF InitializesAlone, CandidateKept, Initializing, Writing
<1> QED
    BY <1>2, <1>3, InitInv DEF DInv

LEMMA StepKept == DInv /\ [Next]_vars => DInv'
<1> SUFFICES ASSUME DInv, [Next]_vars PROVE DInv'
    OBVIOUS
<1>1. IInv'
    BY StepInv DEF DInv
<1>2. ASSUME NEW p \in Procs, Process(p) PROVE DInv'
    BY <1>1, <1>2, QuietSteps, MadeRoot, LinkedEmpty, MadePointer, WrotePointer, SyncedNew,
       Checked, LinkedBlob, LinkedState, SyncedState, MovedPointer, SyncedPointer DEF Process
<1>3. CASE AgentReloads \/ AgentRestarts \/ UNCHANGED vars
    BY <1>1, <1>3, QuietStep DEF AgentReloads, AgentRestarts, vars, files
<1> QED
    BY <1>1, <1>2, <1>3, PowerFailed DEF Next

LEMMA StoreKept == Spec => []DInv
BY InitKept, StepKept, PTL DEF Spec

(* What CURRENT names (current_pointer, replace_pointer) is there with      *)
(* every artifact it lists, at every step of every commit, after any crash  *)
(* and, where the system synchronises directories, any power failure.       *)
(* Only the empty state of an initialization that power interrupted before  *)
(* anything was confirmed may lack its file.                                *)
THEOREM StoreCompleteAlways == Spec => []StoreComplete
<1>1. DInv => StoreComplete
    BY DEF DInv, FilesKept, Kept, Held, Sound, StoreComplete
<1> QED
    BY <1>1, StoreKept, PTL

(* The exact earlier artifact that a rollback goes back to is in the store  *)
(* whenever the inventory offers the rollback, although no load and no      *)
(* commit ever looks for it.                                                *)
THEOREM RollbackCachedAlways == Spec => []RollbackCached
<1>1. DInv => RollbackCached
    BY DEF DInv, FilesKept, Kept, Held, RollbackTarget, RollbackCached
<1> QED
    BY <1>1, StoreKept, PTL

-------------------------------------------------------------------------------
(* From states to the history of the store: which change of which inventory a process carries. *)
Migrating == {"makeRoot", "linkEmpty", "makePointer", "writePointer", "syncNew", "open"}

Checking == {"linkBlobs", "syncState", "movePointer"}

Staged(job) ==
    /\ job.step \in {"prepared", "locked"} =>
          job.candidate \in Changes(Restore(job.expected, job.trust))
    /\ job.step \in Migrating => job.candidate \in Changes(EmptyInventory)

(* A checked candidate is another state than the current one and follows it. *)
FollowsOn(job, current) ==
    job.step \in Checking =>
        LET restored == Restore(current, job.trust) IN
        /\ job.candidate \in Changes(restored)
        /\ job.candidate \notin {current, restored}
        /\ CheckSuccessor(restored, job.candidate)

Pinned(p) == At(p, "activating") => pointer = proc[p].expected /\ Loads(proc[p].trust)

(* The agent and a power failure know inventories only of a store that has one. *)
SeenOnly ==
    /\ IsInventory(durable.pointer) => IsInventory(pointer)
    /\ followed # None => IsInventory(pointer)

HInv ==
    /\ DInv
    /\ SeenOnly
    /\ ReloadAccepted
    /\ \A p \in Procs : Staged(proc[p]) /\ FollowsOn(proc[p], pointer) /\ Pinned(p)

-----------------------------------------------------------------------------
(* What the staging functions return is a change, and so is no change.      *)
LEMMA StagedIsChange ==
    ASSUME NEW inv
    PROVE  /\ \A new \in SUBSET Artifacts : StageImport(inv, new) \subseteq Changes(inv)
           /\ \A c \in Checkpoints, new \in SUBSET Artifacts :
                 StagePlan(inv, c, new) \subseteq Changes(inv)
           /\ \A ids \in SUBSET Packages : StageRemove(inv, ids) \subseteq Changes(inv)
           /\ \A id \in Packages : StageRollback(inv, id) \subseteq Changes(inv)
<1> DEFINE Imports == UNION {StageImport(inv, new) : new \in SUBSET Artifacts}
           Plans == UNION {StagePlan(inv, c, new) : c \in Checkpoints, new \in SUBSET Artifacts}
           Removals == UNION {StageRemove(inv, ids) : ids \in SUBSET Packages}
           Rollbacks == UNION {StageRollback(inv, id) : id \in Packages}
<1>1. Changes(inv) = Imports \cup Plans \cup Removals \cup Rollbacks
    BY DEF Changes
<1>2. \A new \in SUBSET Artifacts : StageImport(inv, new) \subseteq Imports
    OBVIOUS
<1>3. \A c \in Checkpoints, new \in SUBSET Artifacts : StagePlan(inv, c, new) \subseteq Plans
    OBVIOUS
<1>4. \A ids \in SUBSET Packages : StageRemove(inv, ids) \subseteq Removals
    OBVIOUS
<1>5. \A id \in Packages : StageRollback(inv, id) \subseteq Rollbacks
    OBVIOUS
<1> HIDE DEF Imports, Plans, Removals, Rollbacks
<1> QED
    BY <1>1, <1>2, <1>3, <1>4, <1>5

LEMMA NoChange ==
    ASSUME NEW inv \in Inventories
    PROVE  inv \in Changes(inv)
<1> DEFINE Without(receipts) == [id \in Packages |-> IF id \in {} THEN None ELSE receipts[id]]
           next == [inv EXCEPT !.installed = Without(inv.installed), !.targets = Without(inv.targets)]
<1>1. Without(inv.installed) = inv.installed /\ Without(inv.targets) = inv.targets
    BY DEF Inventories, Receipts
<1>2. next = inv
    BY <1>1 DEF Inventories
<1>3. StageRemove(inv, {}) = Finish(next, inv)
    BY DEF StageRemove
<1>4. inv \in StageRemove(inv, {})
    BY <1>2, <1>3 DEF Finish
<1> QED
    BY <1>4, StagedIsChange

(* Nothing is forgotten of an empty inventory. *)
LEMMA RestoreEmpty ==
    ASSUME NEW trust
    PROVE  Restore(EmptyInventory, trust) = EmptyInventory
BY DEF Restore, EmptyInventory

-----------------------------------------------------------------------------
(* A step of one process that leaves CURRENT and what the agent follows     *)
(* alone.                                                                   *)
LEMMA OneCarries ==
    ASSUME HInv, DInv', NEW p \in Procs,
           \A q \in Procs \ {p} : proc'[q] = proc[q],
           pointer' = pointer, followed' = followed,
           states \subseteq states', blobs \subseteq blobs',
           durable'.pointer \in {durable.pointer, pointer},
           Staged(proc'[p]), FollowsOn(proc'[p], pointer), Pinned(p)'
    PROVE  HInv'
<1>1. SeenOnly' /\ ReloadAccepted'
    BY DEF HInv, SeenOnly, ReloadAccepted, IsInventory, AcceptsReload
<1>2. \A q \in Procs : Staged(proc[q])' /\ FollowsOn(proc[q], pointer)'
    BY DEF HInv, Staged, FollowsOn
<1>3. ASSUME NEW q \in Procs \ {p} PROVE Pinned(q)'
    BY <1>3 DEF HInv, Pinned, At, Loads, StateParses
<1> QED
    BY <1>1, <1>2, <1>3 DEF HInv

(* A process with nothing staged, checked or pinned. *)
LEMMA CarriesNothing ==
    ASSUME NEW job, NEW current, job.step \in {"idle", "accepted", "activate", "pinned", "syncPointer"}
    PROVE  Staged(job) /\ FollowsOn(job, current) /\ job.step # "activating"
BY DEF Staged, FollowsOn, Migrating, Checking

LEMMA PreparedHistory ==
    ASSUME HInv, DInv', NEW p \in Procs,
           NEW candidates, NEW supplied, NEW catalog,
           Prepare(p, candidates, supplied, catalog),
           candidates \subseteq Changes(Current(proc[p].trust))
    PROVE  HInv'
<1>1. proc \in [Procs -> Jobs] /\ proc[p] \in Jobs
    BY DEF HInv, DInv, IInv, ProcInv
<1>2. PICK candidate \in candidates :
          proc' = [proc EXCEPT ![p].step = "prepared", ![p].expected = pointer,
                               ![p].candidate = candidate, ![p].supplied = supplied,
                               ![p].catalog = catalog]
    BY DEF Prepare
<1>3. /\ proc'[p].step = "prepared" /\ proc'[p].expected = pointer
      /\ proc'[p].trust = proc[p].trust /\ proc'[p].candidate = candidate
      /\ \A q \in Procs \ {p} : proc'[q] = proc[q]
    BY <1>1, <1>2 DEF Jobs
<1>4. Staged(proc'[p]) /\ FollowsOn(proc'[p], pointer) /\ Pinned(p)'
    BY <1>3 DEF Staged, FollowsOn, Pinned, At, Current, Migrating, Checking
<1> QED
    BY <1>3, <1>4, OneCarries DEF Prepare, files

LEMMA PreparingHistory ==
    ASSUME HInv, DInv', NEW p \in Procs,
           PrepareImport(p) \/ PrepareRemoval(p) \/ PrepareRollback(p) \/ AcceptCatalog(p)
    PROVE  HInv'
<1> DEFINE current == Current(proc[p].trust)
<1>1. CASE PrepareImport(p)
    <2>1. PICK a \in Artifacts : Prepare(p, StageImport(current, {a}), {a}, None)
        BY <1>1 DEF PrepareImport
    <2>2. StageImport(current, {a}) \subseteq Changes(current)
        BY StagedIsChange
    <2> QED
        BY <2>1, <2>2, PreparedHistory
<1>2. CASE PrepareRemoval(p)
    <2>1. PICK id \in Packages : Prepare(p, StageRemove(current, {id}), {}, None)
        BY <1>2 DEF PrepareRemoval
    <2>2. StageRemove(current, {id}) \subseteq Changes(current)
        BY StagedIsChange
    <2> QED
        BY <2>1, <2>2, PreparedHistory
<1>3. CASE PrepareRollback(p)
    <2>1. PICK id \in Packages :
              Prepare(p, StageRollback(current, id), {RollbackTarget(pointer, id)}, None)
        BY <1>3 DEF PrepareRollback
    <2>2. StageRollback(current, id) \subseteq Changes(current)
        BY StagedIsChange
    <2> QED
        BY <2>1, <2>2, PreparedHistory
<1>4. CASE AcceptCatalog(p)
    <2>1. PICK c \in Checkpoints : Prepare(p, StagePlan(current, c, {}), {}, c)
        BY <1>4 DEF AcceptCatalog
    <2>2. StagePlan(current, c, {}) \subseteq Changes(current)
        BY StagedIsChange
    <2> QED
        BY <2>1, <2>2, PreparedHistory
<1> QED
    BY <1>1, <1>2, <1>3, <1>4

LEMMA InstallHistory ==
    ASSUME HInv, DInv', NEW p \in Procs, PrepareInstall(p)
    PROVE  HInv'
<1> DEFINE before == Restore(proc[p].expected, proc[p].trust)
           catalog == proc[p].catalog
           Takes(new, candidate) ==
               proc' = [proc EXCEPT ![p].step = "prepared", ![p].candidate = candidate,
                                    ![p].supplied = new, ![p].catalog = None]
<1>1. /\ proc \in [Procs -> Jobs] /\ proc[p] \in Jobs
      /\ catalog \in Checkpoints
    BY DEF HInv, DInv, IInv, ProcInv, JobSound, PrepareInstall, At
<1>2. PICK new \in (SUBSET Offers[catalog]) \ {{}} :
          \E candidate \in StagePlan(before, catalog, new) : Takes(new, candidate)
    BY DEF PrepareInstall
<1>3. PICK candidate \in StagePlan(before, catalog, new) : Takes(new, candidate)
    BY <1>2
<1>4. new \in SUBSET Artifacts
    BY <1>1, StoreConstants
<1>5. candidate \in Changes(before)
    BY <1>1, <1>4, StagedIsChange
<1>6. /\ proc'[p].step = "prepared" /\ proc'[p].expected = proc[p].expected
      /\ proc'[p].trust = proc[p].trust /\ proc'[p].candidate = candidate
      /\ \A q \in Procs \ {p} : proc'[q] = proc[q]
    BY <1>1, <1>3 DEF Jobs
<1>7. Staged(proc'[p]) /\ FollowsOn(proc'[p], pointer) /\ Pinned(p)'
    BY <1>5, <1>6 DEF Staged, FollowsOn, Pinned, At, Migrating, Checking
<1> QED
    BY <1>6, <1>7, OneCarries DEF PrepareInstall, files

LEMMA StartHistory ==
    ASSUME HInv, DInv', NEW p \in Procs, StartMigration(p)
    PROVE  HInv'
<1> DEFINE first == IF pointer = NoStore THEN "makeRoot" ELSE "open"
           Starts(new, candidate) ==
               proc' = [proc EXCEPT ![p].step = first, ![p].candidate = candidate,
                                    ![p].supplied = new, ![p].migrates = TRUE]
<1>1. proc \in [Procs -> Jobs] /\ proc[p] \in Jobs
    BY DEF HInv, DInv, IInv, ProcInv
<1>2. PICK new \in SUBSET Artifacts :
          \E candidate \in StageImport(EmptyInventory, new) : Starts(new, candidate)
    BY DEF StartMigration
<1>3. PICK candidate \in StageImport(EmptyInventory, new) : Starts(new, candidate)
    BY <1>2
<1>4. candidate \in Changes(EmptyInventory)
    BY StagedIsChange
<1>5. first \in {"makeRoot", "open"}
    OBVIOUS
<1> HIDE DEF first
<1>6. /\ proc'[p].step = first /\ proc'[p].candidate = candidate
      /\ \A q \in Procs \ {p} : proc'[q] = proc[q]
    BY <1>1, <1>3 DEF Jobs
<1>7. Staged(proc'[p]) /\ FollowsOn(proc'[p], pointer) /\ Pinned(p)'
    BY <1>4, <1>5, <1>6 DEF Staged, FollowsOn, Pinned, At, Checking
<1> QED
    BY <1>6, <1>7, OneCarries DEF StartMigration, files

(* A step to where nothing is staged, checked or pinned. *)
LEMMA FreeHistory ==
    ASSUME HInv, DInv', NEW p \in Procs,
           proc'[p].step \in {"idle", "accepted", "activate", "pinned", "syncPointer"},
           \A q \in Procs \ {p} : proc'[q] = proc[q],
           pointer' = pointer, followed' = followed,
           states \subseteq states', blobs \subseteq blobs',
           durable'.pointer \in {durable.pointer, pointer}
    PROVE  HInv'
<1>1. Staged(proc'[p]) /\ FollowsOn(proc'[p], pointer) /\ Pinned(p)'
    BY CarriesNothing DEF Pinned, At
<1> QED
    BY <1>1, OneCarries

LEMMA GivenUp ==
    ASSUME ProcInv, NEW p \in Procs, NEW trust, proc' = [proc EXCEPT ![p] = Idle(trust)]
    PROVE  proc'[p].step = "idle" /\ \A q \in Procs \ {p} : proc'[q] = proc[q]
BY DEF ProcInv, Idle

LEMMA EndingHistory ==
    ASSUME HInv, DInv', NEW p \in Procs, Cancel(p) \/ SaveMode(p) \/ Fails(p)
    PROVE  HInv'
<1>1. \E trust : proc' = [proc EXCEPT ![p] = Idle(trust)]
    BY DEF Cancel, SaveMode, Fails, GiveUp
<1>2. proc'[p].step = "idle" /\ \A q \in Procs \ {p} : proc'[q] = proc[q]
    BY <1>1, GivenUp DEF HInv, DInv, IInv
<1> QED
    BY <1>2, FreeHistory DEF Cancel, SaveMode, Fails, files

(* A process that moves on with what it carries. *)
LEMMA MovesHistory ==
    ASSUME HInv, DInv', NEW p \in Procs, NEW step \in Steps, GoTo(p, step),
           \/ proc[p].step \in Migrating /\ step \in Migrating
           \/ proc[p].step = "prepared" /\ step = "locked"
           \/ proc[p].step \in Checking /\ step \in Checking
           \/ step = "pinned",
           pointer' = pointer, followed' = followed,
           states \subseteq states', blobs \subseteq blobs',
           durable'.pointer \in {durable.pointer, pointer}
    PROVE  HInv'
<1>1. proc \in [Procs -> Jobs] /\ proc[p] \in Jobs
    BY DEF HInv, DInv, IInv, ProcInv
<1>2. /\ proc'[p].step = step /\ proc'[p].expected = proc[p].expected
      /\ proc'[p].trust = proc[p].trust /\ proc'[p].candidate = proc[p].candidate
      /\ \A q \in Procs \ {p} : proc'[q] = proc[q]
    BY <1>1 DEF GoTo, Jobs
<1>3. Staged(proc[p]) /\ FollowsOn(proc[p], pointer)
    BY DEF HInv
<1>4. Staged(proc'[p]) /\ FollowsOn(proc'[p], pointer) /\ Pinned(p)'
    BY <1>2, <1>3 DEF Staged, FollowsOn, Pinned, At, Migrating, Checking
<1> QED
    BY <1>2, <1>4, OneCarries

(* Before CURRENT names a state nobody commits, activates or follows.       *)
LEMMA Unused ==
    ASSUME HInv, ~IsInventory(pointer)
    PROVE  /\ \A q \in Procs : proc[q].step \notin Checking /\ proc[q].step # "activating"
           /\ followed = None
           /\ ~IsInventory(durable.pointer)
<1>1. ASSUME NEW q \in Procs
      PROVE  proc[q].step \notin Checking /\ proc[q].step # "activating"
    <2>1. proc[q].step \notin Checking
        BY DEF HInv, DInv, CandidateKept, Writing, Checking
    <2>2. ~Loads(proc[q].trust)
        BY LoadsSound, StoreConstants DEF HInv, DInv, IInv, IsInventory
    <2> QED
        BY <2>1, <2>2 DEF HInv, Pinned, At
<1> QED
    BY <1>1 DEF HInv, SeenOnly

(* A step of an initialization. *)
LEMMA InitializingHistory ==
    ASSUME HInv, DInv', NEW p \in Procs, ~IsInventory(pointer),
           proc[p].step \in Migrating,
           \/ proc'[p].step = "idle"
           \/ proc'[p].step \in Migrating /\ proc'[p].candidate = proc[p].candidate,
           \A q \in Procs \ {p} : proc'[q] = proc[q],
           followed' = followed,
           durable'.pointer \in {durable.pointer, Absent}
    PROVE  HInv'
<1>1. /\ \A q \in Procs : proc'[q].step \notin Checking /\ proc'[q].step # "activating"
      /\ followed' = None
      /\ ~IsInventory(durable'.pointer)
    BY Unused DEF IsInventory, Migrating, Checking
<1>2. SeenOnly' /\ ReloadAccepted'
    BY <1>1 DEF SeenOnly, ReloadAccepted, AcceptsReload, IsInventory
<1>3. \A q \in Procs : Staged(proc[q])'
    BY DEF HInv, Staged, Migrating
<1>4. \A q \in Procs : FollowsOn(proc[q], pointer)' /\ Pinned(q)'
    BY <1>1 DEF FollowsOn, Pinned, At
<1> QED
    BY <1>2, <1>3, <1>4 DEF HInv

LEMMA InitializationHistory ==
    ASSUME HInv, DInv', NEW p \in Procs,
           MakeRoot(p) \/ LinkEmpty(p) \/ MakePointer(p) \/ WritePointer(p) \/ SyncNew(p)
    PROVE  HInv'
<1>1. ProcInv /\ FileInv
    BY DEF HInv, DInv, IInv
<1>2. {"linkEmpty", "makePointer", "writePointer", "syncNew", "open"} \subseteq Steps \cap Migrating
    BY DEF Steps, Migrating
<1>3. proc[p].step \in Migrating
    BY DEF MakeRoot, LinkEmpty, MakePointer, WritePointer, SyncNew, At, Migrating
<1>4. CASE MakeRoot(p) /\ pointer = NoStore
    <2>1. /\ proc'[p].step = "linkEmpty" /\ proc'[p].candidate = proc[p].candidate
          /\ \A q \in Procs \ {p} : proc'[q] = proc[q]
        BY <1>1, <1>2, <1>4, MovedOn DEF MakeRoot
    <2>2. durable'.pointer = Absent
        BY <1>1, <1>4 DEF MakeRoot, FileInv
    <2> QED
        BY <1>2, <1>3, <1>4, <2>1, <2>2, InitializingHistory DEF MakeRoot, IsInventory
<1>5. CASE MakeRoot(p) /\ pointer # NoStore
    <2>1. proc'[p].step = "idle" /\ \A q \in Procs \ {p} : proc'[q] = proc[q]
        BY <1>1, <1>5, GivenUp DEF MakeRoot, GiveUp
    <2> QED
        BY <1>5, <2>1, FreeHistory DEF MakeRoot
<1>6. CASE LinkEmpty(p) \/ SyncNew(p)
    <2>1. durable'.pointer \in {durable.pointer, pointer}
        BY <1>6 DEF LinkEmpty, SyncNew, SyncDirectory
    <2> QED
        BY <1>2, <1>3, <1>6, <2>1, MovesHistory DEF LinkEmpty, SyncNew
<1>7. CASE MakePointer(p) \/ WritePointer(p)
    <2>1. ~IsInventory(pointer)
        BY <1>7 DEF MakePointer, WritePointer, At, HInv, DInv, InitializesAlone, Initializing
    <2>2. PICK step \in {"writePointer", "syncNew"} : GoTo(p, step)
        BY <1>7 DEF MakePointer, WritePointer
    <2>3. /\ proc'[p].step = step /\ proc'[p].candidate = proc[p].candidate
          /\ \A q \in Procs \ {p} : proc'[q] = proc[q]
        BY <1>1, <1>2, <2>2, MovedOn
    <2> QED
        BY <1>2, <1>3, <1>7, <2>1, <2>3, InitializingHistory DEF MakePointer, WritePointer
<1> QED
    BY <1>4, <1>5, <1>6, <1>7

LEMMA OpenHistory ==
    ASSUME HInv, DInv', NEW p \in Procs, OpenMigrated(p)
    PROVE  HInv'
<1> DEFINE current == Current(proc[p].trust)
           candidate == proc[p].candidate
<1>1. /\ proc \in [Procs -> Jobs] /\ proc[p] \in Jobs /\ ProcInv
      /\ FileInv
      /\ proc[p].step = "open"
    BY DEF HInv, DInv, IInv, ProcInv, OpenMigrated, At
<1>2. CASE Loads(proc[p].trust) /\ current \in {EmptyInventory, candidate}
    <2>1. current \in Inventories
        BY <1>1, <1>2, LoadsSound DEF Sound
    <2>2. candidate \in Changes(EmptyInventory)
        BY <1>1 DEF HInv, Staged, Migrating
    <2>3. candidate \in Changes(current)
        BY <1>2, <2>1, <2>2, NoChange
    <2>4. proc' = [proc EXCEPT ![p].step = "prepared", ![p].expected = pointer]
        BY <1>2 DEF OpenMigrated
    <2>5. /\ proc'[p].step = "prepared" /\ proc'[p].expected = pointer
          /\ proc'[p].trust = proc[p].trust /\ proc'[p].candidate = candidate
          /\ \A q \in Procs \ {p} : proc'[q] = proc[q]
        BY <1>1, <2>4 DEF Jobs
    <2>6. Staged(proc'[p]) /\ FollowsOn(proc'[p], pointer) /\ Pinned(p)'
        BY <2>3, <2>5 DEF Staged, FollowsOn, Pinned, At, Current, Migrating, Checking
    <2> QED
        BY <2>5, <2>6, OneCarries DEF OpenMigrated, files
<1>3. CASE ~(Loads(proc[p].trust) /\ current \in {EmptyInventory, candidate})
    <2>1. proc'[p].step = "idle" /\ \A q \in Procs \ {p} : proc'[q] = proc[q]
        BY <1>1, <1>3, GivenUp DEF OpenMigrated, GiveUp
    <2> QED
        BY <2>1, FreeHistory DEF OpenMigrated, files
<1> QED
    BY <1>2, <1>3

LEMMA WriterLockHistory ==
    ASSUME HInv, DInv', NEW p \in Procs, WriterLock(p)
    PROVE  HInv'
<1>1. UNCHANGED <<pointer, states, blobs, durable, followed>>
    BY DEF WriterLock, files
<1>2. CASE lock = None
    <2>1. CASE At(p, "prepared")
        BY <1>1, <1>2, <2>1, MovesHistory DEF WriterLock, At, Steps
    <2>2. CASE ~At(p, "prepared")
        BY <1>1, <1>2, <2>2, MovesHistory DEF WriterLock, Steps
    <2> QED
        BY <2>1, <2>2
<1>3. CASE lock # None
    <2>1. proc'[p].step = "idle" /\ \A q \in Procs \ {p} : proc'[q] = proc[q]
        BY <1>3, GivenUp DEF WriterLock, GiveUp, HInv, DInv, IInv
    <2> QED
        BY <1>1, <2>1, FreeHistory
<1> QED
    BY <1>2, <1>3

-----------------------------------------------------------------------------
(* The steps of a commit. *)

(* Forgetting a catalog keeps the generation and the receipts.              *)
LEMMA Restored ==
    ASSUME NEW inv \in Inventories, NEW trust
    PROVE  /\ Restore(inv, trust).generation = inv.generation
           /\ Restore(inv, trust).installed = inv.installed
           /\ Restore(inv, trust).highest = inv.highest
           /\ Restore(inv, trust).targets = inv.targets
           /\ inv.catalog # None /\ inv.catalog.signer \in trust =>
                 Restore(inv, trust).catalog = inv.catalog
<1> DEFINE forgotten == [inv EXCEPT !.catalog = None]
<1>1. /\ forgotten.generation = inv.generation
      /\ forgotten.installed = inv.installed
      /\ forgotten.highest = inv.highest
      /\ forgotten.targets = inv.targets
    BY DEF Inventories
<1> HIDE DEF forgotten
<1>2. Restore(inv, trust) \in {inv, forgotten}
    BY DEF Restore, forgotten
<1>3. inv.catalog # None /\ inv.catalog.signer \in trust => Restore(inv, trust) = inv
    BY DEF Restore
<1> QED
    BY <1>1, <1>2, <1>3

(* Under the lock the candidate is checked against the state it was staged  *)
(* on.                                                                      *)
LEMMA CheckedHistory ==
    ASSUME HInv, DInv', NEW p \in Procs, CheckCommit(p)
    PROVE  HInv'
<1>1. /\ ProcInv /\ proc \in [Procs -> Jobs] /\ proc[p] \in Jobs
      /\ proc[p].step = "locked"
      /\ UNCHANGED <<pointer, states, blobs, durable, followed>>
    BY DEF HInv, DInv, IInv, ProcInv, CheckCommit, At, files
<1>2. CASE ~(StillCurrent(p) /\ Acceptable(p))
    <2>1. proc'[p].step = "idle" /\ \A q \in Procs \ {p} : proc'[q] = proc[q]
        BY <1>1, <1>2, GivenUp DEF CheckCommit, GiveUp
    <2> QED
        BY <1>1, <2>1, FreeHistory
<1>3. CASE StillCurrent(p) /\ Acceptable(p) /\ NothingToCommit(p)
    <2>1. Done(p, pointer)
        BY <1>3 DEF CheckCommit
    <2>2. /\ proc'[p].step \in {"accepted", "activate", "idle"}
          /\ \A q \in Procs \ {p} : proc'[q] = proc[q]
        BY <1>1, <2>1 DEF Done, Idle, Jobs
    <2> QED
        BY <1>1, <2>2, FreeHistory
<1>4. CASE StillCurrent(p) /\ Acceptable(p) /\ ~NothingToCommit(p)
    <2> DEFINE restored == Restore(pointer, proc[p].trust)
    <2>1. /\ proc'[p].step = "linkBlobs"
          /\ proc'[p].trust = proc[p].trust /\ proc'[p].candidate = proc[p].candidate
          /\ \A q \in Procs \ {p} : proc'[q] = proc[q]
        BY <1>1, <1>4 DEF CheckCommit, GoTo, Jobs
    <2>2. /\ proc[p].candidate \notin {pointer, restored}
          /\ CheckSuccessor(restored, proc[p].candidate)
        BY <1>4 DEF NothingToCommit, Acceptable, Current
    <2>3. proc[p].candidate \in Changes(restored)
        BY <1>1, <1>4 DEF HInv, Staged, StillCurrent
    <2>4. FollowsOn(proc'[p], pointer)
        BY <2>1, <2>2, <2>3 DEF FollowsOn
    <2>5. Staged(proc'[p]) /\ Pinned(p)'
        BY <2>1 DEF Staged, Pinned, At, Migrating
    <2> QED
        BY <1>1, <2>1, <2>4, <2>5, OneCarries
<1> QED
    BY <1>2, <1>3, <1>4

LEMMA WritingHistory ==
    ASSUME HInv, DInv', NEW p \in Procs,
           LinkBlob(p) \/ LinkState(p) \/ SyncState(p) \/ SyncPointer(p)
    PROVE  HInv'
<1>1. proc \in [Procs -> Jobs] /\ proc[p] \in Jobs
    BY DEF HInv, DInv, IInv, ProcInv
<1>2. /\ pointer' = pointer /\ followed' = followed
      /\ states \subseteq states' /\ blobs \subseteq blobs'
      /\ durable'.pointer \in {durable.pointer, pointer}
    BY DEF LinkBlob, LinkState, SyncState, SyncPointer, SyncDirectory
<1>3. CASE LinkBlob(p)
    <2>1. Pinned(p)'
        BY <1>3 DEF LinkBlob, Pinned, At
    <2>2. Staged(proc'[p]) /\ FollowsOn(proc'[p], pointer)
        BY <1>3 DEF LinkBlob, HInv
    <2> QED
        BY <1>2, <1>3, <2>1, <2>2, OneCarries DEF LinkBlob
<1>4. CASE LinkState(p) \/ SyncState(p)
    <2>1. PICK step \in {"syncState", "movePointer"} : GoTo(p, step)
        BY <1>4 DEF LinkState, SyncState
    <2>2. proc[p].step \in Checking /\ step \in Checking \cap Steps
        BY <1>4 DEF LinkState, SyncState, At, Checking, Steps
    <2> QED
        BY <1>2, <2>1, <2>2, MovesHistory
<1>5. CASE SyncPointer(p)
    <2>1. /\ proc'[p].step \in {"accepted", "activate", "idle"}
          /\ \A q \in Procs \ {p} : proc'[q] = proc[q]
        BY <1>1, <1>5 DEF SyncPointer, Done, Idle, Jobs
    <2> QED
        BY <1>2, <2>1, FreeHistory
<1> QED
    BY <1>3, <1>4, <1>5

(* CURRENT moves on to the next generation. *)
LEMMA MovedPointerFacts ==
    ASSUME HInv, NEW p \in Procs, MovePointer(p)
    PROVE  LET restored == Restore(pointer, proc[p].trust) IN
           /\ pointer' = proc[p].candidate /\ IsInventory(pointer) /\ IsInventory(pointer')
           /\ Sound(pointer) /\ pointer \in Inventories /\ pointer' \in Inventories
           /\ pointer' \in Changes(restored)
           /\ pointer' # restored /\ CheckSuccessor(restored, pointer')
           /\ pointer'.generation = pointer.generation + 1
<1> DEFINE restored == Restore(pointer, proc[p].trust)
           candidate == proc[p].candidate
<1>1. /\ proc[p].step = "movePointer" /\ pointer' = candidate
      /\ IsInventory(pointer)
    BY DEF MovePointer, At, HInv, DInv, CandidateKept, Writing
<1>2. Sound(pointer) /\ pointer \in Inventories
    BY <1>1 DEF HInv, DInv, FilesKept, Kept, Sound
<1>3. candidate \in Inventories
    BY <1>1 DEF HInv, DInv, IInv, ProcInv, JobSound, Sound
<1>4. /\ candidate \in Changes(restored)
      /\ candidate \notin {pointer, restored}
      /\ CheckSuccessor(restored, candidate)
    BY <1>1 DEF HInv, FollowsOn, Checking
<1>5. candidate.generation = pointer.generation + 1
    BY <1>2, <1>4, Restored DEF CheckSuccessor
<1> QED
    BY <1>1, <1>2, <1>3, <1>4, <1>5, StoreConstants DEF IsInventory

LEMMA MovePointerHistory ==
    ASSUME HInv, DInv', NEW p \in Procs, MovePointer(p)
    PROVE  HInv'
<1>1. /\ IsInventory(pointer') /\ pointer \in Inventories /\ pointer' \in Inventories
      /\ pointer'.generation = pointer.generation + 1
      /\ UNCHANGED <<states, blobs, durable, followed>>
    BY MovedPointerFacts DEF MovePointer
<1>2. SeenOnly'
    BY <1>1 DEF SeenOnly
<1>3. ReloadAccepted'
    <2>1. CASE followed = None
        BY <1>1, <2>1 DEF ReloadAccepted, AcceptsReload
    <2>2. CASE followed # None
        <3>1. followed \in Inventories /\ followed.generation \in Nat /\ pointer.generation \in Nat
            BY <1>1, <2>2, PackageConstants DEF HInv, DInv, IInv, RestInv, Inventories
        <3>2. pointer.generation >= followed.generation
            BY <2>2, <3>1, MovedPointerFacts DEF HInv, ReloadAccepted, AcceptsReload
        <3>3. pointer'.generation > followed.generation
            BY <1>1, <3>1, <3>2
        <3> QED
            BY <1>1, <3>3 DEF ReloadAccepted, AcceptsReload
    <2> QED
        BY <2>1, <2>2
<1>4. /\ proc'[p].step = "syncPointer"
      /\ \A q \in Procs \ {p} : proc'[q] = proc[q]
    BY MovedOn DEF MovePointer, HInv, DInv, IInv, Steps
<1>5. \A q \in Procs \ {p} : proc[q].step \notin LockedSteps
    BY WritesAlone DEF MovePointer, At, HInv, DInv, LockedSteps
<1>6. \A q \in Procs : /\ proc'[q].step \notin Checking /\ proc'[q].step # "activating"
                       /\ Staged(proc'[q])
    BY <1>4, <1>5 DEF HInv, Staged, Checking, Migrating, LockedSteps
<1>7. \A q \in Procs : Staged(proc[q])' /\ FollowsOn(proc[q], pointer)' /\ Pinned(q)'
    BY <1>6 DEF Staged, FollowsOn, Pinned, At
<1> QED
    BY <1>2, <1>3, <1>7 DEF HInv

LEMMA ActivationHistory ==
    ASSUME HInv, DInv', NEW p \in Procs, CheckActivation(p)
    PROVE  HInv'
<1>1. /\ ProcInv /\ proc \in [Procs -> Jobs] /\ proc[p] \in Jobs
      /\ UNCHANGED <<pointer, states, blobs, durable, followed>>
    BY DEF HInv, DInv, IInv, ProcInv, CheckActivation, files
<1>2. CASE StillCurrent(p)
    <2>1. /\ proc'[p].step = "activating" /\ proc'[p].expected = proc[p].expected
          /\ proc'[p].trust = proc[p].trust
          /\ \A q \in Procs \ {p} : proc'[q] = proc[q]
        BY <1>1, <1>2 DEF CheckActivation, GoTo, Jobs
    <2>2. Staged(proc'[p]) /\ FollowsOn(proc'[p], pointer)
        BY <2>1 DEF Staged, FollowsOn, Migrating, Checking
    <2>3. Loads(proc[p].trust)' /\ pointer' = proc'[p].expected
        BY <1>1, <1>2, <2>1 DEF StillCurrent, Loads, StateParses
    <2>4. Pinned(p)'
        BY <2>1, <2>3 DEF Pinned, Loads, StateParses
    <2> QED
        BY <1>1, <2>1, <2>2, <2>4, OneCarries
<1>3. CASE ~StillCurrent(p)
    <2>1. proc'[p].step = "idle" /\ \A q \in Procs \ {p} : proc'[q] = proc[q]
        BY <1>1, <1>3, GivenUp DEF CheckActivation, GiveUp
    <2> QED
        BY <1>1, <2>1, FreeHistory
<1> QED
    BY <1>2, <1>3

-----------------------------------------------------------------------------
(* Power failures and the agent. *)

LEMMA PowerHistory ==
    ASSUME HInv, DInv', PowerFails
    PROVE  HInv' /\ pointer' \in {durable.pointer, pointer} /\ durable'.pointer = pointer'
<1>1. PICK kept \in [pointer : {durable.pointer, pointer},
                     states : {durable.states \cup s : s \in SUBSET (states \ durable.states)},
                     blobs : {durable.blobs \cup b : b \in SUBSET (blobs \ durable.blobs)}] :
          pointer' = kept.pointer /\ durable' = kept
    BY DEF PowerFails
<1>2. \A q \in Procs : proc'[q].step = "idle"
    BY DEF PowerFails, Idle
<1>3. SeenOnly' /\ ReloadAccepted'
    BY <1>1 DEF PowerFails, SeenOnly, ReloadAccepted, AcceptsReload
<1>4. \A q \in Procs : Staged(proc[q])' /\ FollowsOn(proc[q], pointer)' /\ Pinned(q)'
    BY <1>2 DEF Staged, FollowsOn, Pinned, At, Checking, Migrating
<1> QED
    BY <1>1, <1>3, <1>4 DEF HInv

LEMMA AgentHistory ==
    ASSUME HInv, DInv', AgentReloads \/ AgentRestarts \/ UNCHANGED vars
    PROVE  HInv'
<1>1. UNCHANGED <<pointer, states, blobs, durable, proc>>
    BY DEF AgentReloads, AgentRestarts, vars, files
<1>2. followed' \in {followed, None} \/ (AgentReloads /\ followed' = pointer)
    BY DEF AgentReloads, AgentRestarts, vars
<1>3. AgentReloads => IsInventory(pointer)
    BY LoadsSound, StoreConstants DEF AgentReloads, HInv, DInv, IInv, IsInventory
<1>4. SeenOnly' /\ ReloadAccepted'
    BY <1>1, <1>2, <1>3 DEF HInv, SeenOnly, ReloadAccepted, AcceptsReload, IsInventory
<1>5. \A q \in Procs : Staged(proc[q])' /\ FollowsOn(proc[q], pointer)' /\ Pinned(q)'
    BY <1>1 DEF HInv, Staged, FollowsOn, Pinned, At, Loads, StateParses
<1> QED
    BY <1>4, <1>5 DEF HInv

LEMMA InitHistory == Init => HInv
<1> SUFFICES ASSUME Init PROVE HInv
    OBVIOUS
<1>1. \A p \in Procs : proc[p].step = "idle"
    BY DEF Init, Idle
<1>2. \A p \in Procs : Staged(proc[p]) /\ FollowsOn(proc[p], pointer) /\ Pinned(p)
    BY <1>1, CarriesNothing DEF Pinned, At
<1>3. SeenOnly /\ ReloadAccepted
    BY DEF Init, SeenOnly, ReloadAccepted, AcceptsReload, IsInventory
<1> QED
    BY <1>2, <1>3, InitKept DEF HInv

LEMMA StepHistory == HInv /\ [Next]_vars => HInv'
<1> SUFFICES ASSUME HInv, [Next]_vars PROVE HInv'
    OBVIOUS
<1>1. DInv'
    BY StepKept DEF HInv
<1>2. ASSUME NEW p \in Procs, Process(p) PROVE HInv'
    BY <1>1, <1>2, PreparingHistory, InstallHistory, StartHistory, EndingHistory,
       InitializationHistory, OpenHistory, WriterLockHistory, CheckedHistory, WritingHistory,
       MovePointerHistory, ActivationHistory DEF Process
<1> QED
    BY <1>1, <1>2, PowerHistory, AgentHistory DEF Next

LEMMA StoreHistory == Spec => []HInv
BY InitHistory, StepHistory, PTL DEF Spec

-----------------------------------------------------------------------------
(* The agent, which loads the store again whenever it changes               *)
(* (installed_packages.rs), never has to refuse what it finds: whatever was *)
(* committed, by whichever release, continues what it follows.              *)
THEOREM ReloadAlwaysAccepted == Spec => []ReloadAccepted
<1>1. HInv => ReloadAccepted
    BY DEF HInv
<1> QED
    BY <1>1, StoreHistory, PTL

(* CURRENT changes from one inventory to another only by the rename of      *)
(* replace_pointer, or when power fails.                                    *)
LEMMA PointerMoves ==
    ASSUME HInv, [Next]_vars, IsInventory(pointer), pointer' # pointer, ~PowerFails
    PROVE  \E p \in Procs : MovePointer(p)
<1>1. PICK p \in Procs : Process(p)
    BY DEF Next, AgentReloads, AgentRestarts, vars, files
<1>2. ~MakePointer(p) /\ ~WritePointer(p)
    BY DEF MakePointer, WritePointer, At, HInv, DInv, InitializesAlone, Initializing
<1>3. ~MakeRoot(p)
    BY DEF MakeRoot, IsInventory
<1>4. MovePointer(p)
    BY <1>1, <1>2, <1>3 DEF Process, PrepareImport, PrepareRemoval, PrepareRollback, AcceptCatalog,
       Prepare, PrepareInstall, Cancel, StartMigration, LinkEmpty, SyncNew, OpenMigrated, WriterLock,
       CheckCommit, LinkBlob, LinkState, SyncState, SyncPointer, CheckActivation, SaveMode, Fails, files
<1> QED
    BY <1>4

FailuresCount == failures \in Nat

LEMMA FailuresCounted == Spec => []FailuresCount
<1>1. Init => FailuresCount
    BY DEF Init, FailuresCount
<1>2. FailuresCount /\ [Next]_vars => FailuresCount'
    <2> SUFFICES ASSUME failures \in Nat, [Next]_vars PROVE failures' \in Nat
        BY DEF FailuresCount
    <2>1. ASSUME NEW p \in Procs, Process(p) PROVE failures' \in {failures, failures + 1}
        BY <2>1 DEF Process, PrepareImport, PrepareRemoval, PrepareRollback, AcceptCatalog,
           Prepare, PrepareInstall, Cancel, StartMigration, MakeRoot, LinkEmpty, MakePointer,
           WritePointer, SyncNew, OpenMigrated, WriterLock, CheckCommit, LinkBlob, LinkState,
           SyncState, MovePointer, SyncPointer, CheckActivation, SaveMode, Fails
    <2> QED
        BY <2>1 DEF Next, PowerFails, AgentReloads, AgentRestarts, vars
<1> QED
    BY <1>1, <1>2, PTL DEF Spec

(* What check_store_successor accepts is not older. *)
LEMMA SuccessorNeverOlder ==
    ASSUME NEW old \in Inventories, NEW new \in Inventories,
           NEW p \in Procs, At(p, "movePointer"),
           new # Restore(old, proc[p].trust), CheckSuccessor(Restore(old, proc[p].trust), new)
    PROVE  NeverOlder(old, new)
<1> DEFINE restored == Restore(old, proc[p].trust)
<1>1. /\ restored.installed = old.installed
      /\ restored.highest = old.highest
      /\ restored.targets = old.targets
      /\ old.catalog # None /\ old.catalog.signer \in proc[p].trust => restored.catalog = old.catalog
    BY Restored
<1> HIDE DEF restored
<1>2. /\ \A id \in Packages :
             LET was == restored.installed[id]  now == new.installed[id] IN
             was # None /\ now # None =>
                 \/ now.revision > was.revision
                 \/ now.revision < was.revision /\ RollbackTarget(restored, id) = now
                 \/ now = was
      /\ \A id \in Packages :
             restored.highest[id] # None =>
                 /\ new.highest[id] # None
                 /\ \/ new.highest[id].revision > restored.highest[id].revision
                    \/ new.highest[id] = restored.highest[id]
      /\ restored.catalog # None =>
             new.catalog # None /\ CatalogFollows(restored, new.catalog)
    BY DEF CheckSuccessor, restored
<1>3. \A a \in Artifacts : a.revision \in Nat
    BY PackageConstants
<1>4. ASSUME NEW id \in Packages, old.highest[id] # None
      PROVE  new.highest[id] # None /\ new.highest[id].revision >= old.highest[id].revision
    <2>1. old.highest[id] \in Artifacts /\ new.highest[id] \in Artifacts \cup {None}
        BY <1>4 DEF Inventories, Receipts
    <2> QED
        BY <1>1, <1>2, <1>3, <1>4, <2>1
<1>5. ASSUME NEW id \in Packages, old.installed[id] # None, new.installed[id] # None
      PROVE  \/ new.installed[id].revision >= old.installed[id].revision
             \/ new.installed[id] = RollbackTarget(old, id)
    <2>1. old.installed[id] \in Artifacts /\ new.installed[id] \in Artifacts
        BY <1>5 DEF Inventories, Receipts
    <2>2. RollbackTarget(restored, id) = RollbackTarget(old, id)
        BY <1>1 DEF RollbackTarget
    <2> QED
        BY <1>1, <1>2, <1>3, <1>5, <2>1, <2>2
<1>6. \/ old.catalog = None
      \/ new.catalog # None /\ new.catalog.revision >= old.catalog.revision
      \/ old.catalog.signer \notin proc[p].trust
    <2> SUFFICES ASSUME old.catalog # None, old.catalog.signer \in proc[p].trust
                 PROVE  new.catalog # None /\ new.catalog.revision >= old.catalog.revision
        OBVIOUS
    <2>1. restored.catalog = old.catalog
        BY <1>1
    <2>2. new.catalog # None /\ CatalogFollows(restored, new.catalog)
        BY <1>2, <2>1
    <2>3. old.catalog \in Checkpoints /\ new.catalog \in Checkpoints
        BY <2>2 DEF Inventories
    <2>4. old.catalog.revision \in Nat /\ new.catalog.revision \in Nat
        BY <2>3, PackageConstants
    <2> QED
        BY <2>1, <2>2, <2>4 DEF CatalogFollows
<1> QED
    BY <1>4, <1>5, <1>6 DEF NeverOlder

(* No commit lowers a revision ever seen or an accepted catalog, and an     *)
(* installed package goes back only to the exact artifact that the          *)
(* inventory offers for a rollback (check_store_successor): for every       *)
(* interleaving of commits by releases that trust different keys.  And the  *)
(* agent never has to refuse what was committed.                            *)
THEOREM HistoryAlwaysGrows == Spec => HistoryOnlyGrows
<1>1. HInv /\ FailuresCount /\ [Next]_vars
      => [IsInventory(pointer) /\ IsInventory(pointer') /\ failures' = failures
            => NeverOlder(pointer, pointer')]_pointer
    <2> SUFFICES ASSUME HInv, FailuresCount, [Next]_vars,
                        IsInventory(pointer), IsInventory(pointer'),
                        failures' = failures, pointer' # pointer
                 PROVE  NeverOlder(pointer, pointer')
        OBVIOUS
    <2>1. ~PowerFails
        BY DEF PowerFails, FailuresCount
    <2>2. PICK p \in Procs : MovePointer(p)
        BY <2>1, PointerMoves
    <2> QED
        BY <2>2, MovedPointerFacts, SuccessorNeverOlder DEF MovePointer
<1>2. Spec => DowngradeProtected
    BY <1>1, StoreHistory, FailuresCounted, PTL DEF DowngradeProtected, Spec
<1> QED
    BY <1>2, ReloadAlwaysAccepted DEF HistoryOnlyGrows

(* A migration turns the configuration to managed packages only while the   *)
(* store that it prepared is the current one and loads                      *)
(* (with_current_snapshot): no writer commits between the check and the     *)
(* save, whatever other processes, releases and failures there are.         *)
THEOREM ActivationIsPrepared == Spec => ActivatesPrepared
<1>1. HInv /\ [Next]_vars => [PreparedIsCurrent]_mode
    <2> SUFFICES ASSUME HInv, [Next]_vars, mode' # mode
                 PROVE  PreparedIsCurrent
        OBVIOUS
    <2>1. PICK p \in Procs : Process(p)
        BY DEF Next, PowerFails, AgentReloads, AgentRestarts, vars
    <2>2. SaveMode(p)
        BY <2>1 DEF Process, PrepareImport, PrepareRemoval, PrepareRollback, AcceptCatalog,
           Prepare, PrepareInstall, Cancel, StartMigration, MakeRoot, LinkEmpty, MakePointer,
           WritePointer, SyncNew, OpenMigrated, WriterLock, CheckCommit, LinkBlob, LinkState,
           SyncState, MovePointer, SyncPointer, CheckActivation, Fails
    <2>3. At(p, "activating") /\ Pinned(p)
        BY <2>2 DEF SaveMode, HInv
    <2> QED
        BY <2>3 DEF Pinned, PreparedIsCurrent
<1> QED
    BY <1>1, StoreHistory, PTL DEF ActivatesPrepared, Spec

-----------------------------------------------------------------------------
(* The refinement. *)

(* What PackageHistory calls a change of an inventory is what the store's   *)
(* processes stage.                                                         *)
LEMMA SameChanges == ASSUME NEW inv PROVE History!Changes(inv) = Changes(inv)
BY DEF Changes, StageImport, StagePlan, StageRemove, StageRollback, MayAdd, AddPackages, Put,
   Replaced, OneEach, NotOlder, ReceiptHistoryValid, CatalogFollows, Finish, RollbackTarget,
   History!Changes, History!StageImport, History!StagePlan, History!StageRemove,
   History!StageRollback, History!MayAdd, History!AddPackages, History!Put,
   History!Replaced, History!OneEach, History!NotOlder, History!ReceiptHistoryValid,
   History!CatalogFollows, History!Finish, History!RollbackTarget

LEMMA SeenInventory ==
    ASSUME NEW content
    PROVE  /\ IsInventory(content) => Seen(content) = content /\ Seen(content) # NoStore
           /\ ~IsInventory(content) => Seen(content) = NoStore
BY DEF Seen, IsInventory

(* Steps that neither commit, nor make anything safe, nor are the agent's.  *)
LEMMA HiddenStep ==
    ASSUME UNCHANGED <<pointer, durable, confirmed, followed>>
    PROVE  UNCHANGED History!vars
BY DEF History!vars, Seen, IsInventory

LEMMA InitializationRefines ==
    ASSUME HInv, HInv', NEW p \in Procs,
           MakeRoot(p) \/ MakePointer(p) \/ WritePointer(p)
    PROVE  [History!Next]_(History!vars)
<1>1. UNCHANGED <<confirmed, followed>>
    BY DEF MakeRoot, MakePointer, WritePointer
<1>2. CASE MakeRoot(p) /\ pointer # NoStore
    BY <1>1, <1>2, HiddenStep DEF MakeRoot
<1>3. CASE MakeRoot(p) /\ pointer = NoStore
    <2>1. ~IsInventory(pointer) /\ ~IsInventory(durable.pointer)
        BY <1>3, Unused DEF IsInventory
    <2>2. ~IsInventory(pointer') /\ ~IsInventory(durable'.pointer)
        BY <1>3 DEF MakeRoot, IsInventory, HInv, DInv, IInv, FileInv
    <2> QED
        BY <1>1, <2>1, <2>2, SeenInventory DEF History!vars
<1>4. CASE MakePointer(p) \/ WritePointer(p)
    <2>1. ~IsInventory(pointer) /\ UNCHANGED durable
        BY <1>4 DEF MakePointer, WritePointer, At, HInv, DInv, InitializesAlone, Initializing
    <2>2. Seen(pointer) = NoStore /\ Seen(durable'.pointer) = Seen(durable.pointer)
        BY <2>1, SeenInventory
    <2>3. CASE MakePointer(p)
        BY <1>1, <2>2, <2>3, SeenInventory DEF MakePointer, IsInventory, History!vars
    <2>4. CASE WritePointer(p)
        <3>1. Seen(pointer') = EmptyInventory
            BY <2>4, EmptySound, StoreConstants DEF WritePointer, Sound, Seen, IsInventory
        <3> QED
            BY <1>1, <2>2, <3>1 DEF History!Next, History!Create, History!EmptyInventory,
               History!NoReceipts, EmptyInventory, NoReceipts
    <2> QED
        BY <1>4, <2>3, <2>4
<1> QED
    BY <1>2, <1>3, <1>4

LEMMA CommitRefines ==
    ASSUME HInv, HInv', SyncsDirectory, NEW p \in Procs,
           SyncNew(p) \/ SyncState(p) \/ MovePointer(p) \/ SyncPointer(p)
    PROVE  [History!Next]_(History!vars)
<1>1. CASE SyncNew(p) \/ SyncState(p)
    <2>1. /\ UNCHANGED <<pointer, confirmed, followed>>
          /\ durable'.pointer = pointer
        BY <1>1 DEF SyncNew, SyncState, SyncDirectory
    <2> QED
        BY <2>1 DEF History!Next, History!Settle
<1>2. CASE MovePointer(p)
    <2> DEFINE trust == proc[p].trust
    <2>1. /\ IsInventory(pointer) /\ IsInventory(pointer')
          /\ pointer' \in Changes(Restore(pointer, trust))
          /\ UNCHANGED <<durable, confirmed, followed>>
        BY <1>2, MovedPointerFacts DEF MovePointer
    <2>2. trust \in Releases
        BY DEF HInv, DInv, IInv, ProcInv, Jobs
    <2>3. History!Restore(pointer, trust) = Restore(pointer, trust)
        BY DEF History!Restore, Restore
    <2>4. Seen(pointer) = pointer /\ Seen(pointer') = pointer' /\ pointer # NoStore
        BY <2>1, SeenInventory
    <2>5. Seen(pointer') \in History!Changes(History!Restore(Seen(pointer), trust))
        BY <2>1, <2>3, <2>4, SameChanges
    <2> QED
        BY <2>1, <2>2, <2>4, <2>5 DEF History!Next, History!Change
<1>3. CASE SyncPointer(p)
    <2>1. /\ UNCHANGED <<pointer, followed>>
          /\ durable'.pointer = pointer
          /\ confirmed' = proc[p].candidate
        BY <1>3 DEF SyncPointer, SyncDirectory
    <2>2. pointer = proc[p].candidate /\ IsInventory(pointer)
        BY <1>3 DEF SyncPointer, At, HInv, DInv, CandidateKept, Writing
    <2>3. Seen(pointer) = pointer
        BY <2>2, SeenInventory
    <2> QED
        BY <2>1, <2>2, <2>3 DEF History!Next, History!Confirm
<1> QED
    BY <1>1, <1>2, <1>3

LEMMA EnvironmentRefines ==
    ASSUME HInv, HInv', PowerFails \/ AgentReloads \/ AgentRestarts
    PROVE  [History!Next]_(History!vars)
<1>1. CASE PowerFails
    <2>1. pointer' \in {durable.pointer, pointer} /\ durable'.pointer = pointer'
        BY <1>1, PowerHistory DEF HInv
    <2>2. followed' = None /\ UNCHANGED confirmed
        BY <1>1 DEF PowerFails
    <2> QED
        BY <2>1, <2>2 DEF History!Next, History!LosePower
<1>2. CASE AgentReloads
    <2>1. UNCHANGED <<pointer, durable, confirmed>> /\ followed' \in {pointer, followed}
        BY <1>2 DEF AgentReloads, files
    <2>2. IsInventory(pointer)
        BY <1>2, LoadsSound, StoreConstants DEF AgentReloads, HInv, DInv, IInv, IsInventory
    <2>3. Seen(pointer) = pointer /\ pointer # NoStore
        BY <2>2, SeenInventory
    <2>4. CASE followed' = pointer
        BY <2>1, <2>3, <2>4 DEF History!Next, History!Follow
    <2>5. CASE followed' = followed
        BY <2>1, <2>5, HiddenStep
    <2> QED
        BY <2>1, <2>4, <2>5
<1>3. CASE AgentRestarts
    <2>1. UNCHANGED <<pointer, durable, confirmed>> /\ followed # None /\ followed' = None
        BY <1>3 DEF AgentRestarts, files
    <2>2. Seen(pointer) # NoStore
        BY <2>1, SeenInventory DEF HInv, SeenOnly
    <2> QED
        BY <2>1, <2>2 DEF History!Next, History!Follow
<1> QED
    BY <1>1, <1>2, <1>3

LEMMA StepRefines ==
    ASSUME HInv, HInv', SyncsDirectory, [Next]_vars
    PROVE  [History!Next]_(History!vars)
<1>1. ASSUME NEW p \in Procs, Process(p)
      PROVE  [History!Next]_(History!vars)
    <2>1. CASE MakeRoot(p) \/ MakePointer(p) \/ WritePointer(p)
        BY <2>1, InitializationRefines
    <2>2. CASE SyncNew(p) \/ SyncState(p) \/ MovePointer(p) \/ SyncPointer(p)
        BY <2>2, CommitRefines
    <2>3. CASE UNCHANGED <<pointer, durable, confirmed, followed>>
        BY <2>3, HiddenStep
    <2> QED
        BY <1>1, <2>1, <2>2, <2>3 DEF Process, PrepareImport, PrepareRemoval, PrepareRollback,
           AcceptCatalog, Prepare, PrepareInstall, Cancel, StartMigration, LinkEmpty, OpenMigrated,
           WriterLock, CheckCommit, LinkBlob, LinkState, CheckActivation, SaveMode, Fails, files
<1>2. CASE UNCHANGED vars
    BY <1>2, HiddenStep DEF vars, files
<1> QED
    BY <1>1, <1>2, EnvironmentRefines DEF Next

(* The store implements PackageHistory where directories are synchronised   *)
(* (Unix): CURRENT moves along one history of staged changes, a change      *)
(* whose commit returned success outlives a power failure, and the agent    *)
(* sees this history only (commit_inner, replace_pointer, sync_directory).  *)
(* Where sync_directory does nothing, the code promises nothing about power *)
(* failures, and what is confirmed is not durable.                          *)
THEOREM StoreImplementsHistory ==
    ASSUME SyncsDirectory PROVE Spec => HistoryKept
<1>1. Init => History!Init
    BY SeenInventory DEF Init, History!Init, IsInventory
<1>2. HInv /\ HInv' /\ [Next]_vars => [History!Next]_(History!vars)
    BY StepRefines
<1> QED
    BY <1>1, <1>2, StoreHistory, PTL DEF Spec, HistoryKept, History!Spec
=============================================================================
