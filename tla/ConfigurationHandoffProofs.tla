---------------------- MODULE ConfigurationHandoffProofs ----------------------
(***************************************************************************)
(* PolicyEnforced and NeverTakenBack, for every kind of configuration, every *)
(* size of the queue and any number of saves, keys, gates and panics.  The   *)
(* invariant follows the one reload that may be outstanding: it is queued,   *)
(* being applied, acknowledged or rejected, and only from its application to *)
(* its publication do the worker's policy and the published settings differ. *)
(***************************************************************************)
EXTENDS ConfigurationHandoff, TLAPS

Sources == SUBSET UNION {kind.sources : kind \in Kinds}
Snapshots == [version : Nat, sources : Sources, generation : Nat]
Contents == [version : Nat, sources : Sources, generation : Nat, readable : BOOLEAN]
Reloads == [revision : Nat \ {0}, snapshot : Snapshots]

KeyEvents == [kind : {"key"}, current : BOOLEAN]
ReloadEvents == [kind : {"reload"}, current : BOOLEAN, reload : Reloads]
Events == KeyEvents \cup ReloadEvents

Loaders ==
  [requests : {0, 1}, reading : BOOLEAN, reply : Seq([content : Contents, ok : BOOLEAN]),
   inFlight : BOOLEAN, refreshAgain : BOOLEAN]
UiThreads ==
  [at : {"idle", "publish", "open", "load", "send"}, published : Snapshots,
   pending : {NoReload} \cup Reloads, deferred : Seq(Snapshots), revision : Nat,
   gate : BOOLEAN, messages : Nat]
Shared == [pending : BOOLEAN, ack : Nat, rejected : Nat, dead : BOOLEAN, shutdown : BOOLEAN]
Processors ==
  [at : {"idle", "check", "apply", "acknowledge"}, event : Seq(Events), revision : Nat,
   policy : Snapshots, acted : SUBSET Snapshots]

Typed ==
  /\ files \in Contents
  /\ loader \in Loaders
  /\ ui \in UiThreads
  /\ metrics \in Shared
  /\ inputs \in Seq(Events)
  /\ processor \in Processors

(* The slot of the UI thread, and when keys are ignored. *)
Outstanding == ui.pending # NoReload
Sent == Outstanding /\ ui.at # "send"

SlotInv ==
  /\ metrics.pending <=> Outstanding \/ ui.at = "open"
  /\ ui.at = "open" => ~Outstanding
  /\ ui.at = "send" => Outstanding /\ ui.pending.revision = ui.revision + 1
  /\ Sent => ui.pending.revision = ui.revision
  /\ Outstanding => AcceptsReload(ui.published, ui.pending.snapshot)

(* Where the reload is on its way, while the worker lives. *)
Queued == {i \in DOMAIN inputs : inputs[i].kind = "reload"}
Applying == processor.at \in {"apply", "acknowledge"}

Transit ==
  /\ Queued # {} \/ Applying =>
        /\ Sent
        /\ processor.revision < ui.revision
        /\ metrics.ack < ui.revision /\ metrics.rejected < ui.revision
  /\ \A i \in Queued : inputs[i].reload = ui.pending /\ \A j \in Queued : j = i
  /\ Applying =>
        /\ Queued = {}
        /\ processor.event # <<>> /\ processor.event[1].kind = "reload"
        /\ processor.event[1].reload = ui.pending
  /\ metrics.ack <= ui.revision /\ metrics.rejected <= ui.revision
  /\ processor.revision <= ui.revision
  /\ Sent => metrics.ack # ui.revision \/ metrics.rejected # ui.revision

Applied == Sent /\ (processor.at = "acknowledge" \/ metrics.ack = ui.revision)

PolicyFollows ==
  processor.policy = IF Applied THEN ui.pending.snapshot ELSE ui.published

WorkerInv ==
  /\ metrics.dead => processor.at = "idle"
  /\ ~metrics.dead => Transit /\ PolicyFollows
  /\ processor.acted \subseteq {processor.policy}
  /\ processor.at # "idle" => processor.acted = {}

HandoffInv == Typed /\ SlotInv /\ WorkerInv

-----------------------------------------------------------------------------
LEMMA First == ASSUME NEW S, NEW s \in Seq(S), s # <<>> PROVE s[1] \in S
OBVIOUS

LEMMA NoReloadIsNone == \A r \in Reloads : r # NoReload
BY DEF Reloads, NoReload

(* The queue: a new epoch, an event at its end, one taken from its head.    *)
LEMMA EpochFacts ==
    ASSUME NEW queue \in Seq(Events)
    PROVE  /\ NewEpoch(queue) \in Seq(Events)
           /\ DOMAIN NewEpoch(queue) = DOMAIN queue
           /\ Len(NewEpoch(queue)) = Len(queue)
           /\ \A i \in DOMAIN queue :
                 /\ NewEpoch(queue)[i].kind = queue[i].kind
                 /\ queue[i].kind = "reload" => NewEpoch(queue)[i].reload = queue[i].reload
<1>1. \A i \in DOMAIN queue : queue[i] \in Events
    OBVIOUS
<1>2. \A e \in Events : /\ [e EXCEPT !.current = FALSE] \in Events
                        /\ [e EXCEPT !.current = FALSE].kind = e.kind
                        /\ e.kind = "reload" => [e EXCEPT !.current = FALSE].reload = e.reload
    BY DEF Events, KeyEvents, ReloadEvents
<1>3. DOMAIN queue = 1..Len(queue) /\ Len(queue) \in Nat
    OBVIOUS
<1>4. /\ DOMAIN NewEpoch(queue) = 1..Len(queue)
      /\ \A i \in DOMAIN queue : NewEpoch(queue)[i] = [queue[i] EXCEPT !.current = FALSE]
    BY <1>3 DEF NewEpoch
<1>5. \A i \in 1..Len(queue) : NewEpoch(queue)[i] \in Events
    BY <1>1, <1>2, <1>3, <1>4
<1>6. NewEpoch(queue) = [i \in 1..Len(queue) |-> NewEpoch(queue)[i]]
    BY <1>3 DEF NewEpoch
<1>7. NewEpoch(queue) \in Seq(Events)
    BY <1>3, <1>5, <1>6
<1>8. Len(NewEpoch(queue)) = Len(queue)
    BY <1>3, <1>4, <1>7
<1> QED
    BY <1>1, <1>2, <1>3, <1>4, <1>7, <1>8

SameReloads ==
    /\ Queued' = Queued
    /\ \A i \in Queued : inputs'[i].reload = inputs[i].reload

LEMMA SameQueue ==
    ASSUME inputs \in Seq(Events), inputs' = NewEpoch(inputs) \/ inputs' = inputs
    PROVE  inputs' \in Seq(Events) /\ SameReloads
BY EpochFacts DEF Queued, SameReloads

(* The worker does not notice what leaves the slot, the numbers and its own *)
(* state alone.                                                             *)
LEMMA WorkerUnmoved ==
    ASSUME HandoffInv, SameReloads, UNCHANGED processor,
           UNCHANGED <<metrics.ack, metrics.rejected, metrics.dead>>,
           UNCHANGED <<ui.pending, ui.published, ui.revision>>, ui'.at = "send" <=> ui.at = "send"
    PROVE  WorkerInv'
<1>1. Sent' = Sent /\ Applying' = Applying /\ Applied' = Applied
    BY DEF Sent, Outstanding, Applying, Applied
<1>2. ~metrics.dead => Transit'
    BY <1>1 DEF HandoffInv, WorkerInv, Transit, SameReloads
<1>3. ~metrics.dead => PolicyFollows'
    BY <1>1 DEF HandoffInv, WorkerInv, PolicyFollows
<1> QED
    BY <1>2, <1>3 DEF HandoffInv, WorkerInv

(* Nor does the slot, unless the UI thread goes to where it sends or opens. *)
LEMMA SlotUnmoved ==
    ASSUME HandoffInv, UNCHANGED <<metrics.pending, ui.pending, ui.published, ui.revision>>,
           ui.at \notin {"send", "open"}, ui'.at \notin {"send", "open"}
    PROVE  SlotInv'
BY DEF HandoffInv, SlotInv, Outstanding, Sent

LEMMA InitHandoff == HandoffInit => HandoffInv
<1> SUFFICES ASSUME HandoffInit PROVE HandoffInv
    OBVIOUS
<1>1. Typed
    BY DEF HandoffInit, Typed, Contents, Sources, Loaders, UiThreads, Shared, Processors,
       Snapshots, Started
<1>2. ~Outstanding /\ ~Sent /\ Queued = {} /\ ~Applying /\ ~Applied
    BY DEF HandoffInit, Outstanding, Sent, Queued, Applying, Applied
<1>3. SlotInv
    BY <1>2 DEF HandoffInit, SlotInv
<1>4. WorkerInv
    BY <1>2 DEF HandoffInit, WorkerInv, Transit, PolicyFollows
<1> QED
    BY <1>1, <1>3, <1>4 DEF HandoffInv

-----------------------------------------------------------------------------
(* The environment and the loader. *)
LEMMA EnvironmentKeeps ==
    ASSUME HandoffInv, Environment \/ GateEnds
    PROVE  HandoffInv'
<1> USE DEF HandoffInv
<1>1. ASSUME NEW kind \in Kinds, NEW notifies \in BOOLEAN, Save(kind, notifies)
      PROVE  HandoffInv'
    <2>1. files' \in Contents
        <3>1. kind.sources \in Sources
            BY DEF Sources
        <3> QED
            BY <1>1, <3>1, HandoffAssumption DEF Save, Typed, Contents
    <2>2. /\ ui' \in UiThreads /\ ui'.at = ui.at
          /\ UNCHANGED <<ui.pending, ui.published, ui.revision>>
        BY <1>1 DEF Save, Typed, UiThreads
    <2>3. UNCHANGED <<loader, metrics, inputs, processor>>
        BY <1>1 DEF Save
    <2>4. Typed'
        BY <2>1, <2>2, <2>3 DEF Typed
    <2>5. SlotInv'
        BY <2>2, <2>3 DEF SlotInv, Outstanding, Sent
    <2>6. WorkerInv'
        BY <2>2, <2>3, WorkerUnmoved DEF SameReloads, Queued
    <2> QED
        BY <2>4, <2>5, <2>6
<1>2. CASE GateOpens \/ GateEnds
    <2>1. /\ ui' \in UiThreads /\ ui'.at = ui.at
          /\ UNCHANGED <<ui.pending, ui.published, ui.revision>>
        BY <1>2 DEF GateOpens, GateEnds, Typed, UiThreads
    <2>2. UNCHANGED <<files, loader, metrics, inputs, processor>>
        BY <1>2 DEF GateOpens, GateEnds
    <2>3. Typed' /\ SlotInv'
        BY <2>1, <2>2 DEF Typed, SlotInv, Outstanding, Sent
    <2>4. WorkerInv'
        BY <2>1, <2>2, WorkerUnmoved DEF SameReloads, Queued
    <2> QED
        BY <2>3, <2>4
<1>3. CASE TypeKey
    <2>1. UNCHANGED <<files, loader, ui, metrics, processor>>
        BY <1>3 DEF TypeKey
    <2>2. inputs' \in Seq(Events) /\ SameReloads
        <3>1. CASE inputs' = NewEpoch(inputs)
            BY <3>1, SameQueue DEF Typed
        <3>2. CASE inputs' = Append(inputs, [kind |-> "key", current |-> TRUE])
            <4> DEFINE key == [kind |-> "key", current |-> TRUE]
            <4>1. key \in Events /\ key.kind # "reload"
                BY DEF Events, KeyEvents
            <4> HIDE DEF key
            <4>2. inputs \in Seq(Events)
                BY DEF Typed
            <4>3. /\ inputs' \in Seq(Events)
                  /\ DOMAIN inputs' = DOMAIN inputs \cup {Len(inputs) + 1}
                  /\ inputs'[Len(inputs) + 1] = key
                  /\ \A i \in DOMAIN inputs : inputs'[i] = inputs[i]
                BY <3>2, <4>1, <4>2 DEF key
            <4> QED
                BY <4>1, <4>3 DEF SameReloads, Queued
        <3> QED
            BY <1>3, <3>1, <3>2 DEF TypeKey
    <2>3. Typed' /\ SlotInv'
        BY <2>1, <2>2 DEF Typed, SlotInv, Outstanding, Sent
    <2>4. WorkerInv'
        BY <2>1, <2>2, WorkerUnmoved
    <2> QED
        BY <2>3, <2>4
<1> QED
    BY <1>1, <1>2, <1>3 DEF Environment

LEMMA LoaderKeeps ==
    ASSUME HandoffInv, LoaderStep \/ ReloadConfigurationFromDisk \/ RequestShutdown
    PROVE  HandoffInv'
<1> USE DEF HandoffInv
<1>1. loader' \in Loaders
    <2>1. loader \in Loaders /\ files \in Contents
        BY DEF Typed
    <2>2. CASE LoaderReads
        <3>1. PICK panics \in BOOLEAN :
                 loader' = [loader EXCEPT !.reading = FALSE,
                       !.reply = <<[content |-> files, ok |-> files.readable /\ ~panics]>>]
            BY <2>2 DEF LoaderReads
        <3> DEFINE read == [content |-> files, ok |-> files.readable /\ ~panics]
        <3>2. read \in [content : Contents, ok : BOOLEAN]
            BY <2>1 DEF Contents
        <3> HIDE DEF read
        <3>3. <<read>> \in Seq([content : Contents, ok : BOOLEAN])
            BY <3>2
        <3>4. loader' = [loader EXCEPT !.reading = FALSE, !.reply = <<read>>]
            BY <3>1 DEF read
        <3> QED
            BY <2>1, <3>3, <3>4 DEF Loaders
    <2>3. CASE LoaderTakes
        BY <2>1, <2>3 DEF LoaderTakes, Loaders
    <2>4. CASE ReloadConfigurationFromDisk
        BY <2>1, <2>4 DEF ReloadConfigurationFromDisk, Requested, Loaders
    <2> QED
        BY <2>1, <2>2, <2>3, <2>4 DEF LoaderStep, RequestShutdown
<1>2. /\ ui' \in UiThreads /\ ui'.at = ui.at
      /\ UNCHANGED <<ui.pending, ui.published, ui.revision>>
    <2>1. CASE ReloadConfigurationFromDisk
        <3>1. ui.messages - 1 \in Nat
            BY <2>1 DEF ReloadConfigurationFromDisk, Typed, UiThreads
        <3> QED
            BY <2>1, <3>1 DEF ReloadConfigurationFromDisk, Typed, UiThreads
    <2>2. CASE LoaderStep \/ RequestShutdown
        BY <2>2 DEF LoaderStep, LoaderTakes, LoaderReads, RequestShutdown, Typed
    <2> QED
        BY <2>1, <2>2
<1>3. /\ metrics' \in Shared
      /\ UNCHANGED <<metrics.pending, metrics.ack, metrics.rejected, metrics.dead>>
    BY DEF LoaderStep, LoaderTakes, LoaderReads, ReloadConfigurationFromDisk, RequestShutdown,
       Typed, Shared
<1>4. UNCHANGED <<files, inputs, processor>>
    BY DEF LoaderStep, LoaderTakes, LoaderReads, ReloadConfigurationFromDisk, RequestShutdown
<1>5. Typed' /\ SlotInv'
    BY <1>1, <1>2, <1>3, <1>4 DEF Typed, SlotInv, Outstanding, Sent
<1>6. WorkerInv'
    BY <1>2, <1>3, <1>4, WorkerUnmoved DEF SameReloads, Queued
<1> QED
    BY <1>5, <1>6

-----------------------------------------------------------------------------
(* The timer of the UI thread. *)
LEMMA TimerTickKeeps ==
    ASSUME HandoffInv, TimerTick
    PROVE  HandoffInv'
<1> USE DEF HandoffInv
<1>1. UNCHANGED <<files, loader, inputs, processor>> /\ ui.at = "idle" /\ ui'.at = "publish"
    BY DEF TimerTick, UiIdle, Typed, UiThreads
<1>2. Typed'
    BY <1>1 DEF TimerTick, Typed, UiThreads, Shared
<1>3. /\ UNCHANGED <<metrics.ack, metrics.rejected, metrics.dead, ui.published, ui.revision>>
    BY DEF TimerTick, Typed, UiThreads, Shared
<1>4. CASE metrics.dead
    <2>1. ui'.pending = NoReload /\ ~metrics'.pending
        BY <1>4 DEF TimerTick, FaultClears, Typed, UiThreads, Shared
    <2>2. SlotInv'
        BY <1>1, <2>1 DEF SlotInv, Outstanding, Sent
    <2>3. WorkerInv'
        BY <1>1, <1>3, <1>4 DEF WorkerInv
    <2> QED
        BY <1>2, <2>2, <2>3
<1>5. CASE ~metrics.dead
    <2>1. UNCHANGED <<metrics, ui.pending>>
        BY <1>5 DEF TimerTick, FaultClears, Typed, UiThreads, Shared
    <2> QED
        BY <1>1, <1>2, <1>3, <2>1, WorkerUnmoved, SlotUnmoved DEF SameReloads, Queued
<1> QED
    BY <1>4, <1>5

LEMMA PublicationKeeps ==
    ASSUME HandoffInv, DropRejected \/ PublishSettings \/ PublishOpens \/ NothingSettled
    PROVE  HandoffInv'
<1> USE DEF HandoffInv
<1>1. /\ UNCHANGED <<files, loader, processor>>
      /\ UNCHANGED <<metrics.ack, metrics.rejected, metrics.dead, ui.revision>>
    BY DEF DropRejected, PublishSettings, PublishOpens, NothingSettled, Typed, UiThreads, Shared
<1>2. inputs' \in Seq(Events) /\ SameReloads
    BY SameQueue DEF DropRejected, PublishSettings, PublishOpens, NothingSettled, Typed
<1>3. ui' \in UiThreads /\ metrics' \in Shared
    <2>1. ui.pending # NoReload => ui.pending.snapshot \in Snapshots
        BY DEF Typed, UiThreads, Reloads
    <2>2. metrics' \in Shared
        BY DEF DropRejected, PublishSettings, PublishOpens, NothingSettled, Typed, Shared
    <2>3. CASE DropRejected
        BY <2>3 DEF DropRejected, Typed, UiThreads, Shared
    <2>4. CASE PublishSettings
        BY <2>1, <2>4 DEF PublishSettings, Typed, UiThreads
    <2>5. CASE PublishOpens
        BY <2>5 DEF PublishOpens, Typed, UiThreads, Shared
    <2>6. CASE NothingSettled
        BY <2>6 DEF NothingSettled, Typed, UiThreads
    <2> QED
        BY <2>2, <2>3, <2>4, <2>5, <2>6
<1>4. Typed'
    BY <1>1, <1>2, <1>3 DEF Typed
<1>5. CASE DropRejected
    <2>1. /\ ui.at = "publish" /\ Outstanding /\ metrics.rejected = ui.pending.revision
          /\ ui'.at = "load" /\ ui'.pending = NoReload /\ ui'.published = ui.published
          /\ ~metrics'.pending
        BY <1>5 DEF DropRejected, Outstanding, Rejected, Typed, UiThreads, Shared
    <2>2. SlotInv'
        BY <2>1 DEF SlotInv, Outstanding, Sent
    <2>3. Sent /\ ~Sent' /\ ~Applied' /\ metrics.rejected = ui.revision
        BY <2>1 DEF Outstanding, Sent, Applied, SlotInv
    <2>4. ASSUME ~metrics.dead PROVE Transit' /\ PolicyFollows'
        <3>1. Queued = {} /\ ~Applying /\ metrics.ack # ui.revision
            BY <2>3, <2>4 DEF WorkerInv, Transit, Typed, UiThreads, Shared
        <3>2. ~Applied
            BY <3>1 DEF Applied, Applying
        <3>3. Transit'
            BY <1>1, <1>2, <2>3, <2>4, <3>1 DEF WorkerInv, Transit, SameReloads, Applying
        <3> QED
            BY <1>1, <2>1, <2>3, <2>4, <3>2, <3>3 DEF WorkerInv, PolicyFollows
    <2> QED
        BY <1>1, <1>4, <2>2, <2>4 DEF WorkerInv
<1>6. CASE PublishSettings
    <2>1. /\ ui.at = "publish" /\ Outstanding /\ metrics.ack = ui.pending.revision
          /\ metrics.rejected # ui.pending.revision
          /\ ui'.at = "open" /\ ui'.pending = NoReload /\ ui'.published = ui.pending.snapshot
          /\ UNCHANGED metrics
        BY <1>6 DEF PublishSettings, Outstanding, Rejected, Acknowledged, Typed, UiThreads
    <2>2. SlotInv'
        BY <2>1 DEF SlotInv, Outstanding, Sent
    <2>3. Sent /\ ~Sent' /\ ~Applied' /\ Applied /\ metrics.ack = ui.revision
        BY <2>1 DEF Outstanding, Sent, Applied, SlotInv
    <2>4. ASSUME ~metrics.dead PROVE Transit' /\ PolicyFollows'
        <3>1. Queued = {} /\ ~Applying
            BY <2>3, <2>4 DEF WorkerInv, Transit, Typed, UiThreads, Shared
        <3>2. Transit'
            BY <1>1, <1>2, <2>3, <2>4, <3>1 DEF WorkerInv, Transit, SameReloads, Applying
        <3> QED
            BY <1>1, <2>1, <2>3, <2>4, <3>2 DEF WorkerInv, PolicyFollows
    <2> QED
        BY <1>1, <1>4, <2>2, <2>4 DEF WorkerInv
<1>7. CASE PublishOpens
    <2>1. /\ ui.at = "open" /\ ui'.at = "load" /\ ~metrics'.pending
          /\ UNCHANGED <<ui.pending, ui.published>>
        BY <1>7 DEF PublishOpens, Typed, UiThreads, Shared
    <2>2. SlotInv'
        BY <1>1, <2>1 DEF SlotInv, Outstanding, Sent
    <2>3. WorkerInv'
        BY <1>1, <1>2, <2>1, WorkerUnmoved
    <2> QED
        BY <1>4, <2>2, <2>3
<1>8. CASE NothingSettled
    <2>1. /\ ui.at = "publish" /\ ui'.at = "load"
          /\ UNCHANGED <<metrics.pending, ui.pending, ui.published>>
        BY <1>8 DEF NothingSettled, Typed, UiThreads
    <2> QED
        BY <1>1, <1>2, <1>4, <2>1, WorkerUnmoved, SlotUnmoved
<1> QED
    BY <1>5, <1>6, <1>7, <1>8

-----------------------------------------------------------------------------
(* A snapshot is handed to the slot, stays deferred, or is refused.         *)
HandOffFrame ==
    /\ ui' \in UiThreads /\ metrics' \in Shared /\ inputs' \in Seq(Events)
    /\ SlotInv' /\ WorkerInv'

LEMMA HandOffKeeps ==
    ASSUME HandoffInv, NEW snapshot \in Snapshots, NEW rest \in Seq(Snapshots),
           ui.at = "load", HandOff(snapshot, rest), UNCHANGED processor
    PROVE  HandOffFrame
<1> USE DEF HandoffInv, HandOffFrame
<1>1. CASE Refuses(snapshot) \/ HandoffBusy
    <2>1. /\ UNCHANGED <<metrics, inputs>>
          /\ \E deferred \in Seq(Snapshots) : ui' = [ui EXCEPT !.at = "idle", !.deferred = deferred]
        <3>1. <<snapshot>> \in Seq(Snapshots)
            OBVIOUS
        <3> QED
            BY <1>1, <3>1 DEF HandOff, KeepDeferred
    <2>2. /\ ui' \in UiThreads /\ ui'.at = "idle"
          /\ UNCHANGED <<ui.pending, ui.published, ui.revision>>
        BY <2>1 DEF Typed, UiThreads
    <2> QED
        BY <2>1, <2>2, WorkerUnmoved, SlotUnmoved DEF SameReloads, Queued, Typed
<1>2. CASE ~Refuses(snapshot) /\ ~HandoffBusy
    <2> DEFINE reload == Reload(ui.revision + 1, snapshot)
    <2>1. reload \in Reloads /\ reload.revision = ui.revision + 1 /\ reload.snapshot = snapshot
        BY DEF Reload, Reloads, Typed, UiThreads
    <2> HIDE DEF reload
    <2>2. /\ ui' = [ui EXCEPT !.at = "send", !.deferred = rest, !.pending = reload]
          /\ metrics' = [metrics EXCEPT !.pending = TRUE]
          /\ inputs' = NewEpoch(inputs)
        BY <1>2 DEF HandOff, reload
    <2>3. /\ ui' \in UiThreads /\ metrics' \in Shared
          /\ ui'.at = "send" /\ ui'.pending = reload /\ metrics'.pending
          /\ UNCHANGED <<ui.published, ui.revision>>
          /\ UNCHANGED <<metrics.ack, metrics.rejected, metrics.dead>>
        BY <2>1, <2>2 DEF Typed, UiThreads, Shared
    <2>4. inputs' \in Seq(Events) /\ SameReloads
        BY <2>2, SameQueue DEF Typed
    <2>5. ~Outstanding /\ AcceptsReload(ui.published, snapshot)
        BY <1>2 DEF HandoffBusy, Refuses, Outstanding
    <2>6. Outstanding' /\ ~Sent' /\ ~Sent /\ ~Applied /\ ~Applied'
        BY <2>1, <2>3, <2>5, NoReloadIsNone DEF Outstanding, Sent, Applied
    <2>7. SlotInv'
        BY <2>1, <2>3, <2>5, <2>6 DEF SlotInv
    <2>8. ASSUME ~metrics.dead PROVE Transit' /\ PolicyFollows'
        <3>1. Queued = {} /\ ~Applying
            BY <2>6, <2>8 DEF WorkerInv, Transit
        <3> QED
            BY <2>3, <2>4, <2>6, <2>8, <3>1 DEF WorkerInv, Transit, PolicyFollows, SameReloads, Applying
    <2> QED
        BY <2>3, <2>4, <2>7, <2>8 DEF WorkerInv
<1> QED
    BY <1>1, <1>2

LEMMA LoadKeeps ==
    ASSUME HandoffInv, LoadSuperseded \/ LoadFailed \/ LoadArrived \/ NothingLoaded
    PROVE  HandoffInv'
<1> USE DEF HandoffInv
<1>1. ui.at = "load" /\ UNCHANGED <<files, processor>>
    BY DEF LoadSuperseded, LoadFailed, LoadArrived, NothingLoaded
<1>2. loader' \in Loaders
    <2>1. <<>> \in Seq([content : Contents, ok : BOOLEAN])
        OBVIOUS
    <2> QED
        BY <2>1 DEF LoadSuperseded, LoadFailed, LoadArrived, NothingLoaded, PollResult, Requested,
           Typed, Loaders
<1>3. ui.deferred \in Seq(Snapshots) /\ (ui.deferred # <<>> => ui.deferred[1] \in Snapshots)
    BY DEF Typed, UiThreads
<1>4. <<>> \in Seq(Snapshots)
    OBVIOUS
<1>5. HandOffFrame
    <2>1. ASSUME ui' = [ui EXCEPT !.at = "idle"] \/ ui' = [ui EXCEPT !.at = "idle", !.deferred = <<>>],
                 UNCHANGED <<metrics, inputs>>
          PROVE  HandOffFrame
        <3>1. /\ ui' \in UiThreads /\ ui'.at = "idle"
              /\ UNCHANGED <<ui.pending, ui.published, ui.revision>>
            BY <1>4, <2>1 DEF Typed, UiThreads
        <3> QED
            BY <1>1, <2>1, <3>1, WorkerUnmoved, SlotUnmoved DEF SameReloads, Queued, Typed, HandOffFrame
    <2>2. CASE LoadFailed
        BY <2>1, <2>2 DEF LoadFailed
    <2>3. CASE LoadArrived
        <3>1. Snapshot(loader.reply[1].content) \in Snapshots
            <4>1. loader.reply \in Seq([content : Contents, ok : BOOLEAN]) /\ loader.reply # <<>>
                BY <2>3 DEF LoadArrived, HasReply, Typed, Loaders
            <4>2. loader.reply[1] \in [content : Contents, ok : BOOLEAN]
                BY <4>1, First
            <4> QED
                BY <4>2 DEF Snapshot, Snapshots, Contents
        <3> QED
            BY <1>1, <1>3, <2>3, <3>1, HandOffKeeps DEF LoadArrived
    <2>4. CASE LoadSuperseded \/ NothingLoaded
        BY <1>1, <1>3, <1>4, <2>1, <2>4, HandOffKeeps DEF LoadSuperseded, NothingLoaded
    <2> QED
        BY <2>2, <2>3, <2>4
<1> QED
    BY <1>1, <1>2, <1>5 DEF HandOffFrame, Typed

LEMMA SendReloadKeeps ==
    ASSUME HandoffInv, SendReload
    PROVE  HandoffInv'
<1> USE DEF HandoffInv
<1>1. UNCHANGED <<files, loader, processor>> /\ ui.at = "send"
    BY DEF SendReload
<1>2. /\ ui.pending \in Reloads /\ ui.pending.snapshot \in Snapshots
      /\ Outstanding /\ ui.pending.revision = ui.revision + 1
      /\ <<ui.pending.snapshot>> \in Seq(Snapshots)
    BY <1>1 DEF SlotInv, Outstanding, Typed, UiThreads, Reloads
<1>3. ~Sent /\ ~Applied
    BY <1>1 DEF Sent, Applied
<1>4. CASE metrics.dead \/ Len(inputs) >= HandoffCapacity
    <2>1. /\ \E deferred \in {ui.deferred, <<ui.pending.snapshot>>} :
                ui' = [ui EXCEPT !.at = "idle", !.pending = NoReload, !.deferred = deferred]
          /\ metrics' = [metrics EXCEPT !.pending = FALSE]
          /\ inputs' = NewEpoch(inputs) \/ inputs' = inputs
        <3>1. CASE metrics.dead
            <4>1. ui' = [ui EXCEPT !.at = "idle", !.pending = NoReload, !.deferred = ui.deferred]
                BY <3>1 DEF SendReload, Typed, UiThreads
            <4> QED
                BY <3>1, <4>1 DEF SendReload
        <3>2. CASE ~metrics.dead
            BY <1>4, <3>2, HandoffAssumption DEF SendReload, Typed
        <3> QED
            BY <3>1, <3>2
    <2>2. /\ ui' \in UiThreads /\ metrics' \in Shared
          /\ ui'.at = "idle" /\ ui'.pending = NoReload /\ ~metrics'.pending
          /\ UNCHANGED <<ui.published, ui.revision>>
          /\ UNCHANGED <<metrics.ack, metrics.rejected, metrics.dead>>
        <3>1. PICK deferred \in {ui.deferred, <<ui.pending.snapshot>>} :
                 ui' = [ui EXCEPT !.at = "idle", !.pending = NoReload, !.deferred = deferred]
            BY <2>1
        <3>2. ui \in UiThreads /\ metrics \in Shared /\ deferred \in Seq(Snapshots)
            BY <1>2 DEF Typed, UiThreads
        <3>3. /\ ui' \in UiThreads /\ ui'.at = "idle" /\ ui'.pending = NoReload
              /\ UNCHANGED <<ui.published, ui.revision>>
            BY <3>1, <3>2 DEF UiThreads
        <3>4. /\ metrics' \in Shared /\ ~metrics'.pending
              /\ UNCHANGED <<metrics.ack, metrics.rejected, metrics.dead>>
            BY <2>1, <3>2 DEF Shared
        <3> QED
            BY <3>3, <3>4
    <2>3. inputs' \in Seq(Events) /\ SameReloads
        BY <2>1, SameQueue DEF Typed
    <2>4. ~Outstanding' /\ ~Sent' /\ ~Applied'
        BY <2>2 DEF Outstanding, Sent, Applied
    <2>5. Typed' /\ SlotInv'
        BY <1>1, <2>2, <2>3, <2>4 DEF Typed, SlotInv
    <2>6. ASSUME ~metrics.dead PROVE Transit' /\ PolicyFollows'
        <3>1. Queued = {} /\ ~Applying
            BY <1>3, <2>6 DEF WorkerInv, Transit
        <3> QED
            BY <1>1, <1>3, <2>2, <2>3, <2>4, <2>6, <3>1
               DEF WorkerInv, Transit, PolicyFollows, SameReloads, Applying
    <2> QED
        BY <1>1, <2>2, <2>5, <2>6 DEF WorkerInv
<1>5. CASE ~metrics.dead /\ ~(Len(inputs) >= HandoffCapacity)
    <2> DEFINE event == [kind |-> "reload", current |-> TRUE, reload |-> ui.pending]
    <2>1. event \in Events /\ event.kind = "reload" /\ event.reload = ui.pending
        BY <1>2 DEF Events, ReloadEvents
    <2> HIDE DEF event
    <2>2. /\ inputs' = Append(inputs, event)
          /\ ui' = [ui EXCEPT !.at = "idle", !.revision = ui.revision + 1]
          /\ UNCHANGED metrics
          /\ ui \in UiThreads /\ ui.revision + 1 \in Nat
        BY <1>5, HandoffAssumption DEF SendReload, event, Typed, UiThreads
    <2>3. /\ ui' \in UiThreads /\ ui'.at = "idle" /\ ui'.revision = ui.revision + 1
          /\ UNCHANGED <<ui.published, ui.pending>>
        BY <2>2 DEF UiThreads
    <2>4. /\ inputs' \in Seq(Events)
          /\ DOMAIN inputs' = DOMAIN inputs \cup {Len(inputs) + 1}
          /\ inputs'[Len(inputs) + 1] = event
          /\ \A i \in DOMAIN inputs : inputs'[i] = inputs[i]
        BY <2>1, <2>2 DEF Typed
    <2>5. Outstanding' /\ Sent'
        BY <1>2, <2>3 DEF Outstanding, Sent
    <2>6. Typed' /\ SlotInv'
        BY <1>1, <1>2, <2>2, <2>3, <2>4, <2>5 DEF Typed, SlotInv
    <2>7. /\ Queued = {} /\ ~Applying
          /\ metrics.ack <= ui.revision /\ metrics.rejected <= ui.revision
          /\ processor.revision <= ui.revision
        BY <1>3, <1>5 DEF WorkerInv, Transit
    <2>8. Queued' = {Len(inputs) + 1}
        BY <2>1, <2>4, <2>7 DEF Queued
    <2>9. metrics.ack # ui'.revision /\ ~Applied'
        BY <1>1, <2>2, <2>3, <2>7 DEF Applied, Applying, Typed, UiThreads, Shared
    <2>10. Transit'
        BY <1>1, <2>1, <2>2, <2>3, <2>4, <2>5, <2>7, <2>8
           DEF Transit, Applying, Typed, UiThreads, Shared, Processors
    <2>11. PolicyFollows'
        BY <1>1, <1>3, <1>5, <2>3, <2>9 DEF WorkerInv, PolicyFollows
    <2> QED
        BY <1>1, <2>2, <2>6, <2>10, <2>11 DEF WorkerInv
<1> QED
    BY <1>4, <1>5

-----------------------------------------------------------------------------
(* The worker. *)
WorkerFrame ==
    /\ UNCHANGED <<files, loader, ui>>
    /\ processor' \in Processors /\ metrics' \in Shared /\ inputs' \in Seq(Events)
    /\ UNCHANGED metrics.pending

LEMMA WorkerStepSlot ==
    ASSUME HandoffInv, WorkerFrame
    PROVE  Typed' /\ SlotInv' /\ Sent' = Sent
BY DEF HandoffInv, WorkerFrame, Typed, SlotInv, Outstanding, Sent

LEMMA WorkerTakesKeeps ==
    ASSUME HandoffInv, WorkerTakes
    PROVE  HandoffInv'
<1> USE DEF HandoffInv
<1> DEFINE event == Head(inputs)
<1>1. /\ inputs \in Seq(Events) /\ inputs # <<>>
      /\ processor \in Processors /\ processor.at = "idle" /\ ~metrics.dead
      /\ UNCHANGED <<files, loader, ui, metrics>>
    BY DEF WorkerTakes, Typed
<1>2. /\ event \in Events /\ event = inputs[1] /\ 1 \in DOMAIN inputs
      /\ <<event>> \in Seq(Events) /\ <<event>> # <<>> /\ <<event>>[1] = event
    BY <1>1
<1>3. /\ inputs' \in Seq(Events)
      /\ \A i \in DOMAIN inputs' : i + 1 \in DOMAIN inputs /\ inputs'[i] = inputs[i + 1] /\ i \in Nat \ {0}
      /\ \A i \in DOMAIN inputs : i # 1 => i - 1 \in DOMAIN inputs'
    BY <1>1 DEF WorkerTakes
<1> HIDE DEF event
<1>4. PICK at \in {"idle", "check", "apply"} :
         /\ processor' = [processor EXCEPT !.at = at, !.event = <<event>>, !.acted = {}]
         /\ at = "apply" <=> event.kind = "reload" /\ event.reload.revision > processor.revision
    <2>1. event.kind \in {"key", "reload"}
        BY <1>2 DEF Events, KeyEvents, ReloadEvents
    <2> QED
        BY <2>1 DEF WorkerTakes, event
<1>5. /\ processor' \in Processors /\ processor'.at = at /\ processor'.event = <<event>>
      /\ processor'.acted = {} /\ UNCHANGED <<processor.revision, processor.policy>>
    BY <1>1, <1>2, <1>4 DEF Processors
<1>6. Typed' /\ SlotInv' /\ Sent' = Sent
    BY <1>1, <1>3, <1>5, WorkerStepSlot DEF WorkerFrame, Typed
<1>7. Transit /\ PolicyFollows /\ ~Applying
    BY <1>1 DEF WorkerInv, Applying
<1>8. Transit'
    <2>1. CASE event.kind = "reload"
        <3>1. Queued = {1} /\ event.reload = ui.pending /\ Sent
            BY <1>2, <1>7, <2>1 DEF Transit, Queued
        <3>2. Queued' = {}
            BY <1>3, <3>1 DEF Queued
        <3>3. at = "apply"
            <4>1. processor.revision < ui.revision /\ ui.pending.revision = ui.revision
                BY <1>7, <3>1 DEF Transit, SlotInv
            <4>2. processor.revision \in Nat /\ ui.revision \in Nat
                BY DEF Typed, UiThreads, Processors
            <4> QED
                BY <1>4, <2>1, <3>1, <4>1, <4>2
        <3> QED
            BY <1>1, <1>2, <1>5, <1>6, <1>7, <2>1, <3>1, <3>2, <3>3 DEF Transit
    <2>2. CASE event.kind # "reload"
        <3>1. ~Applying'
            BY <1>4, <1>5, <2>2 DEF Applying
        <3>2. \A i \in Queued' : i + 1 \in Queued /\ inputs'[i].reload = inputs[i + 1].reload
            BY <1>3 DEF Queued
        <3>3. \A i \in Queued' : inputs'[i].reload = ui.pending /\ \A j \in Queued' : j = i
            <4> SUFFICES ASSUME NEW i \in Queued', NEW j \in Queued'
                         PROVE  inputs'[i].reload = ui.pending /\ j = i
                OBVIOUS
            <4>1. i \in Nat /\ j \in Nat /\ i + 1 = j + 1
                BY <1>3, <1>7, <3>2 DEF Transit, Queued
            <4> QED
                BY <1>7, <3>2, <4>1 DEF Transit
        <3>4. Queued' # {} => Queued # {}
            BY <3>2
        <3> QED
            BY <1>1, <1>5, <1>6, <1>7, <3>1, <3>3, <3>4 DEF Transit
    <2> QED
        BY <2>1, <2>2
<1>9. PolicyFollows'
    BY <1>1, <1>4, <1>5, <1>6, <1>7 DEF PolicyFollows, Applied
<1> QED
    BY <1>1, <1>5, <1>6, <1>8, <1>9 DEF WorkerInv

LEMMA WorkerActsKeeps ==
    ASSUME HandoffInv, WorkerActs
    PROVE  HandoffInv'
<1> USE DEF HandoffInv
<1>1. /\ processor.at = "check" /\ ~metrics.dead /\ Transit /\ PolicyFollows
      /\ UNCHANGED <<files, loader, ui, metrics, inputs>>
    BY DEF WorkerActs, WorkerInv
<1>2. PICK acted \in {{}, {ui.published}} :
         /\ processor' = [processor EXCEPT !.at = "idle", !.acted = acted]
         /\ acted # {} => ~metrics.pending
    BY DEF WorkerActs, Acts
<1>3. processor \in Processors /\ ui.published \in Snapshots
    BY DEF Typed, UiThreads
<1>4. /\ processor' \in Processors /\ processor'.at = "idle" /\ processor'.acted = acted
      /\ UNCHANGED <<processor.revision, processor.policy>>
    BY <1>2, <1>3 DEF Processors
<1>5. Typed' /\ SlotInv' /\ Sent' = Sent
    BY <1>1, <1>4, WorkerStepSlot DEF WorkerFrame, Typed
<1>6. Queued' = Queued /\ ~Applying /\ ~Applying' /\ Applied' = Applied
    BY <1>1, <1>4, <1>5 DEF Queued, Applying, Applied
<1>7. Transit' /\ PolicyFollows'
    BY <1>1, <1>4, <1>5, <1>6 DEF Transit, PolicyFollows
<1>8. acted \subseteq {processor.policy}
    <2>1. ~metrics.pending => processor.policy = ui.published
        BY <1>1 DEF PolicyFollows, Applied, Sent, SlotInv
    <2> QED
        BY <1>2, <2>1
<1> QED
    BY <1>1, <1>4, <1>5, <1>7, <1>8 DEF WorkerInv

LEMMA WorkerAppliesKeeps ==
    ASSUME HandoffInv, WorkerApplies
    PROVE  HandoffInv'
<1> USE DEF HandoffInv
<1>1. /\ processor.at = "apply" /\ ~metrics.dead /\ Transit /\ processor.acted = {}
      /\ UNCHANGED <<files, loader, ui, metrics, inputs>>
    BY DEF WorkerApplies, WorkerInv
<1>2. /\ Applying /\ Sent /\ Queued = {}
      /\ processor.event[1].reload = ui.pending /\ ui.pending.snapshot \in Snapshots
    BY <1>1 DEF Applying, Transit, Sent, Outstanding, Typed, UiThreads, Reloads
<1>3. /\ processor' \in Processors /\ processor'.at = "acknowledge"
      /\ processor'.policy = ui.pending.snapshot
      /\ UNCHANGED <<processor.revision, processor.event, processor.acted>>
    BY <1>2 DEF WorkerApplies, Typed, Processors
<1>4. Typed' /\ SlotInv' /\ Sent' = Sent
    BY <1>1, <1>3, WorkerStepSlot DEF WorkerFrame, Typed
<1>5. Queued' = Queued /\ Applying' /\ Applied'
    BY <1>1, <1>2, <1>3, <1>4 DEF Queued, Applying, Applied
<1>6. Transit' /\ PolicyFollows'
    BY <1>1, <1>2, <1>3, <1>4, <1>5 DEF Transit, PolicyFollows
<1> QED
    BY <1>1, <1>3, <1>4, <1>6 DEF WorkerInv

LEMMA WorkerSettlesKeeps ==
    ASSUME HandoffInv, WorkerAcknowledges \/ WorkerPanics
    PROVE  HandoffInv'
<1> USE DEF HandoffInv
<1>1. /\ processor.at \in {"check", "apply", "acknowledge"} /\ ~metrics.dead
      /\ Transit /\ PolicyFollows /\ processor.acted = {}
      /\ UNCHANGED <<files, loader, ui, inputs>>
    BY DEF WorkerAcknowledges, WorkerPanics, WorkerInv
<1>2. processor \in Processors /\ metrics \in Shared /\ ui.revision \in Nat
    BY DEF Typed, UiThreads
<1>3. CASE processor.at = "check"
    <2>1. PICK gives_up \in BOOLEAN : metrics' = [metrics EXCEPT !.dead = gives_up, !.rejected = metrics.rejected]
        BY <1>3 DEF WorkerAcknowledges, WorkerPanics
    <2>2. processor' = [processor EXCEPT !.at = "idle", !.revision = processor.revision]
        BY <1>3 DEF WorkerAcknowledges, WorkerPanics
    <2>3. /\ processor' \in Processors /\ metrics' \in Shared /\ processor'.at = "idle"
          /\ UNCHANGED <<processor.revision, processor.policy, processor.acted>>
          /\ UNCHANGED <<metrics.pending, metrics.ack, metrics.rejected>>
        BY <1>2, <2>1, <2>2 DEF Processors, Shared
    <2>4. Typed' /\ SlotInv' /\ Sent' = Sent
        BY <1>1, <2>3, WorkerStepSlot DEF WorkerFrame, Typed
    <2>5. Queued' = Queued /\ ~Applying' /\ ~Applying /\ Applied' = Applied
        BY <1>1, <1>3, <2>3, <2>4 DEF Queued, Applying, Applied
    <2>6. Transit' /\ PolicyFollows'
        BY <1>1, <2>3, <2>4, <2>5 DEF Transit, PolicyFollows
    <2> QED
        BY <1>1, <2>3, <2>4, <2>6 DEF WorkerInv
<1>4. CASE processor.at \in {"apply", "acknowledge"}
    <2>1. /\ Sent /\ Queued = {} /\ Applying
          /\ processor.event[1].reload.revision = ui.revision
          /\ metrics.ack < ui.revision /\ metrics.rejected < ui.revision
        BY <1>1, <1>4 DEF Applying, Transit, SlotInv
    <2>2. /\ processor' = [processor EXCEPT !.at = "idle", !.revision = ui.revision]
          /\ \/ WorkerAcknowledges /\ metrics' = [metrics EXCEPT !.ack = ui.revision]
             \/ /\ processor.at = "apply"
                /\ \E gives_up \in BOOLEAN :
                      metrics' = [metrics EXCEPT !.dead = gives_up, !.rejected = ui.revision]
        BY <1>4, <2>1 DEF WorkerAcknowledges, WorkerPanics
    <2>3. /\ processor' \in Processors /\ processor'.at = "idle" /\ processor'.revision = ui.revision
          /\ UNCHANGED <<processor.policy, processor.acted>>
        BY <1>2, <2>2 DEF Processors
    <2>4. /\ metrics' \in Shared /\ UNCHANGED metrics.pending
          /\ \/ /\ processor.at = "acknowledge" /\ metrics'.ack = ui.revision
                /\ metrics'.rejected = metrics.rejected
             \/ /\ processor.at = "apply" /\ metrics'.rejected = ui.revision
                /\ metrics'.ack = metrics.ack
        BY <1>2, <2>2 DEF Shared, WorkerAcknowledges
    <2>5. Typed' /\ SlotInv' /\ Sent' = Sent
        BY <1>1, <2>3, <2>4, WorkerStepSlot DEF WorkerFrame, Typed
    <2>6. Queued' = {} /\ ~Applying' /\ Sent'
        BY <1>1, <2>1, <2>3, <2>5 DEF Queued, Applying
    <2>7. Transit'
        BY <1>1, <1>2, <2>1, <2>3, <2>4, <2>6 DEF Transit, Shared
    <2>8. Applied' = Applied
        BY <1>1, <1>2, <2>1, <2>3, <2>4, <2>6 DEF Applied, Shared
    <2>9. PolicyFollows'
        BY <1>1, <2>3, <2>8 DEF PolicyFollows
    <2> QED
        BY <1>1, <2>3, <2>5, <2>7, <2>9 DEF WorkerInv
<1> QED
    BY <1>1, <1>3, <1>4

-----------------------------------------------------------------------------
LEMMA HandoffStep == HandoffInv /\ [HandoffNext]_hvars => HandoffInv'
<1> SUFFICES ASSUME HandoffInv, [HandoffNext]_hvars PROVE HandoffInv'
    OBVIOUS
<1>1. CASE UNCHANGED hvars
    <2>1. Typed' /\ SlotInv'
        BY <1>1 DEF hvars, HandoffInv, Typed, SlotInv, Outstanding, Sent
    <2>2. WorkerInv'
        BY <1>1, WorkerUnmoved DEF hvars, SameReloads, Queued
    <2> QED
        BY <2>1, <2>2 DEF HandoffInv
<1>2. CASE HandoffNext
    BY <1>2, EnvironmentKeeps, LoaderKeeps, TimerTickKeeps, PublicationKeeps, LoadKeeps,
       SendReloadKeeps, WorkerTakesKeeps, WorkerActsKeeps, WorkerAppliesKeeps, WorkerSettlesKeeps
       DEF HandoffNext, UiStep, UiContinues, WorkerStep
<1> QED
    BY <1>1, <1>2

LEMMA HandoffInvAlways == HandoffSpec => []HandoffInv
BY InitHandoff, HandoffStep, PTL DEF HandoffSpec

(* For every queue and any number of saves, panics and gates: outside a     *)
(* transition the hooks and the worker follow one policy, and the worker    *)
(* acts on no key under another (publish_acknowledged_configuration,        *)
(* reject_faulted_configuration, InputProcessor::process).                  *)
THEOREM PolicyAlwaysEnforced == HandoffSpec => []PolicyEnforced
<1>1. HandoffInv => PolicyEnforced
    BY DEF HandoffInv, SlotInv, WorkerInv, PolicyFollows, Applied, Sent, PolicyEnforced
<1> QED
    BY <1>1, HandoffInvAlways, PTL

(* Whatever was deferred, queued, refused or rejected on the way, what is   *)
(* published is an accepted reload of what was published before             *)
(* (accepts_reload in enqueue_configuration): the slot it was compared with *)
(* is the one it replaces.                                                  *)
THEOREM SettingsNeverTakenBack == HandoffSpec => NeverTakenBack
<1>1. HandoffInv /\ [HandoffNext]_hvars => [AcceptsReload(ui.published, ui'.published)]_hvars
    <2> SUFFICES ASSUME HandoffInv, HandoffNext PROVE AcceptsReload(ui.published, ui'.published)
        OBVIOUS
    <2>1. \/ ui'.published = ui.published
          \/ PublishSettings /\ Outstanding /\ ui'.published = ui.pending.snapshot
        <3>1. ui \in UiThreads
            BY DEF HandoffInv, Typed
        <3> QED
            BY <3>1 DEF UiThreads, Outstanding, HandoffNext, Environment, Save, GateOpens, TypeKey,
               GateEnds, UiStep, TimerTick, ReloadConfigurationFromDisk, RequestShutdown,
               UiContinues, DropRejected, PublishSettings, PublishOpens, NothingSettled,
               LoadSuperseded, LoadFailed, LoadArrived, NothingLoaded, SendReload, HandOff,
               KeepDeferred, LoaderStep, LoaderTakes, LoaderReads, WorkerStep, WorkerTakes,
               WorkerActs, WorkerApplies, WorkerAcknowledges, WorkerPanics
    <2>2. AcceptsReload(ui.published, ui.published)
        BY DEF HandoffInv, Typed, UiThreads, Snapshots, AcceptsReload, AcceptsSources
    <2> QED
        BY <2>1, <2>2 DEF HandoffInv, SlotInv
<1> QED
    BY <1>1, HandoffInvAlways, PTL DEF HandoffSpec, NeverTakenBack

=============================================================================
