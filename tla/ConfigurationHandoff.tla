------------------------- MODULE ConfigurationHandoff -------------------------
(***************************************************************************)
(* How a saved configuration reaches the running agent. The loader thread reads *)
(* the files, the UI thread hands one snapshot at a time to the input worker and  *)
(* publishes it once the worker enforces it; keys typed meanwhile are dropped.      *)
(* A load may fail, a snapshot may be refused, deferred behind a correction gate or  *)
(* a full queue, or rejected by a worker that panicked while applying it.            *)
(*                                                                           *)
(* What a configuration says is abstracted to the number of the save that wrote it,   *)
(* the files it was read from and the generation of its packages. The messages of      *)
(* the UI thread run one at a time; the worker and the loader run between them.         *)
(***************************************************************************)
EXTENDS Integers, Sequences, SequencesExt, FiniteSetsExt

CONSTANTS
  Kinds,          \* what a save may leave: records [sources, generation, readable]
  MaxSaves, MaxKeys, MaxGates, MaxPanics,   \* bounds of the environment
  HandoffCapacity                           \* places in the queue to the worker

ASSUME HandoffAssumption ==
  /\ MaxSaves \in Nat /\ MaxKeys \in Nat /\ MaxGates \in Nat /\ MaxPanics \in Nat
  /\ HandoffCapacity \in Nat \ {0}
  /\ \A kind \in Kinds : kind.generation \in Nat /\ kind.readable \in BOOLEAN

VARIABLES
  files,       \* the configuration on disk
  loader,      \* RuntimeConfigurationLoader and its thread
  ui,          \* AppState
  metrics,     \* the ObserverMetrics both threads read
  inputs,      \* events queued to the worker; `current` until a new epoch began
  processor,   \* InputProcessor
  told,        \* the newest save of whose outcome the user was told
  wanted,      \* the newest save the agent was asked to load
  budget       \* what is left of the bounds

hvars == <<files, loader, ui, metrics, inputs, processor, told, wanted, budget>>

Unified == {"config.ini"}
Started == [version |-> 0, sources |-> {}, generation |-> 0]
NoReload == [revision |-> 0]
Reload(revision, snapshot) == [revision |-> revision, snapshot |-> snapshot]
Snapshot(content) == [version |-> content.version, sources |-> content.sources, generation |-> content.generation]

(* ConfigurationSources and PackageSource: a used file that disappeared and an older package
   store are no request to go back to the defaults. *)
AcceptsSources(old, next) == next = Unified \/ old \subseteq next
AcceptsReload(old, next) == AcceptsSources(old.sources, next.sources) /\ old.generation <= next.generation

HandoffInit ==
  /\ files = [version |-> 0, sources |-> {}, generation |-> 0, readable |-> TRUE]
  /\ loader = [requests |-> 0, reading |-> FALSE, reply |-> <<>>, inFlight |-> FALSE, refreshAgain |-> FALSE]
  /\ ui = [at |-> "idle", published |-> Started, pending |-> NoReload, deferred |-> <<>>, revision |-> 0,
           gate |-> FALSE, messages |-> 0]
  /\ metrics = [pending |-> FALSE, ack |-> 0, rejected |-> 0, dead |-> FALSE, shutdown |-> FALSE]
  /\ inputs = <<>>
  /\ processor = [at |-> "idle", event |-> <<>>, revision |-> 0, policy |-> Started, acted |-> {}]
  /\ told = 0 /\ wanted = 0
  /\ budget = [saves |-> MaxSaves, keys |-> MaxKeys, gates |-> MaxGates, panics |-> MaxPanics]

(* A new input epoch: what is queued is out of date. *)
NewEpoch(queue) == [i \in DOMAIN queue |-> [queue[i] EXCEPT !.current = FALSE]]

UiIdle == ui.at = "idle"
Spend(what) == budget[what] > 0 /\ budget' = [budget EXCEPT ![what] = @ - 1]

-------------------------------------------------------------------------------
(* The environment: saves, with or without the message that asks for a reload (a hand edit
   sends none), and correction gates or retained keys. *)
Save(kind, notifies) ==
  LET version == files.version + 1
  IN  /\ Spend("saves")
      /\ files' = [version |-> version, sources |-> kind.sources, generation |-> kind.generation,
                   readable |-> kind.readable]
      /\ IF notifies
         THEN wanted' = version /\ ui' = [ui EXCEPT !.messages = @ + 1]
         ELSE UNCHANGED <<wanted, ui>>
      /\ UNCHANGED <<loader, metrics, inputs, processor, told>>

GateOpens ==
  /\ UiIdle /\ ~ui.gate /\ ~metrics.pending /\ ~metrics.shutdown /\ Spend("gates")
  /\ ui' = [ui EXCEPT !.gate = TRUE]
  /\ UNCHANGED <<files, loader, metrics, inputs, processor, told, wanted>>

GateEnds ==
  /\ UiIdle /\ ui.gate
  /\ ui' = [ui EXCEPT !.gate = FALSE]
  /\ UNCHANGED <<files, loader, metrics, inputs, processor, told, wanted, budget>>

(* A key is queued with the epoch it was captured in; a full queue drops it and starts a new epoch. *)
TypeKey ==
  /\ UiIdle /\ ~metrics.dead /\ Spend("keys")
  /\ inputs' = IF Len(inputs) < HandoffCapacity
               THEN Append(inputs, [kind |-> "key", current |-> TRUE]) ELSE NewEpoch(inputs)
  /\ UNCHANGED <<files, loader, ui, metrics, processor, told, wanted>>

-------------------------------------------------------------------------------
(* The loader: one request and one reply at a time; a request during a load makes its result
   out of date, so the files are read once more. *)
Requested(l) == IF l.inFlight THEN [l EXCEPT !.refreshAgain = TRUE]
                ELSE [l EXCEPT !.inFlight = TRUE, !.requests = 1]

(* The message of a saved configuration; ignored while the agent shuts down. *)
ReloadConfigurationFromDisk ==
  /\ UiIdle /\ ui.messages > 0
  /\ ui' = [ui EXCEPT !.messages = @ - 1]
  /\ loader' = IF metrics.shutdown THEN loader ELSE Requested(loader)
  /\ UNCHANGED <<files, metrics, inputs, processor, told, wanted, budget>>

LoaderTakes ==
  /\ loader.requests = 1 /\ ~loader.reading
  /\ loader' = [loader EXCEPT !.requests = 0, !.reading = TRUE]
  /\ UNCHANGED <<files, ui, metrics, inputs, processor, told, wanted, budget>>

(* load_runtime_configuration; a panic answers as a failed read. *)
LoaderReads ==
  /\ loader.reading /\ loader.reply = <<>>
  /\ \E panics \in BOOLEAN :
       /\ IF panics THEN Spend("panics") ELSE UNCHANGED budget
       /\ loader' = [loader EXCEPT !.reading = FALSE,
                       !.reply = <<[content |-> files, ok |-> files.readable /\ ~panics]>>]
  /\ UNCHANGED <<files, ui, metrics, inputs, processor, told, wanted>>

-------------------------------------------------------------------------------
(* The UI thread's timer. First the fault of a stopped worker, then publication, which frees
   the slot, then what the loader or the deferred snapshot has to offer. *)
Settled == Max({metrics.ack, metrics.rejected})
HandoffBusy == ui.gate \/ ui.pending # NoReload \/ ui.revision - Settled >= 2

FaultClears == metrics.dead
TimerTick ==
  /\ UiIdle
  /\ ui' = [ui EXCEPT !.at = "publish", !.pending = IF FaultClears THEN NoReload ELSE @]
  /\ metrics' = IF FaultClears THEN [metrics EXCEPT !.pending = FALSE] ELSE metrics
  /\ UNCHANGED <<files, loader, inputs, processor, told, wanted, budget>>

Rejected(revision) == metrics.rejected = revision
(* Mutant: any settled revision is published. *)
AnySettled(revision) == Max({metrics.ack, metrics.rejected}) = revision
Acknowledged(revision) == metrics.ack = revision /\ ~Rejected(revision)

DropRejected ==
  /\ ui.at = "publish" /\ ui.pending # NoReload /\ Rejected(ui.pending.revision)
  /\ metrics' = [metrics EXCEPT !.pending = FALSE] /\ inputs' = NewEpoch(inputs)
  /\ told' = Max({told, ui.pending.snapshot.version})
  /\ ui' = [ui EXCEPT !.at = "load", !.pending = NoReload]
  /\ UNCHANGED <<files, loader, processor, wanted, budget>>

(* The settings are the new ones and keys captured before are out of date; the keys stay
   ignored until the next step. *)
PublishSettings ==
  /\ ui.at = "publish" /\ ui.pending # NoReload /\ Acknowledged(ui.pending.revision)
  /\ ui' = [ui EXCEPT !.at = "open", !.published = ui.pending.snapshot, !.pending = NoReload]
  /\ inputs' = NewEpoch(inputs) /\ told' = Max({told, ui.pending.snapshot.version})
  /\ UNCHANGED <<files, loader, metrics, processor, wanted, budget>>

PublishOpens ==
  /\ ui.at = "open"
  /\ metrics' = [metrics EXCEPT !.pending = FALSE]
  /\ ui' = [ui EXCEPT !.at = "load"]
  /\ UNCHANGED <<files, loader, inputs, processor, told, wanted, budget>>

NothingSettled ==
  /\ ui.at = "publish"
  /\ ui.pending = NoReload \/ ~(Rejected(ui.pending.revision) \/ Acknowledged(ui.pending.revision))
  /\ ui' = [ui EXCEPT !.at = "load"]
  /\ UNCHANGED <<files, loader, metrics, inputs, processor, told, wanted, budget>>

(* hand_off_configuration: a busy worker gets the snapshot on a later tick. *)
KeepDeferred(snapshot) == ui' = [ui EXCEPT !.at = "idle", !.deferred = <<snapshot>>]

(* Mutant: the sources of a reload are not compared. *)
RefusesDead(snapshot) == metrics.shutdown \/ metrics.dead
Refuses(snapshot) ==
  \/ metrics.shutdown \/ metrics.dead
  \/ ~AcceptsReload((IF ui.pending = NoReload THEN ui.published ELSE ui.pending.snapshot), snapshot)

(* enqueue_configuration, from the snapshot a load or an earlier tick left; `rest` is what stays
   deferred when it is queued. *)
HandOff(snapshot, rest) ==
  CASE Refuses(snapshot) ->
         /\ ui' = [ui EXCEPT !.at = "idle", !.deferred = rest]
         /\ told' = Max({told, snapshot.version})
         /\ UNCHANGED <<metrics, inputs>>
    [] ~Refuses(snapshot) /\ HandoffBusy -> KeepDeferred(snapshot) /\ UNCHANGED <<metrics, inputs, told>>
    [] OTHER ->
         /\ ui' = [ui EXCEPT !.at = "send", !.deferred = rest, !.pending = Reload(ui.revision + 1, snapshot)]
         /\ metrics' = [metrics EXCEPT !.pending = TRUE] /\ inputs' = NewEpoch(inputs)
         /\ UNCHANGED told

PollResult == loader' = [loader EXCEPT !.reply = <<>>, !.inFlight = FALSE]

(* RuntimeConfigurationLoader::poll *)
HasReply == loader.inFlight /\ loader.reply # <<>>

LoadSuperseded ==
  /\ ui.at = "load" /\ HasReply /\ loader.refreshAgain
  /\ loader' = Requested([loader EXCEPT !.reply = <<>>, !.inFlight = FALSE, !.refreshAgain = FALSE])
  /\ IF ui.deferred = <<>> THEN ui' = [ui EXCEPT !.at = "idle"] /\ UNCHANGED <<metrics, inputs, told>>
     ELSE HandOff(ui.deferred[1], <<>>)
  /\ UNCHANGED <<files, processor, wanted, budget>>

LoadFailed ==
  /\ ui.at = "load" /\ HasReply /\ ~loader.refreshAgain /\ ~loader.reply[1].ok
  /\ PollResult
  /\ ui' = [ui EXCEPT !.at = "idle", !.deferred = <<>>]
  /\ told' = Max({told, loader.reply[1].content.version})
  /\ UNCHANGED <<files, metrics, inputs, processor, wanted, budget>>

LoadArrived ==
  /\ ui.at = "load" /\ HasReply /\ ~loader.refreshAgain /\ loader.reply[1].ok
  /\ PollResult
  /\ HandOff(Snapshot(loader.reply[1].content), ui.deferred)
  /\ UNCHANGED <<files, processor, wanted, budget>>

NothingLoaded ==
  /\ ui.at = "load" /\ ~HasReply
  /\ IF ui.deferred = <<>> THEN ui' = [ui EXCEPT !.at = "idle"] /\ UNCHANGED <<metrics, inputs, told>>
     ELSE HandOff(ui.deferred[1], <<>>)
  /\ UNCHANGED <<files, loader, processor, wanted, budget>>

(* The send: a full queue leaves the snapshot deferred, a worker that is gone refuses it. *)
SendReload ==
  /\ ui.at = "send"
  /\ IF metrics.dead
     THEN /\ ui' = [ui EXCEPT !.at = "idle", !.pending = NoReload]
          /\ metrics' = [metrics EXCEPT !.pending = FALSE]
          /\ told' = Max({told, ui.pending.snapshot.version})
          /\ UNCHANGED inputs
     ELSE IF Len(inputs) < HandoffCapacity
     THEN /\ inputs' = Append(inputs, [kind |-> "reload", current |-> TRUE, reload |-> ui.pending])
          /\ ui' = [ui EXCEPT !.at = "idle", !.revision = @ + 1]
          /\ UNCHANGED <<metrics, told>>
     ELSE /\ ui' = [ui EXCEPT !.at = "idle", !.pending = NoReload, !.deferred = <<ui.pending.snapshot>>]
          /\ metrics' = [metrics EXCEPT !.pending = FALSE] /\ inputs' = NewEpoch(inputs)
          /\ UNCHANGED told
  /\ UNCHANGED <<files, loader, processor, wanted, budget>>

(* shutdown_blockers: Exit waits for the gate and for the worker to settle a reload. *)
MayExit == ~metrics.shutdown /\ ~ui.gate /\ (~metrics.pending \/ metrics.dead)
RequestShutdown ==
  /\ UiIdle /\ MayExit
  /\ metrics' = [metrics EXCEPT !.shutdown = TRUE]
  /\ UNCHANGED <<files, loader, ui, inputs, processor, told, wanted, budget>>

-------------------------------------------------------------------------------
(* The worker. It reads the epoch when it takes an event and the flag of a transition later. *)
WorkerTakes ==
  /\ processor.at = "idle" /\ ~metrics.dead /\ inputs # <<>>
  /\ LET event == Head(inputs)
         next == CASE event.kind = "reload" ->
                        IF event.reload.revision > processor.revision THEN "apply" ELSE "idle"
                   [] OTHER -> IF event.current THEN "check" ELSE "idle"
     IN  processor' = [processor EXCEPT !.at = next, !.event = <<event>>, !.acted = {}]
  /\ inputs' = Tail(inputs)
  /\ UNCHANGED <<files, loader, ui, metrics, told, wanted, budget>>

Acts == ~metrics.pending

(* A key of a transition is dropped; any other is acted on under the policy in force. *)
WorkerActs ==
  /\ processor.at = "check"
  /\ processor' = [processor EXCEPT !.at = "idle",
                     !.acted = IF Acts THEN {ui.published} ELSE {}]
  /\ UNCHANGED <<files, loader, ui, metrics, inputs, told, wanted, budget>>

(* apply_configuration_reload replaces the policy as a whole, after everything that can fail. *)
WorkerApplies ==
  /\ processor.at = "apply"
  /\ processor' = [processor EXCEPT !.at = "acknowledge", !.policy = processor.event[1].reload.snapshot]
  /\ UNCHANGED <<files, loader, ui, metrics, inputs, told, wanted, budget>>

WorkerAcknowledges ==
  /\ processor.at = "acknowledge"
  /\ processor' = [processor EXCEPT !.at = "idle", !.revision = processor.event[1].reload.revision]
  /\ metrics' = [metrics EXCEPT !.ack = processor.event[1].reload.revision]
  /\ UNCHANGED <<files, loader, ui, inputs, told, wanted, budget>>

(* A panic is contained: a reload being applied is rejected. The worker goes on, or gives up. *)
WorkerPanics ==
  /\ processor.at \in {"check", "apply"} /\ Spend("panics")
  /\ \E gives_up \in BOOLEAN :
       metrics' = [metrics EXCEPT !.dead = gives_up,
                     !.rejected = IF processor.at = "apply" THEN processor.event[1].reload.revision ELSE @]
  /\ processor' = [processor EXCEPT !.at = "idle",
                     !.revision = IF processor.at = "apply" THEN processor.event[1].reload.revision ELSE @]
  /\ UNCHANGED <<files, loader, ui, inputs, told, wanted>>

-------------------------------------------------------------------------------
Environment == (\E kind \in Kinds, notifies \in BOOLEAN : Save(kind, notifies)) \/ GateOpens \/ TypeKey
UiStep == TimerTick \/ ReloadConfigurationFromDisk \/ RequestShutdown
UiContinues ==
  \/ DropRejected \/ PublishSettings \/ PublishOpens \/ NothingSettled
  \/ LoadSuperseded \/ LoadFailed \/ LoadArrived \/ NothingLoaded \/ SendReload
LoaderStep == LoaderTakes \/ LoaderReads
WorkerStep == WorkerTakes \/ WorkerActs \/ WorkerApplies \/ WorkerAcknowledges

HandoffNext ==
  Environment \/ GateEnds \/ UiStep \/ UiContinues \/ LoaderStep \/ WorkerStep \/ WorkerPanics

HandoffSpec == HandoffInit /\ [][HandoffNext]_hvars

-------------------------------------------------------------------------------
(* While keys are not ignored for a transition, the settings the hooks use are those of the policy the   *)
(* worker enforces (publish_acknowledged_configuration, reject_faulted_configuration), and a key is acted *)
(* on only under that policy (InputProcessor::process: epoch and configuration_pending).                  *)
PolicyEnforced ==
  /\ ~metrics.pending /\ ~metrics.dead => processor.policy = ui.published
  /\ processor.acted \subseteq {processor.policy}

(* Neither a vanished file nor an older package store takes the agent's settings back, whatever was       *)
(* loaded, deferred or queued before (accepts_reload in enqueue_configuration).                           *)
NeverTakenBack == [][AcceptsReload(ui.published, ui'.published)]_hvars
===============================================================================
