----------------------- MODULE CorrectionGateProperties -----------------------
(***************************************************************************)
(* What the correction gate promises about the keys it swallows, about the   *)
(* edit it makes room for, and about the record of a gate that was broken.    *)
(***************************************************************************)
EXTENDS CorrectionGate

(* Edges the agent or a hook has and the application does not have yet. *)
InFlight == IF sys.flight = None THEN {}
            ELSE {sys.flight.edges[i].id : i \in sys.flight.next..Len(sys.flight.edges)}

Swallowed ==
  Ids(sys.gate.held) \cup InFlight \cup Ids(sys.releases) \cup Ids(sys.replay)
    \cup (IF sys.hook = None THEN {} ELSE {sys.hook.edge.id})
    \cup (IF sys.retained = None THEN {} ELSE Ids(sys.retained.events))

DownIds(edges) == {edges[i].id : i \in {i \in DOMAIN edges : edges[i].down}}

-------------------------------------------------------------------------------
(* Types. *)

(* The most edges a world has. *)
EdgeLimit == CHOOSE n \in {w.limits.edge : w \in Worlds} : \A w \in Worlds : w.limits.edge <= n
Edge == [id : 0..EdgeLimit, key : Keys, down : BOOLEAN, rep : BOOLEAN]
Places == Targets \cup {NoTarget}

GateType ==
  [active : BOOLEAN, cancelled : BOOLEAN, token : 0..sys.observed, failed : BOOLEAN,
   inFlight : BOOLEAN, awaiting : BOOLEAN, budget : BOOLEAN, expired : BOOLEAN,
   held : Seq(Edge), origin : Places, hotkey : Places \cup {None}]

RecordType ==
  [token : 1..sys.observed, target : Places, events : Seq(Edge), uncertain : BOOLEAN,
   recovering : BOOLEAN, auto : BOOLEAN, mark : 0..sys.typed,
   age : {"fresh", "expired", "overdue"}]

(* The state has its types, and the bounds of the code's buffers hold: the queue never
   exceeds INPUT_QUEUE_CAPACITY, nor the edges of a gate CORRECTION_GATE_CAPACITY.    *)
TypeOK ==
  /\ sys.gate \in GateType /\ Len(sys.gate.held) <= GateCapacity
  /\ sys.retained = None \/ sys.retained \in RecordType
  /\ \A edges \in {sys.releases, sys.replay, sys.app} : edges \in Seq(Edge)
  /\ sys.ended \subseteq 1..env.typed
  /\ sys.auto \in BOOLEAN /\ sys.paused \in BOOLEAN /\ sys.armed \in BOOLEAN
  /\ sys.reason \in {"none", "gateDrain", "edit", "fault"}
  /\ sys.fg \in Places
  /\ Len(sys.queue) <= QueueCapacity
  /\ sys.forwarded \in 0..sys.observed /\ sys.cancelled \in 0..sys.observed
  /\ worker.token \in 0..sys.observed /\ worker.resumes \in 0..MaxResumes

-------------------------------------------------------------------------------
(* Custody of the keys. *)

(* What the user typed of what the application received. *)
Delivered == Selected([i \in DOMAIN sys.app |-> sys.app[i].id], Nat \ {0})

(* The gate's keys as KeyCustody sees them. What the user asks to recover may have been
   typed before, and so may a key-up of a drain that SendInput took only partly.        *)
Custody ==
  INSTANCE KeyCustody WITH
    typed <- env.typed,
    custody <- Swallowed \ (Ids(sys.app) \cup sys.ended),
    passed <- Delivered,
    deleted <- sys.ended \ Ids(sys.app),
    again <- (IF worker.pc = "replay" /\ worker.event.event.explicit
              THEN Ids(worker.record.events) ELSE {})
             \cup (IF "drain" \in Shortfalls THEN Ids(sys.releases) ELSE {})

(* The agent implements KeyCustody: whatever the hooks, the drains, the recoveries and
   the timer do, and in whichever order, a swallowed edge is never lost, never typed
   twice, and never typed after it was deleted.                                        *)
CustodyKept == Custody!Spec

(* While a gate holds keys, no later key has overtaken them: what the application has is
   older than what is held or being replayed (hook, drain_correction_gate).             *)
GateKeepsOrder ==
  \A i \in Ids(sys.app), j \in Ids(sys.gate.held) \cup InFlight : i < j

(* Nothing held is on its way to the application. *)
Settled ==
  /\ sys.gate.held = <<>> /\ sys.flight = None /\ sys.hook = None
  /\ sys.releases = <<>> /\ sys.replay = <<>>
  /\ sys.retained # None => ~sys.retained.recovering

Latched == {key \in Keys \ env.pressed : KeyDownAfter(sys.app, key)}

(* Once everything held went where it goes, the application sees no key pressed that the
   user released, whether the gate drained, broke, or its keys are retained
   (split_delivered_key_releases, build_balanced_replay_inputs).                         *)
NoKeyLatched == Settled => Latched = {}

(* While a gate holds keys none overtakes them, and once all of them went where they go the
   application sees no key pressed that the user released, where SendInput takes what it is
   given (drain_correction_gate, split_delivered_key_releases).                          *)
KeysInOrder == GateKeepsOrder /\ (Shortfalls = {} => NoKeyLatched)

-------------------------------------------------------------------------------
(* The gate and the edit it makes room for. *)

(* A gate never holds keys beside a record of an earlier gate, so a new record never
   replaces one (the arming condition of the hook, GATE_ARM_MESSAGE).                *)
GateExcludesRetained == sys.gate.active => sys.retained = None

(* From the last look at its guard until its chunk is sent, an edit under its own gate
   sees no key-down reach the field, from the user or from a replay.                   *)
GateProtectsEdit ==
  worker.pc \in EditPcs /\ ActiveToken(sys) = worker.token /\ ActiveToken(sys') = worker.token
    => DownIds(sys'.app) = DownIds(sys.app)

(* Where the worker still decides about, or edits for, the gate of its token. *)
DecidingPcs == {"budget", "handoff", "guard", "settle", "armed"} \cup EditPcs

(* A drain starts when the worker is done with that gate's word, never under it: the
   release comes from end_conversion_gate or from the end of process.                 *)
DrainAfterDecision ==
  sys.flight = None /\ sys'.flight # None
    => worker.pc \notin DecidingPcs \/ worker.token # sys'.flight.token

(* The guard of an automatic edit is sound: when it lets a chunk through, the newest
   key-down the field received is the Space of the word, so the caret is behind it.   *)
EditGuardSound ==
  worker.pc = "edit" /\ worker'.pc = "send" /\ ~worker.forced
    => sys.latest = worker.token

(* An automatic edit has the field to itself: it begins behind the Space of its word, no key
   reaches the field while it is made, and no held key is let go before the worker is done
   with the word (execute_pending_conversion_inner, end_conversion_gate). The guard trusts that
   no SendInput of a recovery outlasts RETAINED_RECOVERY_GRACE.                          *)
EditProtected == [][GateProtectsEdit /\ DrainAfterDecision /\ (~SlowWorker => EditGuardSound)]_vars

-------------------------------------------------------------------------------
(* Records of broken gates. *)

(* A record that does not say delivery_uncertain, and that nobody is sending, holds no
   edge the application has received: an automatic recovery types nothing twice.       *)
CertainlyUntyped ==
  sys.retained # None /\ ~sys.retained.uncertain /\ ~sys.retained.recovering
    => Ids(sys.retained.events) \cap Ids(sys.app) = {}

(* A record ends in one piece: unless it was deleted, all of it reached the application
   or waits to be handed back.                                                          *)
RecordLeavesWhole ==
  [][ sys.retained # None /\ sys'.retained = None /\ sys'.ended = sys.ended
      => Ids(sys.retained.events) \subseteq Ids(sys'.app) \cup Ids(sys'.replay) ]_vars

(* A recovery nobody asked for starts only when nothing was typed after the keys it
   brings back (the checks before begin_retained_recovery).                         *)
AutomaticRecoveryInOrder ==
  [][ worker.pc = "recheck" /\ worker'.pc = "mark" /\ ~worker.event.event.explicit
        /\ sys.retained # None
      => \A i \in DownIds(sys.app), j \in DownIds(worker.record.events) : i < j ]_vars

(* The UI thread hands a record back past a busy worker only when nothing was typed
   after it (stalled_worker_may_hand_back).                                         *)
HandBackInOrder ==
  [][ LET new == DownIds(sys'.app) \ DownIds(sys.app)
      IN  sys.retained # None /\ sys'.retained = None /\ new # {}
          => \A i \in DownIds(sys.app), j \in new : i < j ]_vars

(* What comes back without being asked for comes back in order, whether the worker recovers it
   or the UI thread hands it back past a worker that is busy.                            *)
RecoveryInOrder == AutomaticRecoveryInOrder /\ HandBackInOrder

(* A record says what may have been typed of it, and ends in one piece, or its keys are
   deleted (finish_retained_recovery, retain_held_input).                                *)
RecordSound == []CertainlyUntyped /\ RecordLeavesWhole

-------------------------------------------------------------------------------
(* Liveness. The UI thread keeps working and hooks return; nothing is assumed of the
   worker, which may stop anywhere, as in a call of another program that never returns. *)
FairSpec == Spec /\ WF_vars(UiThread)

(* Every key the agent swallows leaves its custody, typed or deleted, even when the
   worker hangs for good: when time passes, the deadlines of the gate, the record and the
   recovery see to it.                                                                  *)
SwallowedKeysLeave ==
  WF_vars(Clock) => \A n \in 1..EdgeLimit : n \in Swallowed ~> n \notin Swallowed

(* "A Space that arms the correction gate is always released once the worker has handled
   it, whichever path it took": a worker that keeps going closes every gate, without its
   deadline.                                                                             *)
WorkerClosesGate ==
  WF_vars(Worker) /\ [](~sys.gate.expired) => (sys.gate.active ~> ~sys.gate.active)

(* Nothing stays behind: neither a key in the agent's custody, whatever the worker does, nor a
   gate, while the worker goes on.                                                       *)
NothingStaysHeld == SwallowedKeysLeave /\ WorkerClosesGate

===============================================================================
