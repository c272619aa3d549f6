-------------------------- MODULE CorrectionGateProofs --------------------------
(***************************************************************************)
(* Proofs about CorrectionGate for every value of its constants. One lemma   *)
(* per operation says that it keeps a state sound; the step lemmas at the     *)
(* end go through the actions of Next.                                        *)
(***************************************************************************)
EXTENDS CorrectionGateProperties, TLAPS

(* The fields of sys and of a gate. *)

SysFields ==
  {"gate", "flight", "hook", "releases", "replay", "handBack", "posted", "late", "typed",
   "epoch", "observed", "forwarded", "cancelled", "hotkeySeq", "auto", "paused", "reason",
   "retained", "armed", "selLeft", "fault", "queue", "fg", "app", "ended", "latest"}

GateFields ==
  {"active", "cancelled", "token", "failed", "inFlight", "awaiting", "budget", "expired",
   "held", "origin", "hotkey"}

(* Messages the worker sends, of which at most one waits for the UI thread. *)
SentKinds == {"arm", "budget", "ack"}

(* What the state is made of, as far as the proofs need it: that a field exists is what
   lets an EXCEPT set it.                                                              *)
Shape(s) ==
  /\ DOMAIN s = SysFields
  /\ s.late = None \/ s.late.kind \in SentKinds
  /\ DOMAIN s.gate = GateFields /\ s.gate.active \in BOOLEAN
  /\ s.observed \in Nat /\ s.typed \in Nat /\ s.fg \in Places
  /\ s.gate.token \in Nat /\ s.gate.origin \in Places

(* The queue of the worker is a sequence within its bound. *)
QueueBounded(s) == (\E events : s.queue \in Seq(events)) /\ Len(s.queue) <= QueueCapacity

(* An active gate and a retained record exclude each other. *)
Excludes(s) == s.gate.active => s.retained = None

(* Sound states: what every operation keeps. *)
Sound(s) == Shape(s) /\ QueueBounded(s) /\ Excludes(s)

(* A full queue takes no event, so Enqueue keeps the bound. *)
LEMMA EnqueueBounded ==
  ASSUME NEW s, Shape(s), QueueBounded(s), NEW event PROVE QueueBounded(Enqueue(s, event))
<1> PICK events : s.queue \in Seq(events)
  BY DEF QueueBounded
<1> DEFINE item == [epoch |-> s.epoch, event |-> event]
<1>1. CASE Full(s)
  BY <1>1 DEF Shape, SysFields, QueueBounded, Enqueue
<1>2. CASE ~Full(s)
  <2>1. Enqueue(s, event).queue = Append(s.queue, item)
    BY <1>2 DEF Shape, SysFields, Enqueue
  <2>2. s.queue \in Seq(events \cup {item}) /\ Len(s.queue) \in Nat /\ Len(s.queue) < QueueCapacity
    BY <1>2, CapacityAssumption DEF Full
  <2> HIDE DEF item
  <2>3. Append(s.queue, item) \in Seq(events \cup {item}) /\ Len(Append(s.queue, item)) = Len(s.queue) + 1
    BY <2>2
  <2> QED
    BY <2>1, <2>2, <2>3, CapacityAssumption DEF QueueBounded
<1> QED
  BY <1>1, <1>2

(* Telling the worker (EngineState::enqueue) keeps a state sound. *)
LEMMA EnqueueSound ==
  ASSUME NEW s, Sound(s), NEW event PROVE Sound(Enqueue(s, event))
<1>1. QueueBounded(Enqueue(s, event))
  BY EnqueueBounded DEF Sound
<1> QED
  BY <1>1 DEF Sound, Shape, Excludes, SysFields, Enqueue

(* Posting a window message keeps a state sound. *)
LEMMA PostSound ==
  ASSUME NEW s, Sound(s), NEW message PROVE Sound(Post(s, message))
  BY DEF Sound, Shape, QueueBounded, Excludes, SysFields, Post

(* CorrectionGate::activate keeps a state sound where nothing is retained. *)
LEMMA ActivateSound ==
  ASSUME NEW s, Sound(s), NEW token \in Nat, s.retained = None PROVE Sound(Activate(s, token))
  BY DEF Sound, Shape, QueueBounded, Excludes, SysFields, Activate, ClosedGate, GateFields

(* The pause of record_gate_failure_without_worker keeps a state sound. *)
LEMMA RecordGateFailureSound ==
  ASSUME NEW s, Sound(s) PROVE Sound(RecordGateFailure(s))
  BY DEF Sound, Shape, QueueBounded, Excludes, SysFields, RecordGateFailure

(* break_correction_gate creates a record only as it closes the gate. *)
LEMMA BreakGateSound ==
  ASSUME NEW s, Sound(s), NEW cause
  PROVE  Sound(BreakGate(s, cause))
<1> DEFINE g == s.gate
           unchanged == cause = "internalFault" /\ g.origin = s.fg
           replayed == IF unchanged THEN g.held ELSE <<>>
           kept == IF unchanged THEN <<>> ELSE RetainedEdges(g.held)
           returned == IF unchanged THEN <<>> ELSE DeliveredReleases(g.held)
           retains == kept # <<>>
           broken ==
             [s EXCEPT !.replay = @ \o replayed, !.releases = @ \o returned,
                       !.retained = IF retains THEN NewRecord(s, kept, cause) ELSE @,
                       !.gate = [g EXCEPT !.active = FALSE, !.cancelled = TRUE,
                                          !.held = <<>>, !.hotkey = None],
                       !.cancelled = g.token, !.epoch = @ + 1]
           recorded == IF retains \/ g.failed THEN RecordGateFailure(broken) ELSE broken
           posted == IF returned \o replayed # <<>> THEN Post(recorded, HeldKeysReturn) ELSE recorded
           told == Enqueue(posted, DrainReady(g.token, FALSE))
<1> HIDE DEF kept, returned, replayed
<1>1. Sound(broken)
  BY DEF Sound, Shape, QueueBounded, Excludes, SysFields, GateFields
<1> HIDE DEF broken
<1>2. Sound(recorded)
  BY <1>1, RecordGateFailureSound
<1> HIDE DEF recorded
<1>3. Sound(posted)
  BY <1>2, PostSound
<1> HIDE DEF posted
<1>4. Sound(told)
  BY <1>3, EnqueueSound
<1> HIDE DEF told, retains
<1>5. Sound(Enqueue(told, RecoverInput(s.observed, FALSE)))
  BY <1>4, EnqueueSound
<1>6. BreakGate(s, cause) =
        IF ~g.active THEN s
        ELSE IF retains /\ cause \in HandBackCauses
             THEN Enqueue(told, RecoverInput(s.observed, FALSE)) ELSE told
  BY DEF BreakGate, told, posted, recorded, broken, retains, kept, returned, replayed
<1> QED
  BY <1>4, <1>5, <1>6

(* hold_gated_edge keeps a state sound, also when the edge breaks the gate. *)
LEMMA HoldEdgeSound ==
  ASSUME NEW s, Sound(s), NEW e PROVE Sound(HoldEdge(s, e))
<1> DEFINE holding == [s EXCEPT !.gate.held = Append(@, e)]
<1>1. Sound(holding)
  BY DEF Sound, Shape, QueueBounded, Excludes, SysFields, GateFields
<1> QED
  BY <1>1, BreakGateSound DEF HoldEdge

(* close_drained_gate keeps a state sound. *)
LEMMA CloseDrainedGateSound ==
  ASSUME NEW s, Sound(s) PROVE Sound(CloseDrainedGate(s))
<1> DEFINE hot == s.gate.hotkey
           seq == s.observed + 1
           closed == [s EXCEPT !.gate.active = FALSE, !.gate.hotkey = None]
           asked == [closed EXCEPT !.observed = seq, !.hotkeySeq = seq,
                                   !.forwarded = IF @ > seq THEN @ ELSE seq]
<1>1. Sound(closed)
  BY DEF Sound, Shape, QueueBounded, Excludes, SysFields, GateFields
<1>2. Sound(asked)
  BY <1>1 DEF Sound, Shape, QueueBounded, Excludes, SysFields
<1> QED
  BY <1>1, <1>2, EnqueueSound DEF CloseDrainedGate

(* A short drain joins a record only while its gate is broken, and otherwise breaks it. *)
LEMMA RetainFailedDrainSound ==
  ASSUME NEW s, Sound(s), NEW flight, NEW partly
  PROVE  Sound(RetainFailedDrain(s, flight, partly))
<1> DEFINE g == s.gate
           whole == [s EXCEPT !.gate.held = flight.edges \o @, !.gate.failed = TRUE]
           kept == RetainedEdges(flight.edges)
           returned == DeliveredReleases(flight.edges)
           released == IF returned = <<>> THEN s
                       ELSE Post([s EXCEPT !.releases = @ \o returned], HeldKeysReturn)
           late == IF s.retained # None THEN [released EXCEPT !.retained.events = kept \o @]
                   ELSE IF kept # <<>>
                   THEN [released EXCEPT !.retained = NewRecord(s, kept, "late")]
                   ELSE released
           saved == IF g.active THEN BreakGate(whole, "replaySubmit") ELSE late
           marked == IF saved.retained # None /\ partly
                     THEN [saved EXCEPT !.retained.uncertain = TRUE] ELSE saved
<1> HIDE DEF kept, returned
<1>1. Sound(whole)
  BY DEF Sound, Shape, QueueBounded, Excludes, SysFields, GateFields
<1>2. Sound(BreakGate(whole, "replaySubmit"))
  BY <1>1, BreakGateSound
<1>3. /\ Sound(released)
      /\ released.gate = s.gate /\ released.retained = s.retained
  <2>1. /\ Sound([s EXCEPT !.releases = @ \o returned])
        /\ [s EXCEPT !.releases = @ \o returned].gate = s.gate
        /\ [s EXCEPT !.releases = @ \o returned].retained = s.retained
        /\ DOMAIN [s EXCEPT !.releases = @ \o returned] = SysFields
    BY DEF Sound, Shape, QueueBounded, Excludes, SysFields
  <2>2. Sound(Post([s EXCEPT !.releases = @ \o returned], HeldKeysReturn))
    BY <2>1, PostSound
  <2>3. /\ Post([s EXCEPT !.releases = @ \o returned], HeldKeysReturn).gate = s.gate
        /\ Post([s EXCEPT !.releases = @ \o returned], HeldKeysReturn).retained = s.retained
    BY <2>1 DEF Post, SysFields
  <2> QED
    BY <2>2, <2>3
<1> HIDE DEF released, whole
<1>4. CASE g.active
  <2>1. Sound(saved)
    BY <1>2, <1>4
  <2> HIDE DEF saved
  <2>2. Sound(marked)
    <3>1. CASE ~(saved.retained # None /\ partly)
      BY <2>1, <3>1
    <3>2. CASE saved.retained # None /\ partly
      BY <2>1, <3>2 DEF Sound, Shape, QueueBounded, Excludes, SysFields
    <3> QED
      BY <3>1, <3>2
  <2> HIDE DEF marked
  <2>3. Sound(RecordGateFailure(marked))
    BY <2>2, RecordGateFailureSound
  <2> QED
    BY <2>3 DEF RetainFailedDrain, marked, saved, late, released, returned, kept, whole
<1>5. CASE ~g.active
  <2>1. Sound(late) /\ ~late.gate.active
    BY <1>3, <1>5 DEF Sound, Shape, QueueBounded, Excludes, SysFields
  <2> HIDE DEF late
  <2>2. Sound(saved) /\ ~saved.gate.active
    BY <2>1, <1>5
  <2> HIDE DEF saved
  <2>3. Sound(marked)
    BY <2>2 DEF Sound, Shape, QueueBounded, Excludes, SysFields
  <2> HIDE DEF marked
  <2>4. Sound(RecordGateFailure(marked))
    BY <2>3, RecordGateFailureSound
  <2> QED
    BY <2>4 DEF RetainFailedDrain, marked, saved, late, released, returned, kept, whole
<1> QED
  BY <1>4, <1>5


-------------------------------------------------------------------------------
(* The timer, and what it sends. *)

(* record_engine_fault keeps a state sound. *)
LEMMA RecordEngineFaultSound ==
  ASSUME NEW s, Sound(s) PROVE Sound(RecordEngineFault(s))
<1> DEFINE paused == IF s.auto THEN [s EXCEPT !.auto = FALSE, !.paused = TRUE, !.reason = "fault"]
                     ELSE s
           broken == BreakGate(paused, "internalFault")
<1>1. Sound(paused)
  BY DEF Sound, Shape, QueueBounded, Excludes, SysFields
<1> HIDE DEF paused
<1>2. Sound(broken)
  BY <1>1, BreakGateSound
<1> HIDE DEF broken
<1>3. Sound([broken EXCEPT !.fault = FALSE, !.epoch = @ + 1])
  BY <1>2 DEF Sound, Shape, QueueBounded, Excludes, SysFields
<1> QED
  BY <1>3 DEF RecordEngineFault, broken, paused

(* invalidate_for_hook_reinstall keeps a state sound. *)
LEMMA ReinstallHooksSound ==
  ASSUME NEW s, Sound(s) PROVE Sound(ReinstallHooks(s))
<1>1. Sound([s EXCEPT !.epoch = @ + 1])
  BY DEF Sound, Shape, QueueBounded, Excludes, SysFields
<1> QED
  BY <1>1, BreakGateSound DEF ReinstallHooks

(* expire_correction_gate keeps a state sound. *)
LEMMA ExpireGateSound ==
  ASSUME NEW s, Sound(s) PROVE Sound(ExpireGate(s))
  BY CloseDrainedGateSound, BreakGateSound DEF ExpireGate

(* Deleting the record, with the key-ups that still leave, keeps a state sound. *)
LEMMA DropRecordSound ==
  ASSUME NEW s, Sound(s) PROVE Sound(DropRecord(s))
<1> DEFINE returned == DeliveredReleases(s.retained.events)
           dropped == [s EXCEPT !.retained = None, !.armed = FALSE, !.releases = @ \o returned,
                                !.ended = @ \cup Ids(RetainedEdges(s.retained.events))]
<1> HIDE DEF returned
<1>1. Sound(dropped)
  BY DEF Sound, Shape, QueueBounded, Excludes, SysFields
<1> HIDE DEF dropped
<1> QED
  BY <1>1, PostSound DEF DropRecord, dropped, returned

(* expire_retained_input keeps a state sound. *)
LEMMA ExpireRetainedSound ==
  ASSUME NEW s, Sound(s) PROVE Sound(ExpireRetained(s))
  BY DropRecordSound, EnqueueSound DEF ExpireRetained

(* hand_back_stalled keeps a state sound. *)
LEMMA HandBackSound ==
  ASSUME NEW s, Sound(s) PROVE Sound(HandBack(s))
<1>1. Sound([s EXCEPT !.retained = None, !.armed = FALSE, !.replay = @ \o s.retained.events,
                      !.handBack = s.retained.token])
  BY DEF Sound, Shape, QueueBounded, Excludes, SysFields
<1> QED
  BY <1>1, PostSound DEF HandBack

(* Edges that reach the application change neither gate nor record. *)
LEMMA DeliverSound ==
  ASSUME NEW s, Sound(s), NEW edges, NEW seq PROVE Sound(Deliver(s, edges, seq))
  BY DEF Sound, Shape, QueueBounded, Excludes, SysFields, Deliver

(* send_pending_held_keys keeps a state sound. *)
LEMMA SendPendingSound ==
  ASSUME NEW s, Sound(s), NEW taken PROVE Sound(SendPending(s, taken))
<1> DEFINE events == BalancedReplay(s.replay \o s.releases)
           sent == SubSeq(events, 1, taken)
           done == [Deliver(s, sent, Unseen) EXCEPT
                      !.replay = <<>>, !.releases = <<>>, !.handBack = 0]
<1> HIDE DEF sent
<1>1. Sound(done)
  BY DeliverSound DEF Sound, Shape, QueueBounded, Excludes, SysFields
<1> HIDE DEF done
<1> QED
  BY <1>1, EnqueueSound DEF SendPending, done, sent

-------------------------------------------------------------------------------
(* The hooks. *)

(* A Space arms a gate only where nothing is retained. *)
LEMMA ForwardEdgeSound ==
  ASSUME NEW s, Sound(s), NEW e, NEW allowed PROVE Sound(ForwardEdge(s, e, allowed))
<1> DEFINE seq == s.observed + 1
           seen == [s EXCEPT !.observed = seq, !.typed = IF e.down THEN @ + 1 ELSE @,
                             !.hook = [edge |-> e, seq |-> seq, drained |-> FALSE]]
           arms == SpaceArmsGate(s, e, allowed)
           armed == IF arms THEN Activate(seen, seq) ELSE seen
           told == Enqueue(armed, KeyEvent(e, seq, 0, FALSE, s.fg))
<1>1. Sound(seen) /\ seen.retained = s.retained
  BY DEF Sound, Shape, QueueBounded, Excludes, SysFields
<1> HIDE DEF seen
<1>2. Sound(armed)
  <2>1. seq \in Nat
    BY DEF Sound, Shape
  <2> QED
    BY <1>1, <2>1, ActivateSound DEF SpaceArmsGate
<1> HIDE DEF armed
<1>3. Sound(told)
  BY <1>2, EnqueueSound
<1> HIDE DEF told
<1>4. Sound([told EXCEPT !.gate.failed = TRUE])
  BY <1>3 DEF Sound, Shape, QueueBounded, Excludes, SysFields, GateFields
<1>5. Sound(BreakGate([told EXCEPT !.gate.failed = TRUE], "workerQueue"))
  BY <1>4, BreakGateSound
<1> QED
  BY <1>3, <1>5 DEF ForwardEdge, told, armed, seen

(* An edge without a focused window keeps a state sound. *)
LEMMA PassUnseenSound ==
  ASSUME NEW s, Sound(s), NEW e PROVE Sound(PassUnseen(s, e))
  BY BreakGateSound, EnqueueSound, DeliverSound DEF PassUnseen

(* keyboard_hook_body keeps a state sound for a physical edge. *)
LEMMA HookEdgeSound ==
  ASSUME NEW s, Sound(s), NEW e, NEW allowed PROVE Sound(HookEdge(s, e, allowed))
<1> DEFINE rest == CancelSupersededRelease(s.releases, e)
           fresh == [s EXCEPT !.releases = rest, !.ended = @ \cup (Ids(s.releases) \ Ids(rest))]
           kept == IF s.gate.origin # s.fg THEN BreakGate(fresh, "focusChanged") ELSE fresh
           undone == IF e.down THEN [kept EXCEPT !.gate.hotkey = None] ELSE kept
           repeats == e.down /\ GatedKeyDownRepeats(s.gate.held, e.key, KeyDownAfter(s.app, e.key))
<1> HIDE DEF rest
<1>1. Sound(fresh)
  BY DEF Sound, Shape, QueueBounded, Excludes, SysFields
<1> HIDE DEF fresh
<1>2. Sound(kept)
  BY <1>1, BreakGateSound
<1> HIDE DEF kept
<1>3. Sound(undone)
  BY <1>2 DEF Sound, Shape, QueueBounded, Excludes, SysFields, GateFields
<1> HIDE DEF undone, repeats
<1>4. Sound(PassUnseen(s, e)) /\ Sound(ForwardEdge(fresh, e, allowed))
  BY <1>1, PassUnseenSound, ForwardEdgeSound
<1>5. Sound(ForwardEdge(undone, e, allowed)) /\ Sound(HoldEdge(undone, [e EXCEPT !.rep = repeats]))
  BY <1>3, ForwardEdgeSound, HoldEdgeSound
<1> QED
  BY <1>4, <1>5 DEF HookEdge, undone, kept, fresh, rest, repeats

(* keyboard_hook_body keeps a state sound for a replayed edge. *)
LEMMA HookDrainedEdgeSound ==
  ASSUME NEW s, Sound(s) PROVE Sound(HookDrainedEdge(s))
<1> DEFINE e == s.flight.edges[s.flight.next]
           seq == s.observed + 1
           seen == [s EXCEPT !.observed = seq, !.flight.next = @ + 1,
                             !.hook = [edge |-> e, seq |-> seq, drained |-> TRUE]]
           told == Enqueue(seen, KeyEvent(e, seq, s.gate.token, FALSE, s.fg))
<1>1. Sound(seen) /\ Sound([s EXCEPT !.flight.next = @ + 1])
  BY DEF Sound, Shape, QueueBounded, Excludes, SysFields
<1> HIDE DEF seen
<1>2. Sound(told)
  BY <1>1, EnqueueSound
<1> HIDE DEF told
<1>3. Sound([told EXCEPT !.gate.failed = TRUE])
  BY <1>2 DEF Sound, Shape, QueueBounded, Excludes, SysFields, GateFields
<1>4. Sound(BreakGate([told EXCEPT !.gate.failed = TRUE], "workerQueue"))
  BY <1>3, BreakGateSound
<1>5. Sound(PassUnseen([s EXCEPT !.flight.next = @ + 1], e))
  BY <1>1, PassUnseenSound
<1> QED
  BY <1>2, <1>4, <1>5 DEF HookDrainedEdge, told, seen

(* keyboard_hook_body keeps a state sound for the fence. *)
LEMMA HookFenceSound ==
  ASSUME NEW s, Sound(s) PROVE Sound(HookFence(s))
<1> DEFINE g == s.gate
           passed == [s EXCEPT !.flight.next = @ + 1]
           fenced == [passed EXCEPT !.gate.inFlight = FALSE, !.gate.awaiting = TRUE]
           told == Enqueue(fenced, DrainReady(g.token, ~g.failed))
<1>1. Sound(passed)
  BY DEF Sound, Shape, QueueBounded, Excludes, SysFields
<1> HIDE DEF passed
<1>2. Sound(fenced)
  BY <1>1 DEF Sound, Shape, QueueBounded, Excludes, SysFields, GateFields
<1> HIDE DEF fenced
<1>3. Sound(told)
  BY <1>2, EnqueueSound
<1> HIDE DEF told
<1>4. Sound(BreakGate(passed, "downstreamHook")) /\ Sound(BreakGate(told, "workerQueue"))
  BY <1>1, <1>3, BreakGateSound
<1> QED
  BY <1>1, <1>3, <1>4 DEF HookFence, told, fenced, passed

(* The return of CallNextHookEx keeps a state sound. *)
LEMMA EdgePassedSound ==
  ASSUME NEW s, Sound(s) PROVE Sound(EdgePassed(s))
  BY DeliverSound DEF EdgePassed, Sound, Shape, QueueBounded, Excludes, SysFields

(* An edge that a later hook consumed keeps a state sound. *)
LEMMA EdgeConsumedSound ==
  ASSUME NEW s, Sound(s) PROVE Sound(EdgeConsumed(s))
<1> DEFINE h == s.hook
           gone == [s EXCEPT !.hook = None, !.ended = @ \cup {h.edge.id}]
           mine == s.gate.active /\ s.gate.token = h.seq
           cut == IF ~h.drained /\ mine THEN BreakGate(gone, "downstreamHook")
                  ELSE IF h.drained /\ s.gate.active
                  THEN [gone EXCEPT !.gate.cancelled = TRUE, !.gate.failed = TRUE,
                                    !.cancelled = s.gate.token]
                  ELSE gone
<1>1. Sound(gone)
  BY DEF Sound, Shape, QueueBounded, Excludes, SysFields
<1> HIDE DEF gone
<1>2. Sound([gone EXCEPT !.gate.cancelled = TRUE, !.gate.failed = TRUE, !.cancelled = s.gate.token])
  BY <1>1 DEF Sound, Shape, QueueBounded, Excludes, SysFields, GateFields
<1>3. Sound(cut)
  BY <1>1, <1>2, BreakGateSound
<1> HIDE DEF cut
<1> QED
  BY <1>3, EnqueueSound DEF EdgeConsumed, cut, gone

(* keyboard_hook_body keeps a state sound for the hotkey. *)
LEMMA HookHotkeySound ==
  ASSUME NEW s, Sound(s) PROVE Sound(HookHotkey(s))
<1> DEFINE seq == s.observed + 1
           seen == [s EXCEPT !.observed = seq, !.hotkeySeq = seq, !.typed = @ + 1]
<1>1. Sound([s EXCEPT !.gate.hotkey = IF @ = None THEN s.fg ELSE @])
  BY DEF Sound, Shape, QueueBounded, Excludes, SysFields, GateFields
<1>2. Sound(seen)
  BY DEF Sound, Shape, QueueBounded, Excludes, SysFields
<1> HIDE DEF seen
<1>3. Sound([seen EXCEPT !.armed = FALSE])
  BY <1>2 DEF Sound, Shape, QueueBounded, Excludes, SysFields
<1> QED
  BY <1>1, <1>2, <1>3, EnqueueSound DEF HookHotkey, seen

(* observe_mouse_button keeps a state sound. *)
LEMMA HookClickSound ==
  ASSUME NEW s, Sound(s), NEW cause PROVE Sound(HookClick(s, cause))
<1>1. Sound([s EXCEPT !.typed = @ + 1, !.observed = @ + 1, !.latest = Unseen])
  BY DEF Sound, Shape, QueueBounded, Excludes, SysFields
<1> QED
  BY <1>1, BreakGateSound, EnqueueSound DEF HookClick

(* A key another program injects keeps a state sound. *)
LEMMA HookInjectedKeySound ==
  ASSUME NEW s, Sound(s) PROVE Sound(HookInjectedKey(s))
<1>1. Sound(BreakGate(s, "externalInjection"))
  BY BreakGateSound
<1>2. Sound([BreakGate(s, "externalInjection") EXCEPT !.typed = @ + 1, !.observed = @ + 1,
                                                      !.latest = Unseen])
  BY <1>1 DEF Sound, Shape, QueueBounded, Excludes, SysFields
<1> QED
  BY <1>2, EnqueueSound DEF HookInjectedKey

-------------------------------------------------------------------------------
(* Messages of the worker. *)

(* acknowledge_correction_gate_drain keeps a state sound. *)
LEMMA AcknowledgeSound ==
  ASSUME NEW s, Sound(s), NEW old, NEW new, NEW fits PROVE Sound(Acknowledge(s, old, new, fits))
<1> DEFINE handed == [s EXCEPT !.gate.token = new, !.gate.failed = FALSE, !.gate.inFlight = FALSE,
                               !.gate.awaiting = FALSE, !.gate.budget = FALSE, !.cancelled = 0]
           done == [s EXCEPT !.gate.awaiting = FALSE, !.gate.budget = FALSE]
<1>1. (AckHandsOff(s, new, fits) => Sound(handed)) /\ Sound(done)
  BY DEF AckHandsOff, Sound, Shape, QueueBounded, Excludes, SysFields, GateFields
<1> HIDE DEF handed, done
<1>2. Sound(BreakGate(s, "deadline")) /\ Sound(CloseDrainedGate(done)) /\ Sound(Post(done, Release(old)))
  BY <1>1, BreakGateSound, CloseDrainedGateSound, PostSound
<1> QED
  BY <1>1, <1>2 DEF Acknowledge, handed, done

(* GATE_ARM_MESSAGE arms a gate only where nothing is retained. *)
LEMMA HandleSound ==
  ASSUME NEW s, Sound(s), NEW message, message.kind \in SentKinds
  PROVE  Sound(Handle(s, message))
<1>1. CASE message.kind = "arm"
  <2>1. ArmAllowed(s, message.token) => Sound(Activate(s, message.token))
    BY ActivateSound DEF ArmAllowed, Sound, Shape
  <2> QED
    BY <1>1, <2>1 DEF Handle
<1>2. CASE message.kind = "budget"
  <2>1. Sound([s EXCEPT !.gate.budget = TRUE])
    BY DEF Sound, Shape, QueueBounded, Excludes, SysFields, GateFields
  <2> QED
    BY <1>2, <2>1 DEF Handle
<1>3. CASE message.kind = "ack"
  BY <1>3, AcknowledgeSound DEF Handle
<1> QED
  BY <1>1, <1>2, <1>3 DEF SentKinds

(* finish_retained_recovery keeps a state sound. *)
LEMMA FinishRetainedSound ==
  ASSUME NEW s, Sound(s), NEW record, NEW sent, NEW requested
  PROVE  Sound(FinishRetained(s, record, sent, requested))
  BY DEF Sound, Shape, QueueBounded, Excludes, SysFields, FinishRetained


-------------------------------------------------------------------------------
(* The inductive invariant. *)

Inv == Sound(sys)

(* The agent starts in a sound state. *)
LEMMA InitSound == Init => Inv
<1> SUFFICES ASSUME Init PROVE Sound(sys)
  BY DEF Inv
<1>1. DOMAIN sys = SysFields
  BY DEF Init, SysFields
<1>2. sys.gate = ClosedGate /\ sys.late = None /\ sys.retained = None /\ sys.queue = <<>>
  BY DEF Init
<1>6. sys.observed = 0 /\ sys.typed = 0 /\ sys.fg \in Places
  BY KeyAssumption DEF Init, Places
<1>3. /\ DOMAIN ClosedGate = GateFields /\ ClosedGate.active = FALSE
      /\ ClosedGate.token = 0 /\ ClosedGate.origin \in Places
  BY DEF ClosedGate, GateFields, Places
<1>4. <<>> \in Seq({}) /\ Len(<<>>) = 0
  OBVIOUS
<1>5. QueueBounded(sys)
  BY <1>2, <1>4, CapacityAssumption DEF QueueBounded
<1>7. Shape(sys)
  <2>1. sys.gate.active \in BOOLEAN
    BY <1>2, <1>3
  <2>3. sys.gate.token \in Nat /\ sys.observed \in Nat /\ sys.typed \in Nat
    BY <1>2, <1>3, <1>6
  <2>2. sys.gate.origin \in Places /\ DOMAIN sys.gate = GateFields
    BY <1>2, <1>3
  <2> QED
    BY <1>1, <1>2, <1>6, <2>1, <2>2, <2>3 DEF Shape
<1>8. Excludes(sys)
  BY <1>2, <1>3 DEF Excludes
<1> QED
  BY <1>5, <1>7, <1>8 DEF Sound

(* A sent message, answered now or left waiting, keeps the invariant. *)
LEMMA SendSound ==
  ASSUME Inv, NEW message, message.kind \in SentKinds,
         \/ sys' = Handle(sys, message)
         \/ sys' = [sys EXCEPT !.late = message]
  PROVE  Inv'
<1>1. CASE sys' = Handle(sys, message)
  BY <1>1, HandleSound DEF Inv
<1>2. CASE sys' = [sys EXCEPT !.late = message]
  BY <1>2 DEF Inv, Sound, Shape, QueueBounded, Excludes, SysFields
<1> QED
  BY <1>1, <1>2

(* Every step of the UI thread keeps the invariant. *)
LEMMA UiThreadSound ==
  ASSUME Inv, UiThread PROVE Inv'
<1> USE DEF Inv
<1>1. CASE DownstreamHooks
  BY <1>1, EdgePassedSound, EdgeConsumedSound DEF DownstreamHooks
<1>2. CASE HandlePosted
  <2> DEFINE message == Head(sys.posted)
             s == [sys EXCEPT !.posted = Tail(@)]
  <2>1. Sound(s)
    BY DEF Sound, Shape, QueueBounded, Excludes, SysFields
  <2> HIDE DEF s
  <2>2. CASE sys' = s
    BY <2>1, <2>2
  <2>3. CASE \E cause : sys' = BreakGate(s, cause)
    BY <2>1, <2>3, BreakGateSound
  <2>4. CASE \E taken : sys' = SendPending(s, taken)
    BY <2>1, <2>4, SendPendingSound
  <2>5. CASE \E rest, flight : sys' = [s EXCEPT !.gate.held = rest, !.gate.inFlight = TRUE,
                                                !.flight = flight]
    <3> PICK rest, flight : sys' = [s EXCEPT !.gate.held = rest, !.gate.inFlight = TRUE,
                                             !.flight = flight]
      BY <2>5
    <3> QED
      BY <2>1 DEF Sound, Shape, QueueBounded, Excludes, SysFields, GateFields
  <2>6. StartDrain(s, message.token) => Inv'
    BY <2>2, <2>3, <2>5 DEF StartDrain
  <2>7. sys' = FailOpenGate(s, message.token, message.cause) => Inv'
    BY <2>2, <2>3 DEF FailOpenGate
  <2> QED
    BY <1>2, <2>4, <2>6, <2>7 DEF HandlePosted, s
<1>3. CASE SubmitNext
  BY <1>3, HookDrainedEdgeSound, HookFenceSound DEF SubmitNext
<1>4. CASE SubmitReturns
  <2>1. Sound([sys EXCEPT !.flight = None])
    BY DEF Sound, Shape, QueueBounded, Excludes, SysFields
  <2> QED
    BY <1>4, <2>1, RetainFailedDrainSound DEF SubmitReturns
<1>5. CASE TimerTick
  <2>0. PICK reinstall \in BOOLEAN, handsBack \in BOOLEAN :
          \E taken : sys' = SendPending(
                  LET checked == RecordEngineFault(sys)
                      hooked == IF reinstall THEN ReinstallHooks(checked) ELSE checked
                      expired == ExpireRetained(ExpireGate(hooked))
                  IN  IF handsBack /\ MayHandBack(expired) THEN HandBack(expired) ELSE expired,
                  taken)
    BY <1>5 DEF TimerTick
  <2> PICK taken : sys' = SendPending(
                  LET checked == RecordEngineFault(sys)
                      hooked == IF reinstall THEN ReinstallHooks(checked) ELSE checked
                      expired == ExpireRetained(ExpireGate(hooked))
                  IN  IF handsBack /\ MayHandBack(expired) THEN HandBack(expired) ELSE expired,
                  taken)
    BY <2>0
  <2> DEFINE checked == RecordEngineFault(sys)
             hooked == IF reinstall THEN ReinstallHooks(checked) ELSE checked
             expired == ExpireRetained(ExpireGate(hooked))
             back == IF handsBack /\ MayHandBack(expired) THEN HandBack(expired) ELSE expired
  <2>1. Sound(checked)
    BY RecordEngineFaultSound
  <2> HIDE DEF checked
  <2>2. Sound(hooked)
    BY <2>1, ReinstallHooksSound
  <2> HIDE DEF hooked
  <2>3. Sound(expired)
    BY <2>2, ExpireGateSound, ExpireRetainedSound
  <2> HIDE DEF expired
  <2>4. Sound(back)
    BY <2>3, HandBackSound
  <2> HIDE DEF back
  <2>5. Sound(SendPending(back, taken))
    BY <2>4, SendPendingSound
  <2> QED
    BY <2>5 DEF back, expired, hooked, checked
<1>6. CASE LateMessage
  <2>1. Sound([sys EXCEPT !.late = None]) /\ sys.late.kind \in SentKinds
    BY <1>6 DEF LateMessage, Sound, Shape, QueueBounded, Excludes, SysFields
  <2> QED
    BY <1>6, <2>1, HandleSound DEF LateMessage
<1> QED
  BY <1>1, <1>2, <1>3, <1>4, <1>5, <1>6 DEF UiThread

(* Whatever the user does keeps the invariant. *)
LEMMA UserSound ==
  ASSUME Inv, User PROVE Inv'
<1> USE DEF Inv
<1>1. CASE PhysicalEdge
  BY <1>1, HookEdgeSound DEF PhysicalEdge
<1>2. CASE HotkeyPressed
  BY <1>2, HookHotkeySound DEF HotkeyPressed
<1>3. CASE MouseButton
  BY <1>3, HookClickSound DEF MouseButton
<1>4. CASE InjectedKey
  BY <1>4, HookInjectedKeySound DEF InjectedKey
<1>5. CASE FocusMoves
  BY <1>5 DEF FocusMoves, Sound, Shape, QueueBounded, Excludes, SysFields, Places
<1>6. CASE OpenMenu
  BY <1>6, HookClickSound DEF OpenMenu
<1>7. CASE ToggleAuto
  BY <1>7 DEF ToggleAuto, Sound, Shape, QueueBounded, Excludes, SysFields
<1>8. CASE PrepareRecovery
  BY <1>8 DEF PrepareRecovery, Sound, Shape, QueueBounded, Excludes, SysFields
<1>9. CASE DiscardRetained
  <2>1. CASE sys' = [sys EXCEPT !.armed = FALSE]
    BY <2>1 DEF Sound, Shape, QueueBounded, Excludes, SysFields
  <2>2. CASE sys' = DropRecord(sys)
    BY <2>2, DropRecordSound
  <2> QED
    BY <1>9, <2>1, <2>2 DEF DiscardRetained
<1> QED
  BY <1>1, <1>2, <1>3, <1>4, <1>5, <1>6, <1>7, <1>8, <1>9 DEF User

(* The worker arms a gate only through its message, and it changes a record only where
   one is retained.                                                                     *)
LEMMA WorkerSound ==
  ASSUME Inv, Worker PROVE Inv'
<1> USE DEF Inv
<1>1. CASE sys' = sys
  BY <1>1
<1>2. CASE TakeEvent
  <2>1. sys' = [sys EXCEPT !.queue = Tail(@)] /\ sys.queue # <<>>
    BY <1>2 DEF TakeEvent
  <2>2. sys'.queue = Tail(sys.queue)
    BY <2>1 DEF Sound, Shape, SysFields
  <2>3. PICK events : sys.queue \in Seq(events)
    BY DEF Sound, QueueBounded
  <2>4. Tail(sys.queue) \in Seq(events) /\ Len(Tail(sys.queue)) = Len(sys.queue) - 1
    BY <2>1, <2>3
  <2>5. QueueBounded(sys')
    BY <2>2, <2>3, <2>4, CapacityAssumption DEF Sound, QueueBounded
  <2> QED
    BY <2>1, <2>5 DEF Sound, Shape, Excludes, SysFields
<1>3. CASE Finish \/ AckRefused \/ EndConversion
  <2>1. sys' = sys \/ \E message : sys' = Post(sys, message)
    BY <1>3 DEF Finish, AckRefused, EndConversion
  <2> QED
    BY <2>1, PostSound
<1>4. CASE SendAck
  <2> DEFINE message == [kind |-> "ack", token |-> worker.token, new |-> 0]
  <2>1. message.kind \in SentKinds
    BY DEF SentKinds
  <2>2. sys' = Handle(sys, message) \/ sys' = [sys EXCEPT !.late = message]
    BY <1>4 DEF SendAck, Send
  <2> HIDE DEF message
  <2> QED
    BY <2>1, <2>2, SendSound
<1>5. CASE AskBudget
  <2> DEFINE message == [kind |-> "budget", token |-> worker.token]
  <2>1. message.kind \in SentKinds
    BY DEF SentKinds
  <2>2. sys' = sys \/ sys' = Handle(sys, message) \/ sys' = [sys EXCEPT !.late = message]
    BY <1>5 DEF AskBudget, Send
  <2> HIDE DEF message
  <2> QED
    BY <1>1, <2>1, <2>2, SendSound
<1>6. CASE Handoff
  <2> DEFINE message == [kind |-> "ack", token |-> worker.token, new |-> worker.deferred.seq]
  <2>1. message.kind \in SentKinds
    BY DEF SentKinds
  <2>2. sys' = Handle(sys, message) \/ sys' = [sys EXCEPT !.late = message]
    BY <1>6 DEF Handoff, Send
  <2> HIDE DEF message
  <2> QED
    BY <2>1, <2>2, SendSound
<1>7. CASE ArmGate
  BY <1>1, <1>7, SendSound DEF ArmGate, Send, SentKinds
<1>8. CASE ClaimHotkey
  BY <1>8 DEF ClaimHotkey, Sound, Shape, QueueBounded, Excludes, SysFields
<1>9. CASE SelectionLeft
  BY <1>9 DEF SelectionLeft, Sound, Shape, QueueBounded, Excludes, SysFields
<1>10. CASE PauseAfterFailure
  <2> DEFINE reason == IF worker.panicked THEN "fault" ELSE "edit"
  <2>1. sys' = sys \/ sys' = [sys EXCEPT !.auto = FALSE, !.paused = TRUE, !.reason = reason,
                                         !.epoch = @ + 1]
    BY <1>10 DEF PauseAfterFailure
  <2> HIDE DEF reason
  <2>2. /\ DOMAIN sys' = DOMAIN sys /\ sys'.late = sys.late /\ sys'.gate = sys.gate
        /\ sys'.observed = sys.observed /\ sys'.typed = sys.typed /\ sys'.fg = sys.fg
        /\ sys'.queue = sys.queue /\ sys'.retained = sys.retained
    BY <2>1 DEF Sound, Shape, SysFields
  <2> QED
    BY <2>2 DEF Sound, Shape, QueueBounded, Excludes
<1>11. CASE MarkRecovering
  BY <1>11 DEF MarkRecovering, Sound, Shape, QueueBounded, Excludes, SysFields
<1>12. CASE ReplayRetained
  BY <1>12, DeliverSound DEF ReplayRetained
<1>13. CASE FinishRecovery
  BY <1>13, FinishRetainedSound DEF FinishRecovery
<1>14. CASE Resume
  BY <1>14 DEF Resume, Sound, Shape, QueueBounded, Excludes, SysFields
<1>15. Dispatch \/ GuardConversion \/ SourceSettles \/ CheckSource \/ GuardEdit \/ SendEdit
         \/ ReadCancelledGate \/ StartRecovery \/ RecheckRecovery \/ DecideResume
       => sys' = sys
  BY DEF WorkerOnly, Dispatch, GuardConversion, SourceSettles, CheckSource, GuardEdit, SendEdit,
         ReadCancelledGate, StartRecovery, RecheckRecovery, DecideResume
<1> QED
  BY <1>1, <1>2, <1>3, <1>4, <1>5, <1>6, <1>7, <1>8, <1>9, <1>10, <1>11, <1>12, <1>13, <1>14,
     <1>15 DEF Worker

(* Every step keeps the invariant. *)
LEMMA NextSound ==
  ASSUME Inv, [Next]_vars PROVE Inv'
<1> USE DEF Inv
<1>1. CASE Clock
  BY <1>1 DEF Clock, GateDeadlinePasses, RecordAges, Sound, Shape, QueueBounded, Excludes, SysFields, GateFields
<1>2. CASE Panic
  BY <1>2 DEF Panic, Sound, Shape, QueueBounded, Excludes, SysFields
<1>3. CASE UNCHANGED vars
  BY <1>3 DEF vars
<1> QED
  BY <1>1, <1>2, <1>3, UiThreadSound, UserSound, WorkerSound DEF Next

(* For every set of keys, targets and limits, and whatever SendInput, the hooks and the
   worker do: while a gate is active nothing is retained, so that breaking it replaces no
   record of an earlier gate (keyboard_hook_body, GATE_ARM_MESSAGE, break_correction_gate). *)
THEOREM GateExcludesRetainedAlways == Spec => []GateExcludesRetained
<1>1. Inv => GateExcludesRetained
  BY DEF Inv, Sound, Excludes, GateExcludesRetained
<1> QED
  BY InitSound, NextSound, <1>1, PTL DEF Spec

===============================================================================
