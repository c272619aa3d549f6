---------------------------- MODULE CorrectionGate ----------------------------
(***************************************************************************)
(* The correction gate of the Windows agent (windows_agent.rs). A Space      *)
(* that may end a mistyped word arms the gate: until the worker has decided  *)
(* about the word and edited it, the keyboard hook swallows what the user    *)
(* types on and the UI thread replays it afterwards behind a fence. A gate    *)
(* that cannot finish is broken, and what it held is retained in memory for  *)
(* a recovery, handed back, or deleted when its lifetime ends.               *)
(*                                                                          *)
(* Two threads share the state. The UI thread runs the keyboard and mouse     *)
(* hooks, the window procedure and its 250 ms timer; the worker takes events  *)
(* from a bounded queue and talks back with posted and sent window messages.  *)
(* Every action is one uninterrupted piece of one of them: a hook body up to  *)
(* CallNextHookEx, a message handler, the worker between two reads of state    *)
(* the other thread writes.                                                  *)
(*                                                                          *)
(* Time is abstract: a deadline is a flag that an action of its own raises.    *)
(* Configuration reloads, privacy checks and the text of words are left out:  *)
(* where they decide, either answer is possible.                             *)
(***************************************************************************)
EXTENDS HeldKeys, FiniteSets

CONSTANTS
  Space,            \* the key whose key-down arms the gate
  Letters,          \* the other keys
  Targets,          \* input targets that can have the focus
  NoTarget,         \* no window has the focus
  None,             \* the absence of a record
  QueueCapacity,    \* INPUT_QUEUE_CAPACITY
  GateCapacity,     \* CORRECTION_GATE_CAPACITY
  MaxResumes,       \* automatic resumes left in the hour (policy D1)
  Worlds            \* what the environment may do, one of which a behaviour begins in

ASSUME CapacityAssumption ==
  QueueCapacity \in Nat \ {0} /\ GateCapacity \in Nat \ {0} /\ MaxResumes \in Nat
ASSUME KeyAssumption == Space \notin Letters /\ NoTarget \notin Targets /\ Targets # {}

Acts == {"edge", "any", "click", "inject", "consume", "focus", "hotkey", "tray", "reinstall",
         "panic"}

(* A world: the keys beside Space; what the hook's privacy state may allow; the SendInput calls
   that may insert less than they were given; whether a physical edge can reach the hook during
   SendInput; whether SendInput in the worker may outlast RETAINED_RECOVERY_GRACE or a choice
   from the tray menu; whether a sent message may time out and be handled later; and how often
   the environment acts: key edges, other acts by kind, and, as "any", these others together. *)
World ==
  [letters : SUBSET Letters, answers : SUBSET BOOLEAN, shortfalls : SUBSET {"drain", "return", "recovery"},
   edgesDuringSubmit : BOOLEAN, slowWorker : BOOLEAN, slowUi : BOOLEAN, limits : [Acts -> Nat]]
ASSUME WorldAssumption == Worlds \subseteq World /\ Worlds # {}

VARIABLES
  sys,     \* UI-thread state, shared metrics, the queue, and the field's input
  worker,  \* the input worker
  env      \* the user and other programs

vars == <<sys, worker, env>>

Keys == {Space} \cup Letters

(* What there is instead of None: the edge a hook passes on, the drain SendInput is at work on,
   the record of a broken gate (RetainedInput).                                               *)
Edges == [id : Nat, key : Keys, down : BOOLEAN, rep : BOOLEAN]
HookCalls == [edge : Edges, seq : Nat, drained : BOOLEAN]
Drains == [token : Nat, edges : Seq(Edges), cut : Nat, next : Nat]
Records ==
  [token : Nat, target : Targets \cup {NoTarget}, events : Seq(Edges), uncertain : BOOLEAN,
   recovering : BOOLEAN, auto : BOOLEAN, mark : Nat, age : {"fresh", "expired", "overdue"}]
ASSUME NoneAssumption == None \notin HookCalls /\ None \notin Drains /\ None \notin Records

PrivacyAnswers == env.world.answers
Shortfalls == env.world.shortfalls
EdgesDuringSubmit == env.world.edgesDuringSubmit
SlowWorker == env.world.slowWorker
SlowUi == env.world.slowUi

-------------------------------------------------------------------------------
(* Events of the worker's queue and messages of the window. *)

KeyEvent(e, seq, drain, hotkey, target) ==
  [kind |-> "key", key |-> e.key, down |-> e.down, seq |-> seq, drain |-> drain,
   hotkey |-> hotkey, target |-> target]
DrainReady(token, ok) == [kind |-> "drainReady", token |-> token, ok |-> ok]
RecoverInput(seq, explicit) == [kind |-> "recover", seq |-> seq, explicit |-> explicit]
HandedBack(token, full) == [kind |-> "handedBack", token |-> token, full |-> full]
Notice(kind) == [kind |-> kind]    \* "mouse", "external", "expired"

Release(token) == [kind |-> "release", token |-> token]
FailOpen(token, cause) == [kind |-> "failOpen", token |-> token, cause |-> cause]
HeldKeysReturn == [kind |-> "heldKeysReturn"]

(* Variant with the fault that the queue takes one event too many. *)
FullPastCapacity(s) == Len(s.queue) > QueueCapacity

(* EngineState::enqueue: the channel is bounded. *)
Full(s) == Len(s.queue) >= QueueCapacity

(* enqueue: a full queue drops the event and makes every queued one stale. *)
Enqueue(s, event) ==
  IF Full(s) THEN [s EXCEPT !.epoch = @ + 1]
  ELSE [s EXCEPT !.queue = Append(@, [epoch |-> s.epoch, event |-> event])]

Post(s, message) == [s EXCEPT !.posted = Append(@, message)]

(* Edges reach the application; seq is the number under which the worker hears of them,
   or Unseen. latest remembers it for the newest key-down the application received.      *)
Unseen == 0

Deliver(s, edges, seq) ==
  [s EXCEPT !.app = @ \o edges,
            !.latest = IF \E i \in DOMAIN edges : edges[i].down THEN seq ELSE @]

-------------------------------------------------------------------------------
(* The gate's own operations. *)

ClosedGate ==
  [active |-> FALSE, cancelled |-> FALSE, token |-> 0, failed |-> FALSE,
   inFlight |-> FALSE, awaiting |-> FALSE, budget |-> FALSE, expired |-> FALSE,
   held |-> <<>>, origin |-> NoTarget, hotkey |-> None]

ActiveToken(s) == IF s.gate.active THEN s.gate.token ELSE 0

(* CorrectionGate::activate and what its two callers set with it. *)
Activate(s, token) ==
  [s EXCEPT !.gate = [ClosedGate EXCEPT !.active = TRUE, !.token = token, !.origin = s.fg],
            !.cancelled = 0]

CanStartDrain(g, token) ==
  g.active /\ g.token = token /\ ~g.cancelled /\ ~g.inFlight /\ ~g.awaiting

(* record_gate_failure_without_worker *)
RecordGateFailure(s) ==
  IF s.auto THEN [s EXCEPT !.auto = FALSE, !.paused = TRUE, !.reason = "gateDrain"] ELSE s

HandBackCauses == {"deadline", "capacity", "workerQueue", "hookReinstall"}

NewRecord(s, events, cause) ==
  [token |-> s.gate.token, target |-> s.gate.origin, events |-> events,
   uncertain |-> cause = "downstreamHook", recovering |-> FALSE,
   auto |-> cause \in HandBackCauses, mark |-> s.typed, age |-> "fresh"]

(* break_correction_gate: key-ups of keys pressed before the gate leave at once, the
   rest is retained, or goes back unchanged after a contained fault while the input
   target is still the gate's.                                                      *)
BreakGate(s, cause) ==
  LET g == s.gate
      unchanged == cause = "internalFault" /\ g.origin = s.fg
      replayed == IF unchanged THEN g.held ELSE <<>>
      kept == IF unchanged THEN <<>> ELSE RetainedEdges(g.held)
      returned == IF unchanged THEN <<>> ELSE DeliveredReleases(g.held)
      retains == kept # <<>>
      broken ==
        [s EXCEPT !.replay = @ \o replayed, !.releases = @ \o returned,
                  !.retained = IF retains THEN NewRecord(s, kept, cause) ELSE @,
                  !.gate = [g EXCEPT !.active = FALSE, !.cancelled = TRUE,
                                     !.held = <<>>, !.hotkey = None],
                  !.cancelled = g.token, !.epoch = @ + 1]
      recorded == IF retains \/ g.failed THEN RecordGateFailure(broken) ELSE broken
      posted == IF returned \o replayed # <<>> THEN Post(recorded, HeldKeysReturn) ELSE recorded
      told == Enqueue(posted, DrainReady(g.token, FALSE))
  IN  IF ~g.active THEN s
      ELSE IF retains /\ cause \in HandBackCauses
           THEN Enqueue(told, RecoverInput(s.observed, FALSE)) ELSE told

(* hold_gated_edge: an edge the gate cannot take joins what it held, and breaks it. *)
HoldEdge(s, e) ==
  LET holding == [s EXCEPT !.gate.held = Append(@, e)]
  IN  IF s.gate.expired THEN BreakGate(holding, "deadline")
      ELSE IF Len(s.gate.held) >= GateCapacity THEN BreakGate(holding, "capacity")
      ELSE holding

(* close_drained_gate, with the deferred hotkey that may follow it. *)
CloseDrainedGate(s) ==
  LET hot == s.gate.hotkey
      seq == s.observed + 1
      closed == [s EXCEPT !.gate.active = FALSE, !.gate.hotkey = None]
      asked == [closed EXCEPT !.observed = seq, !.hotkeySeq = seq,
                              !.forwarded = IF @ > seq THEN @ ELSE seq]
  IN  IF hot = None \/ hot # s.fg THEN closed
      ELSE Enqueue(asked, KeyEvent([key |-> Space, down |-> TRUE], seq, s.gate.token, TRUE, hot))

(* retain_failed_drain: the batch of a short SendInput goes before what the gate still
   holds, or before what was retained when the gate broke meanwhile.                  *)
RetainFailedDrain(s, flight, partly) ==
  LET g == s.gate
      whole == [s EXCEPT !.gate.held = flight.edges \o @, !.gate.failed = TRUE]
      kept == RetainedEdges(flight.edges)
      returned == DeliveredReleases(flight.edges)
      released == IF returned = <<>> THEN s
                  ELSE Post([s EXCEPT !.releases = @ \o returned], HeldKeysReturn)
      late == IF s.retained # None THEN [released EXCEPT !.retained.events = kept \o @]
              ELSE IF kept # <<>>
              THEN [released EXCEPT !.retained = NewRecord(s, kept, "late")]
              ELSE released
      saved == IF g.active THEN BreakGate(whole, "replaySubmit") ELSE late
      marked == IF saved.retained # None /\ partly
                THEN [saved EXCEPT !.retained.uncertain = TRUE] ELSE saved
  IN  IF g.token # flight.token THEN s ELSE RecordGateFailure(marked)

-------------------------------------------------------------------------------
(* What the 250 ms timer does, in its order. *)

(* record_engine_fault: the fault's own pause comes before the gate's. *)
RecordEngineFault(s) ==
  LET paused == IF s.auto THEN [s EXCEPT !.auto = FALSE, !.paused = TRUE, !.reason = "fault"]
                ELSE s
      broken == BreakGate(paused, "internalFault")
  IN  IF s.fault THEN [broken EXCEPT !.fault = FALSE, !.epoch = @ + 1] ELSE s

(* invalidate_for_hook_reinstall: the epoch moves before the gate breaks. *)
ReinstallHooks(s) == BreakGate([s EXCEPT !.epoch = @ + 1], "hookReinstall")

(* Variant with the fault that a drained gate is closed whatever it holds. *)
ExpireGateWithHeld(s) ==
  IF ~s.gate.active \/ ~s.gate.expired THEN s
  ELSE IF s.gate.awaiting THEN CloseDrainedGate(s)
  ELSE BreakGate(s, "deadline")

(* expire_correction_gate: a drained gate that holds nothing more closes, another breaks. *)
ExpireGate(s) ==
  IF ~s.gate.active \/ ~s.gate.expired THEN s
  ELSE IF s.gate.awaiting /\ s.gate.held = <<>> THEN CloseDrainedGate(s)
  ELSE BreakGate(s, "deadline")

(* The key-ups that leave with a record that is deleted; the rest ends here. *)
DropRecord(s) ==
  LET returned == DeliveredReleases(s.retained.events)
      dropped == [s EXCEPT !.retained = None, !.armed = FALSE, !.releases = @ \o returned,
                           !.ended = @ \cup Ids(RetainedEdges(s.retained.events))]
  IN  IF returned = <<>> THEN dropped ELSE Post(dropped, HeldKeysReturn)

(* expire_retained_input: a record being sent has a grace past its lifetime. *)
ExpireRetained(s) ==
  IF s.retained = None THEN s
  ELSE IF s.retained.age = "overdue" \/ (s.retained.age = "expired" /\ ~s.retained.recovering)
  THEN Enqueue(DropRecord(s), Notice("expired"))
  ELSE s

EditPcs == {"edit", "send"}    \* the scope of edit_in_flight

(* worker_busy and not edit_in_flight; a contained panic has left both. *)
WorkerStalled == worker.pc \notin {"idle"} \cup EditPcs /\ ~worker.panicked

(* Variant with the fault that a record may be handed back while it is being sent. *)
MayHandBackBeingSent(s) ==
  /\ s.retained # None
  /\ s.retained.auto /\ ~s.retained.uncertain
  /\ WorkerStalled
  /\ s.typed = s.retained.mark
  /\ s.selLeft # s.retained.token
  /\ s.retained.target = s.fg

(* stalled_worker_may_hand_back; that two seconds passed is the caller's choice. *)
MayHandBack(s) ==
  /\ s.retained # None
  /\ s.retained.auto /\ ~s.retained.recovering /\ ~s.retained.uncertain
  /\ WorkerStalled
  /\ s.typed = s.retained.mark
  /\ s.selLeft # s.retained.token
  /\ s.retained.target = s.fg

(* hand_back_stalled: the record becomes the replay that leaves next. *)
HandBack(s) ==
  Post([s EXCEPT !.retained = None, !.armed = FALSE, !.replay = @ \o s.retained.events,
                 !.handBack = s.retained.token],
       HeldKeysReturn)

(* send_pending_held_keys: what SendInput did not take is gone with the queue. *)
SendPending(s, taken) ==
  LET events == BalancedReplay(s.replay \o s.releases)
      sent == SubSeq(events, 1, taken)
      done == [Deliver(s, sent, Unseen) EXCEPT
                 !.replay = <<>>, !.releases = <<>>, !.handBack = 0]
  IN  IF s.replay \o s.releases = <<>> THEN s
      ELSE IF s.handBack = 0 THEN done
      ELSE Enqueue(done, HandedBack(s.handBack, taken = Len(events)))

PendingLength(s) == Len(BalancedReplay(s.replay \o s.releases))

TakenCounts(s) == IF "return" \in Shortfalls THEN 0..PendingLength(s) ELSE {PendingLength(s)}

-------------------------------------------------------------------------------
(* The keyboard and the mouse hook. *)

(* Variant with the fault that neither a record nor a pause stops a Space. *)
SpaceArmsAnyway(s, e, allowed) == e.down /\ e.key = Space /\ allowed /\ ~s.gate.active

(* A Space that may arm a gate: should_arm_space_decision_gate, and nothing retained. *)
SpaceArmsGate(s, e, allowed) ==
  /\ e.down /\ e.key = Space /\ s.auto /\ allowed
  /\ ~s.gate.active /\ s.retained = None

(* An edge the gate does not hold: it gets a sequence number, a Space may arm a new
   gate, the worker is told, and CallNextHookEx follows (the hook record).         *)
ForwardEdge(s, e, allowed) ==
  LET seq == s.observed + 1
      seen == [s EXCEPT !.observed = seq, !.typed = IF e.down THEN @ + 1 ELSE @,
                        !.hook = [edge |-> e, seq |-> seq, drained |-> FALSE]]
      arms == SpaceArmsGate(s, e, allowed)
      armed == IF arms THEN Activate(seen, seq) ELSE seen
      told == Enqueue(armed, KeyEvent(e, seq, 0, FALSE, s.fg))
  IN  IF Full(armed) /\ arms THEN BreakGate([told EXCEPT !.gate.failed = TRUE], "workerQueue")
      ELSE told

(* Without a focused window an edge breaks the gate and passes on unseen. *)
PassUnseen(s, e) ==
  Deliver(Enqueue(BreakGate(s, "focusChanged"), Notice("external")), <<e>>, Unseen)

(* keyboard_hook_body on a physical edge, up to CallNextHookEx. *)
HookEdge(s, e, allowed) ==
  LET rest == CancelSupersededRelease(s.releases, e)
      fresh == [s EXCEPT !.releases = rest, !.ended = @ \cup (Ids(s.releases) \ Ids(rest))]
      kept == IF s.gate.origin # s.fg THEN BreakGate(fresh, "focusChanged") ELSE fresh
      undone == IF e.down THEN [kept EXCEPT !.gate.hotkey = None] ELSE kept
      repeats == e.down /\ GatedKeyDownRepeats(s.gate.held, e.key, KeyDownAfter(s.app, e.key))
  IN  CASE s.fg = NoTarget -> PassUnseen(s, e)
        [] s.fg # NoTarget /\ ~s.gate.active -> ForwardEdge(fresh, e, allowed)
        [] s.fg # NoTarget /\ s.gate.active /\ ~kept.gate.active -> ForwardEdge(undone, e, allowed)
        [] OTHER -> HoldEdge(undone, [e EXCEPT !.rep = repeats])

(* A replayed edge of a drain: it is forwarded and the worker is told, whatever became
   of its gate, and it never arms one.                                               *)
HookDrainedEdge(s) ==
  LET e == s.flight.edges[s.flight.next]
      seq == s.observed + 1
      seen == [s EXCEPT !.observed = seq, !.flight.next = @ + 1,
                        !.hook = [edge |-> e, seq |-> seq, drained |-> TRUE]]
      told == Enqueue(seen, KeyEvent(e, seq, s.gate.token, FALSE, s.fg))
  IN  IF s.fg = NoTarget THEN PassUnseen([s EXCEPT !.flight.next = @ + 1], e)
      ELSE IF Full(s) /\ s.gate.active
      THEN BreakGate([told EXCEPT !.gate.failed = TRUE], "workerQueue")
      ELSE told

(* The fence's key-up: everything before it went through the hooks. *)
HookFence(s) ==
  LET g == s.gate
      ours == g.active /\ g.token = s.flight.token
      passed == [s EXCEPT !.flight.next = @ + 1]
      fenced == [passed EXCEPT !.gate.inFlight = FALSE, !.gate.awaiting = TRUE]
      told == Enqueue(fenced, DrainReady(g.token, ~g.failed))
  IN  IF ~ours THEN passed
      ELSE IF g.cancelled THEN BreakGate(passed, "downstreamHook")
      ELSE IF Full(fenced) THEN BreakGate(told, "workerQueue") ELSE told

(* CallNextHookEx returned: the edge reached the application, or a hook of another
   program consumed it.                                                            *)
EdgePassed(s) ==
  [Deliver(s, <<s.hook.edge>>, s.hook.seq) EXCEPT !.forwarded = s.hook.seq, !.hook = None]

EdgeConsumed(s) ==
  LET h == s.hook
      gone == [s EXCEPT !.hook = None, !.ended = @ \cup {h.edge.id}]
      mine == s.gate.active /\ s.gate.token = h.seq
      cut == IF ~h.drained /\ mine THEN BreakGate(gone, "downstreamHook")
             ELSE IF h.drained /\ s.gate.active
             THEN [gone EXCEPT !.gate.cancelled = TRUE, !.gate.failed = TRUE,
                               !.cancelled = s.gate.token]
             ELSE gone
  IN  Enqueue(cut, Notice("external"))

(* The hotkey's key-down, which the hook swallows: deferred while a gate is active,
   else an explicit recovery when one was prepared, else a request to the worker.    *)
HookHotkey(s) ==
  LET seq == s.observed + 1
      seen == [s EXCEPT !.observed = seq, !.hotkeySeq = seq, !.typed = @ + 1]
  IN  IF s.gate.active
      THEN [s EXCEPT !.gate.hotkey = IF @ = None THEN s.fg ELSE @]
      ELSE IF s.retained = None
      THEN Enqueue(seen, KeyEvent([key |-> Space, down |-> TRUE], seq, 0, TRUE, s.fg))
      ELSE IF s.armed THEN Enqueue([seen EXCEPT !.armed = FALSE], RecoverInput(seq, TRUE))
      ELSE seen

(* observe_mouse_button: a click may move the caret, so the gate breaks. *)
HookClick(s, cause) ==
  Enqueue(BreakGate([s EXCEPT !.typed = @ + 1, !.observed = @ + 1, !.latest = Unseen], cause),
          Notice(IF cause = "mouse" THEN "mouse" ELSE "external"))

(* A key another program injects. *)
HookInjectedKey(s) ==
  Enqueue([BreakGate(s, "externalInjection") EXCEPT !.typed = @ + 1, !.observed = @ + 1,
                                                    !.latest = Unseen],
          Notice("external"))

-------------------------------------------------------------------------------
(* Messages the worker sends and waits for. *)

(* GATE_ARM_MESSAGE *)
ArmAllowed(s, token) ==
  /\ token # 0 /\ s.fg # NoTarget /\ ~s.gate.active /\ s.retained = None
  /\ s.auto \/ s.hotkeySeq = token
  /\ s.observed = token

(* GATE_HANDOFF_BUDGET_MESSAGE: fits says that the time left covers the conversion. *)
BudgetAllowed(s, token, fits) ==
  LET g == s.gate
  IN  fits /\ ~g.expired /\ g.active /\ ~g.cancelled /\ g.awaiting /\ g.token = token

(* GATE_DRAIN_ACK_MESSAGE: acknowledge_correction_gate_drain of token old, which the
   conversion of token new takes over (0: none).                                     *)
AckWaits(s, old) == s.gate.active /\ s.gate.token = old /\ s.gate.awaiting

AckTooLate(s, new) == s.gate.expired /\ (new # 0 \/ s.gate.held # <<>>)

AckHandsOff(s, new, fits) ==
  /\ s.observed = new /\ s.auto
  /\ ~s.gate.cancelled /\ s.gate.budget /\ fits

AckAccepted(s, old, new, fits) ==
  /\ AckWaits(s, old) /\ ~AckTooLate(s, new)
  /\ new # 0 => AckHandsOff(s, new, fits)

Acknowledge(s, old, new, fits) ==
  LET handed == [s EXCEPT !.gate.token = new, !.gate.failed = FALSE, !.gate.inFlight = FALSE,
                          !.gate.awaiting = FALSE, !.gate.budget = FALSE, !.cancelled = 0]
      done == [s EXCEPT !.gate.awaiting = FALSE, !.gate.budget = FALSE]
  IN  IF ~AckWaits(s, old) THEN s
      ELSE IF AckTooLate(s, new) THEN BreakGate(s, "deadline")
      ELSE IF new # 0 THEN (IF AckHandsOff(s, new, fits) THEN handed ELSE s)
      ELSE IF s.gate.held = <<>> THEN CloseDrainedGate(done)
      ELSE Post(done, Release(old))

(* A sent message has its effect at once when the UI thread answers in time, or later,
   when the worker no longer waits.                                                   *)
Handle(s, message) ==
  CASE message.kind = "arm" -> IF ArmAllowed(s, message.token) THEN Activate(s, message.token) ELSE s
    [] message.kind = "budget" -> IF BudgetAllowed(s, message.token, TRUE)
                                  THEN [s EXCEPT !.gate.budget = TRUE] ELSE s
    [] message.kind = "ack" -> Acknowledge(s, message.token, message.new, TRUE)

-------------------------------------------------------------------------------
(* Initial state and the actions of the UI thread. *)

Init ==
  /\ sys = [gate |-> ClosedGate, flight |-> None, hook |-> None, releases |-> <<>>,
            replay |-> <<>>, handBack |-> 0, posted |-> <<>>, late |-> None,
            typed |-> 0, epoch |-> 0, observed |-> 0, forwarded |-> 0, cancelled |-> 0,
            hotkeySeq |-> 0, auto |-> TRUE, paused |-> FALSE, reason |-> "none",
            retained |-> None, armed |-> FALSE, selLeft |-> 0, fault |-> FALSE,
            queue |-> <<>>, fg |-> CHOOSE t \in Targets : TRUE, app |-> <<>>, ended |-> {},
            latest |-> 0]
  /\ worker = [pc |-> "idle", event |-> None, armed |-> 0, released |-> 0, epoch |-> 0,
               target |-> NoTarget, pending |-> 0, deferred |-> None, token |-> 0,
               forced |-> FALSE, begun |-> FALSE, kept |-> 0, failed |-> 0, resumes |-> MaxResumes,
               record |-> None, sent |-> 0, panicked |-> FALSE]
  /\ \E world \in Worlds :
       env = [world |-> world, left |-> world.limits, pressed |-> {}, typed |-> 0, menu |-> 0]

Spend(act) ==
  /\ env.left[act] > 0 /\ env.left.any > 0
  /\ env' = [env EXCEPT !.left[act] = @ - 1, !.left.any = @ - 1]

(* The UI thread is between messages, and a sent message goes first; its hooks are free,
   between messages or inside SendInput.                                               *)
UiIdle == sys.hook = None /\ sys.flight = None /\ sys.late = None
HooksFree == sys.hook = None /\ (sys.flight # None => EdgesDuringSubmit)

PhysicalEdge ==
  /\ HooksFree /\ env.left.edge > 0
  /\ \E key \in {Space} \cup env.world.letters, down \in BOOLEAN, allowed \in PrivacyAnswers :
       LET e == [id |-> env.typed + 1, key |-> key, down |-> down, rep |-> FALSE]
       IN  /\ down \/ key \in env.pressed
           /\ sys' = HookEdge(sys, e, allowed)
           /\ env' = [env EXCEPT !.left.edge = @ - 1, !.typed = @ + 1,
                                 !.pressed = IF down THEN @ \cup {key} ELSE @ \ {key}]
  /\ UNCHANGED worker

HotkeyPressed ==
  HooksFree /\ sys.fg # NoTarget /\ Spend("hotkey") /\ sys' = HookHotkey(sys) /\ UNCHANGED worker

MouseButton ==
  /\ sys.hook = None /\ Spend("click")
  /\ \E cause \in {"mouse", "externalInjection"} : sys' = HookClick(sys, cause)
  /\ UNCHANGED worker

InjectedKey ==
  sys.hook = None /\ Spend("inject") /\ sys' = HookInjectedKey(sys) /\ UNCHANGED worker

DownstreamHooks ==
  /\ sys.hook # None
  /\ \/ sys' = EdgePassed(sys) /\ UNCHANGED env
     \/ sys' = EdgeConsumed(sys) /\ Spend("consume")
  /\ UNCHANGED worker

FocusMoves ==
  /\ Spend("focus")
  /\ \E t \in Targets \cup {NoTarget} : t # sys.fg /\ sys' = [sys EXCEPT !.fg = t]
  /\ UNCHANGED worker

(* drain_correction_gate, up to SendInput: cut says how many of its inputs the edges
   and the fence, counted as one, SendInput takes.                                  *)
StartDrain(s, token) ==
  LET n == ReplayPrefixLength(s.gate.held, Space)
      batch == SubSeq(s.gate.held, 1, n)
      cuts == IF "drain" \in Shortfalls THEN 0..(n + 1) ELSE {n + 1}
  IN  IF ~CanStartDrain(s.gate, token) THEN sys' = s
      ELSE IF s.gate.origin # s.fg THEN sys' = BreakGate(s, "focusChanged")
      ELSE \E cut \in cuts :
             sys' = [s EXCEPT !.gate.held = SubSeq(@, n + 1, Len(@)), !.gate.inFlight = TRUE,
                              !.flight = [token |-> token, edges |-> batch, cut |-> cut, next |-> 1]]

FailOpenGate(s, token, cause) ==
  IF s.gate.active /\ s.gate.token = token THEN BreakGate(s, cause) ELSE s

HandlePosted ==
  /\ UiIdle /\ sys.posted # <<>>
  /\ LET message == Head(sys.posted)
         s == [sys EXCEPT !.posted = Tail(@)]
     IN  \/ message.kind = "release" /\ StartDrain(s, message.token)
         \/ message.kind = "failOpen" /\ sys' = FailOpenGate(s, message.token, message.cause)
         \/ /\ message.kind = "heldKeysReturn"
            /\ \E taken \in TakenCounts(s) : sys' = SendPending(s, taken)
  /\ UNCHANGED <<worker, env>>

(* The inputs of a drain reach the hook in order while SendInput runs. *)
SubmitNext ==
  /\ sys.flight # None /\ sys.hook = None /\ sys.flight.next <= sys.flight.cut
  /\ sys' = IF sys.flight.next <= Len(sys.flight.edges) THEN HookDrainedEdge(sys) ELSE HookFence(sys)
  /\ UNCHANGED <<worker, env>>

SubmitReturns ==
  /\ sys.flight # None /\ sys.hook = None /\ sys.flight.next > sys.flight.cut
  /\ LET s == [sys EXCEPT !.flight = None]
     IN  sys' = IF sys.flight.cut = Len(sys.flight.edges) + 1 THEN s
                ELSE RetainFailedDrain(s, sys.flight, sys.flight.cut # 0)
  /\ UNCHANGED <<worker, env>>

(* The timer; reinstall says that the watchdog reinstalls the hooks on this tick, and
   handsBack that two seconds passed, no modifier is held and privacy allows.        *)
TimerTick ==
  /\ UiIdle
  /\ \E reinstall, handsBack \in BOOLEAN :
       LET checked == RecordEngineFault(sys)
           hooked == IF reinstall THEN ReinstallHooks(checked) ELSE checked
           expired == ExpireRetained(ExpireGate(hooked))
           back == IF handsBack /\ MayHandBack(expired) THEN HandBack(expired) ELSE expired
       IN  /\ IF reinstall THEN Spend("reinstall") ELSE UNCHANGED env
           /\ \E taken \in TakenCounts(back) : sys' = SendPending(back, taken)
  /\ UNCHANGED worker

WorkerMayBeSlow == worker.pc \in {"mark", "replay", "replayed"} => SlowWorker

LateMessage ==
  /\ sys.late # None
  /\ sys' = Handle([sys EXCEPT !.late = None], sys.late)
  /\ UNCHANGED <<worker, env>>

GateDeadlinePasses ==
  /\ sys.gate.active /\ ~sys.gate.expired
  /\ sys' = [sys EXCEPT !.gate.expired = TRUE]
  /\ UNCHANGED <<worker, env>>

RecordAges ==
  /\ sys.retained # None /\ sys.retained.age # "overdue"
  /\ sys.retained.age = "expired" => sys.retained.recovering /\ WorkerMayBeSlow
  /\ sys' = [sys EXCEPT !.retained.age = IF @ = "fresh" THEN "expired" ELSE "overdue"]
  /\ UNCHANGED <<worker, env>>

-------------------------------------------------------------------------------
(* The tray menu: the hook sees the click that opens it, and a later input closes it. *)

OpenMenu ==
  /\ sys.hook = None /\ env.left.tray > 0 /\ env.left.any > 0
  /\ sys' = HookClick(sys, "mouse")
  /\ env' = [env EXCEPT !.menu = sys'.observed, !.left.tray = @ - 1, !.left.any = @ - 1]
  /\ UNCHANGED worker

ChooseFromMenu ==
  /\ UiIdle /\ WorkerMayBeSlow
  /\ env.menu # 0 /\ env.menu = sys.observed
  /\ env' = [env EXCEPT !.menu = 0]

(* toggle_auto_enabled *)
ToggleAuto ==
  /\ ChooseFromMenu /\ sys.retained = None
  /\ sys' = [sys EXCEPT !.paused = FALSE, !.auto = ~@, !.epoch = @ + 1]
  /\ UNCHANGED worker

(* prepare_retained_recovery *)
PrepareRecovery ==
  /\ ChooseFromMenu /\ sys.retained # None
  /\ sys' = [sys EXCEPT !.retained.age = "fresh", !.armed = TRUE]
  /\ UNCHANGED worker

(* discard_confirmed_retained_input *)
DiscardRetained ==
  /\ ChooseFromMenu /\ sys.retained # None
  /\ sys' = IF sys.retained.recovering THEN [sys EXCEPT !.armed = FALSE] ELSE DropRecord(sys)
  /\ UNCHANGED worker

-------------------------------------------------------------------------------
(* The worker: one event at a time, in the steps between which the UI thread may act. *)

Goto(w, pc) == [w EXCEPT !.pc = pc]

(* invalidate_conversion_state *)
Invalidated(w) == [w EXCEPT !.pending = 0, !.deferred = None]

(* reset_for_epoch, when the worker has not seen the epoch yet. *)
InEpoch(w, epoch) == IF w.epoch = epoch THEN w ELSE [Invalidated(w) EXCEPT !.epoch = epoch]

WorkerOnly == UNCHANGED <<sys, env>>

(* process: receive, and read which gate this Space armed. *)
TakeEvent ==
  /\ worker.pc = "idle" /\ sys.queue # <<>>
  /\ LET queued == Head(sys.queue)
         key == queued.event
         arms == /\ key.kind = "key" /\ key.down /\ key.key = Space /\ key.drain = 0
                 /\ ActiveToken(sys) = key.seq
     IN  worker' = [worker EXCEPT !.pc = "dispatch", !.event = queued,
                                  !.armed = IF arms THEN key.seq ELSE 0]
  /\ sys' = [sys EXCEPT !.queue = Tail(@)]
  /\ UNCHANGED env

(* process_gate_drain_ready: a deferred conversion of this drain takes the gate over. *)
AfterDrainReady(w, token, ok) ==
  LET mine == w.deferred # None /\ w.deferred.gate = token
      taken == [w EXCEPT !.token = token, !.deferred = None]
  IN  IF ~ok THEN Goto(Invalidated(w), "finish")
      ELSE IF mine /\ w.pending = w.deferred.seq THEN [w EXCEPT !.token = token, !.pc = "budget"]
      ELSE IF mine THEN Goto([taken EXCEPT !.pending = 0], "ack")
      ELSE Goto(taken, "ack")

(* A key for another target than the last ends what the worker knew of that one. *)
AtTarget(w, target) == IF w.target = target THEN w ELSE [Invalidated(w) EXCEPT !.target = target]

(* process_key: what the gate depends on. A Space may end a word worth converting; any
   other key-down ends a pending conversion; a key-up changes nothing.                 *)
AfterKey(w, key, converts) ==
  LET here == AtTarget(w, key.target)
      other == key.key # Space
      found == [here EXCEPT !.pending = IF converts THEN key.seq ELSE @]
  IN  IF ~key.down THEN Goto(here, "finish")
      ELSE IF other THEN Goto(Invalidated(here), "finish")
      ELSE IF here.pending # 0 THEN Goto(here, "finish")
      ELSE IF key.drain = 0
      THEN Goto([found EXCEPT !.token = key.seq, !.forced = FALSE],
                IF sys.auto THEN "guard" ELSE "finish")
      ELSE Goto([found EXCEPT !.deferred = IF converts THEN [gate |-> key.drain, seq |-> key.seq]
                                           ELSE @], "finish")

(* A claimed hotkey: a forced conversion or an undo of the word before the caret, or
   nothing to do.                                                                     *)
AfterHotkey(w, key, edits) ==
  LET here == AtTarget(w, key.target)
  IN  IF edits
      THEN [here EXCEPT !.pending = key.seq, !.token = key.seq, !.forced = TRUE, !.pc = "claim"]
      ELSE Goto(here, "finish")

(* process_event, for an event that belongs to an epoch and is not stale. *)
AfterFreshEvent(w, event, choice) ==
  CASE event.kind \in {"mouse", "external"} -> Goto(Invalidated(w), "finish")
    [] event.kind = "key" /\ event.hotkey -> AfterHotkey(w, event, choice)
    [] OTHER -> AfterKey(w, event, choice /\ sys.auto)

(* A pending configuration drops the event, and a shortcut modifier a Space, unhandled. *)
Dispatch ==
  /\ worker.pc = "dispatch"
  /\ LET event == worker.event.event
         current == InEpoch(worker, sys.epoch)
     IN  \E choice \in {"dropped", "plain", "converts"} :
           worker' =
             CASE event.kind = "expired" -> Goto(worker, "resume")
               [] event.kind = "handedBack" ->
                    Goto(Invalidated(worker), IF event.full THEN "resume" ELSE "finish")
               [] event.kind = "recover" -> Goto(current, "recover")
               [] event.kind = "drainReady" -> AfterDrainReady(current, event.token, event.ok)
               [] OTHER ->    \* a key, a click, or the input of another program
                    IF worker.event.epoch # sys.epoch THEN Goto(current, "finish")
                    ELSE IF choice = "dropped" THEN Goto(Invalidated(current), "finish")
                    ELSE AfterFreshEvent(current, event, choice = "converts")
  /\ WorkerOnly

(* The locals of one event are gone after it. *)
Idle(w) ==
  [w EXCEPT !.pc = "idle", !.event = None, !.armed = 0, !.released = 0, !.token = 0,
            !.forced = FALSE, !.begun = FALSE, !.panicked = FALSE]

(* Variant with the fault that a path without a conversion keeps the gate. *)
FinishUnreleased ==
  /\ worker.pc = "finish" /\ worker' = Idle(worker)
  /\ WorkerOnly

(* process: an armed gate is released on every path that did not release it. *)
Finish ==
  /\ worker.pc = "finish"
  /\ LET forced == worker.armed # 0 /\ worker.released # worker.armed
     IN  /\ sys' = IF forced THEN Post(sys, Release(worker.armed)) ELSE sys
         /\ worker' = Idle(worker)
  /\ UNCHANGED env

(* A sent message, behind any that still waits: answered now, or timed out and left with
   the UI thread.                                                                        *)
Send(message, accepted, yes, no) ==
  /\ sys.late = None
  /\ \/ /\ sys' = Handle(sys, message)
        /\ worker' = IF accepted THEN yes ELSE no
     \/ /\ SlowUi
        /\ sys' = [sys EXCEPT !.late = message]
        /\ worker' = IF message.kind = "ack" /\ message.new = 0 THEN yes ELSE no

(* acknowledge_correction_gate_drain: only a refusal fails the gate open. *)
SendAck ==
  /\ worker.pc = "ack"
  /\ Send([kind |-> "ack", token |-> worker.token, new |-> 0],
          AckAccepted(sys, worker.token, 0, TRUE),
          Goto(worker, "finish"), Goto(worker, "refused"))
  /\ UNCHANGED env

AckRefused ==
  /\ worker.pc = "refused"
  /\ sys' = Post(sys, FailOpen(worker.token, "workerAck"))
  /\ worker' = Goto(worker, "finish")
  /\ UNCHANGED env

(* handoff_correction_gate: ask for the budget, then acknowledge with the new token. *)
NoHandoff == Goto([worker EXCEPT !.deferred = None, !.pending = 0], "ack")

AskBudget ==
  /\ worker.pc = "budget"
  /\ \/ Send([kind |-> "budget", token |-> worker.token],
             BudgetAllowed(sys, worker.token, TRUE), Goto(worker, "handoff"), NoHandoff)
     \/ sys' = sys /\ worker' = NoHandoff
  /\ UNCHANGED env

Handoff ==
  /\ worker.pc = "handoff"
  /\ LET new == worker.deferred.seq
     IN  Send([kind |-> "ack", token |-> worker.token, new |-> new],
              AckAccepted(sys, worker.token, new, TRUE),
              [worker EXCEPT !.pc = "guard", !.deferred = None, !.token = new, !.forced = FALSE],
              NoHandoff)
  /\ UNCHANGED env

-------------------------------------------------------------------------------
(* The edit of a conversion or an undo, between its guards. *)

(* pre_forward_guard_is_current and edit_guard_is_current: the gate is the edit's own,
   or nothing at all was typed since.                                                 *)
PreForwardGuard ==
  /\ sys.cancelled # worker.token /\ sys.epoch = worker.epoch
  /\ ActiveToken(sys) = worker.token \/ sys.observed = worker.token
  /\ sys.fg = worker.target

EditGuard ==
  /\ PreForwardGuard
  /\ ActiveToken(sys) = worker.token => sys.forwarded >= worker.token

Step(from, to) == worker.pc = from /\ worker' = Goto(worker, to)

(* A claimed hotkey never reaches the application: it counts as forwarded. *)
ClaimHotkey ==
  /\ Step("claim", "guard")
  /\ sys' = [sys EXCEPT !.forwarded = IF @ > worker.token THEN @ ELSE worker.token]
  /\ UNCHANGED env

(* Variant with the fault that the gate is released before the edit. *)
GuardConversionReleasing ==
  /\ worker.pc = "guard"
  /\ LET taken == [worker EXCEPT !.pending = 0, !.begun = FALSE]
         allowed == worker.pending = worker.token /\ (worker.forced \/ sys.auto) /\ PreForwardGuard
     IN  \/ allowed /\ worker' = Goto(taken, "settle")
         \/ worker' = Goto(taken, "end")
  /\ sys' = Post(sys, Release(worker.token))
  /\ UNCHANGED env

(* execute_pending_conversion_inner, up to its wait; privacy and profiles may refuse. *)
GuardConversion ==
  /\ worker.pc = "guard"
  /\ LET taken == [worker EXCEPT !.pending = 0, !.begun = FALSE]
         allowed == worker.pending = worker.token /\ (worker.forced \/ sys.auto) /\ PreForwardGuard
     IN  \/ allowed /\ worker' = Goto(taken, "settle")
         \/ worker' = Goto(taken, "end")
  /\ WorkerOnly

(* wait_for_source_input_settle: until the Space was forwarded, or given up. *)
SourceSettles ==
  /\ \/ sys.forwarded >= worker.token /\ Step("settle", "arm")
     \/ sys.forwarded < worker.token /\ Step("settle", "end")
  /\ WorkerOnly

(* arm_correction_gate *)
ArmGate ==
  /\ worker.pc = "arm"
  /\ IF ActiveToken(sys) = worker.token /\ sys.cancelled # worker.token
     THEN worker' = Goto(worker, "armed") /\ sys' = sys
     ELSE Send([kind |-> "arm", token |-> worker.token], ArmAllowed(sys, worker.token),
               Goto(worker, "armed"), Goto(worker, "end"))
  /\ UNCHANGED env

(* The last checks before the edit: the guard, the text barrier, the target layout. *)
CheckSource ==
  /\ worker.pc = "armed"
  /\ \/ EditGuard /\ worker' = Goto(Invalidated(worker), "edit")
     \/ worker' = Goto(worker, "end")
     \/ worker' = Goto(worker, "failing")
  /\ WorkerOnly

(* Before every chunk the edit checks its guard. Losing it after the first chunk is a
   failure, and a selected word stays selected; before it nothing was done, unless the
   layout was switched already.                                                        *)
GuardEdit ==
  /\ worker.pc = "edit"
  /\ \/ EditGuard /\ worker' = Goto(worker, "send")
     \/ /\ ~EditGuard
        /\ \E next \in {"failing", IF worker.begun THEN "selection" ELSE "end"} :
             worker' = Goto(worker, next)
  /\ WorkerOnly

(* A chunk of the edit reaches the field: a selection, the paste or the retyped keys. It
   ends the edit, or a second one follows.                                              *)
SendEdit ==
  /\ worker.pc = "send"
  /\ \E next \in {"edit", "end", "failing", "selection"} :
        /\ next = "edit" => ~worker.begun
        /\ worker' = [worker EXCEPT !.begun = TRUE, !.pc = next]
  /\ WorkerOnly

(* apply_paste_attempt_result: the edit is over and the word may still be selected. *)
SelectionLeft ==
  /\ worker.pc = "selection"
  /\ sys' = [sys EXCEPT !.selLeft = worker.token]
  /\ worker' = [worker EXCEPT !.kept = worker.token, !.pc = "failing"]
  /\ UNCHANGED env

(* record_conversion_failure: which abort it saw, then its own pause. *)
ReadCancelledGate ==
  /\ worker.pc = "failing"
  /\ worker' = [Invalidated(worker) EXCEPT !.failed = sys.cancelled, !.pc = "failed"]
  /\ WorkerOnly

PauseAfterFailure ==
  /\ worker.pc = "failed"
  /\ LET after == IF worker.panicked THEN Idle(worker) ELSE Goto(worker, "end")
         reason == IF worker.panicked THEN "fault" ELSE "edit"
     IN  IF sys.auto
         THEN /\ sys' = [sys EXCEPT !.auto = FALSE, !.paused = TRUE, !.reason = reason,
                                    !.epoch = @ + 1]
              /\ worker' = [after EXCEPT !.epoch = sys.epoch + 1]
         ELSE sys' = sys /\ worker' = after
  /\ UNCHANGED env

(* end_conversion_gate *)
EndConversion ==
  /\ worker.pc = "end"
  /\ sys' = Post(sys, IF worker.kept = worker.token THEN FailOpen(worker.token, "selectionLeft")
                      ELSE Release(worker.token))
  /\ worker' = [worker EXCEPT !.kept = 0, !.released = worker.token, !.pc = "finish"]
  /\ UNCHANGED env

(* A panic while handling an event is contained by run_contained. *)
Panic ==
  /\ worker.pc \notin {"idle", "failing", "failed"} /\ Spend("panic")
  /\ worker' = [worker EXCEPT !.pc = "failing", !.panicked = TRUE, !.event = None, !.armed = 0]
  /\ sys' = [sys EXCEPT !.fault = TRUE]

-------------------------------------------------------------------------------
(* Recovery of retained input, and the resume it may bring. *)

(* recover_retained_input: the record as it is now, if this recovery may touch it.
   Held modifiers and a positive privacy finding may refuse as well.              *)
Recoverable(s, seq, explicit) ==
  /\ s.retained # None
  /\ explicit \/ (~s.retained.uncertain /\ s.selLeft # s.retained.token)
  /\ s.observed = seq /\ s.fg = s.retained.target

StartRecovery ==
  /\ worker.pc = "recover"
  /\ LET event == worker.event.event
     IN  \/ /\ Recoverable(sys, event.seq, event.explicit)
            /\ worker' = [worker EXCEPT !.record = sys.retained, !.pc = "recheck"]
         \/ /\ ~Recoverable(sys, event.seq, event.explicit) \/ FALSE \in PrivacyAnswers
            /\ worker' = Goto(worker, "finish")
  /\ WorkerOnly

(* Variant with the fault that the input sequence is not checked again. *)
RecheckRecoveryOfFocus ==
  /\ worker.pc = "recheck"
  /\ worker' = Goto(worker, IF sys.fg = worker.record.target THEN "mark" ELSE "finish")
  /\ WorkerOnly

(* The last check before the record is sent: input, epoch and target are unchanged. *)
RecheckRecovery ==
  /\ worker.pc = "recheck"
  /\ worker' = Goto(worker, IF /\ sys.observed = worker.event.event.seq
                               /\ sys.epoch = worker.epoch
                               /\ sys.fg = worker.record.target
                            THEN "mark" ELSE "finish")
  /\ WorkerOnly

(* begin_retained_recovery *)
MarkRecovering ==
  /\ worker.pc = "mark"
  /\ IF /\ sys.retained # None /\ sys.retained.token = worker.record.token
        /\ ~sys.retained.recovering
     THEN sys' = [sys EXCEPT !.retained.recovering = TRUE] /\ worker' = Goto(worker, "replay")
     ELSE sys' = sys /\ worker' = Goto(worker, "finish")
  /\ UNCHANGED env

ReplayRetained ==
  /\ worker.pc = "replay"
  /\ LET inputs == BalancedReplay(worker.record.events)
         counts == IF "recovery" \in Shortfalls THEN 0..Len(inputs) ELSE {Len(inputs)}
     IN  \E sent \in counts :
           /\ sys' = Deliver(sys, SubSeq(inputs, 1, sent), Unseen)
           /\ worker' = [worker EXCEPT !.sent = sent, !.pc = "replayed"]
  /\ UNCHANGED env

(* Variant with the fault that an incomplete recovery removes the record too. *)
FinishRetainedAnyway(s, record, sent, requested) ==
  IF s.retained # None /\ s.retained.token = record.token
  THEN [s EXCEPT !.retained = None] ELSE s

(* finish_retained_recovery: a complete one removes the record, an incomplete one keeps
   it for another attempt.                                                            *)
FinishRetained(s, record, sent, requested) ==
  LET mine == s.retained # None /\ s.retained.token = record.token
  IN  IF ~mine THEN s
      ELSE IF sent = requested THEN [s EXCEPT !.retained = None]
      ELSE [s EXCEPT !.retained.recovering = FALSE,
                     !.retained.uncertain = @ \/ sent # 0]

(* After the replay, finish_recovery: only a complete automatic recovery may resume. *)
FinishRecovery ==
  /\ worker.pc = "replayed"
  /\ LET requested == Len(BalancedReplay(worker.record.events))
         resumes == worker.sent = requested /\ ~worker.event.event.explicit
     IN  /\ sys' = FinishRetained(sys, worker.record, worker.sent, requested)
         /\ worker' = [Invalidated(worker) EXCEPT !.record = None, !.sent = 0,
                         !.pc = IF resumes THEN "resume" ELSE "finish"]
  /\ UNCHANGED env

(* resume_after_recovered_abort: only a pause the gate recorded, and not when an edit
   failed because of the same abort.                                                 *)
DecideResume ==
  /\ worker.pc = "resume"
  /\ LET aborted == ~sys.auto /\ sys.paused /\ sys.reason = "gateDrain"
         failedEdit == sys.cancelled # 0 /\ worker.failed = sys.cancelled
     IN  worker' = IF aborted /\ ~failedEdit /\ worker.resumes > 0
                   THEN [worker EXCEPT !.resumes = @ - 1, !.pc = "resuming"]
                   ELSE Goto(worker, "finish")
  /\ WorkerOnly

Resume ==
  /\ Step("resuming", "finish")
  /\ sys' = [sys EXCEPT !.reason = "none", !.paused = FALSE, !.auto = TRUE, !.epoch = @ + 1]
  /\ UNCHANGED env

-------------------------------------------------------------------------------
UiThread ==
  \/ DownstreamHooks \/ HandlePosted \/ SubmitNext \/ SubmitReturns \/ TimerTick \/ LateMessage

Worker ==
  \/ TakeEvent \/ Dispatch \/ Finish \/ SendAck \/ AckRefused \/ AskBudget \/ Handoff
  \/ ClaimHotkey \/ GuardConversion \/ SourceSettles \/ ArmGate \/ CheckSource \/ GuardEdit
  \/ SendEdit \/ SelectionLeft \/ ReadCancelledGate \/ PauseAfterFailure \/ EndConversion
  \/ StartRecovery \/ RecheckRecovery \/ MarkRecovering \/ ReplayRetained \/ FinishRecovery
  \/ DecideResume \/ Resume

User ==
  \/ PhysicalEdge \/ HotkeyPressed \/ MouseButton \/ InjectedKey \/ FocusMoves
  \/ OpenMenu \/ ToggleAuto \/ PrepareRecovery \/ DiscardRetained

Clock == GateDeadlinePasses \/ RecordAges

Next == UiThread \/ Worker \/ User \/ Clock \/ Panic

Spec == Init /\ [][Next]_vars

===============================================================================
