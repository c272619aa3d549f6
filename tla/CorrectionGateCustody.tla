------------------------- MODULE CorrectionGateCustody -------------------------
(***************************************************************************)
(* Proof that the correction gate keeps custody of the keys it swallows: it  *)
(* implements KeyCustody, in the worlds that are Dependable.                 *)
(*                                                                           *)
(* The inductive invariant is Custodial. Its heart is a set of books: each   *)
(* edge of the user is in exactly one of the places an edge can wait in      *)
(* (Apart), all of them are somewhere (Accounted), and every sequence holds  *)
(* an edge at most once (InOrder). The books of two threads meet where the   *)
(* worker recovers a record: Tracked says that the record it read is the one *)
(* the UI thread still has, or that this one is gone for good, and Untyped   *)
(* how much of it was typed.                                                 *)
(*                                                                           *)
(* An operation of the UI thread is Onward when it lets nothing through to   *)
(* the application, and Handed when what it lets through was swallowed and   *)
(* never received. The lemmas say so of each operation, then of each action, *)
(* and CustodyStep turns it into a step of KeyCustody.                       *)
(***************************************************************************)
EXTENDS CorrectionGateProofs, HeldKeysProofs

(* Where an edge the user typed can be. *)
InTransit(s) == IF s.flight = None THEN {}
                ELSE {s.flight.edges[i].id : i \in s.flight.next..Len(s.flight.edges)}
AtHook(s) == IF s.hook = None THEN {} ELSE {s.hook.edge.id}
Kept(s) == IF s.retained = None THEN {} ELSE Ids(s.retained.events)
Received(s) == Ids(s.app) \ {0}

(* The sequences hold edges the user typed, each once. A gate that is not active holds
   nothing, and a record nothing that could be returned at once.                        *)
InOrder(s) ==
  /\ \/ s.hook = None
     \/ s.hook \in HookCalls /\ s.hook.edge \in Typed(Keys)
  /\ \/ s.flight = None
     \/ /\ s.flight \in Drains /\ OnceEach(s.flight.edges, Keys)
        /\ s.flight.next \in 1..(Len(s.flight.edges) + 2)
        /\ s.flight.cut = Len(s.flight.edges) + 1
  /\ OnceEach(s.gate.held, Keys) /\ Repeats(s.gate.held)
  /\ s.gate.held # <<>> => s.gate.active
  /\ OnceEach(s.releases, Keys) /\ OnceEach(s.replay, Keys)
  /\ \/ s.retained = None
     \/ /\ s.retained \in Records /\ OnceEach(s.retained.events, Keys)
        /\ DeliveredReleases(s.retained.events) = <<>>
  /\ s.app \in Seq(Sendable(Keys))

(* An edge on its way is in one place only, and neither retained nor received nor deleted. *)
Apart(s) ==
  /\ Ids(s.gate.held) \cap InTransit(s) = {}
  /\ (Ids(s.gate.held) \cup InTransit(s)) \cap AtHook(s) = {}
  /\ (Ids(s.gate.held) \cup InTransit(s) \cup AtHook(s)) \cap Ids(s.releases) = {}
  /\ (Ids(s.gate.held) \cup InTransit(s) \cup AtHook(s) \cup Ids(s.releases)) \cap Ids(s.replay) = {}
  /\ (Ids(s.gate.held) \cup InTransit(s) \cup AtHook(s) \cup Ids(s.releases) \cup Ids(s.replay))
       \cap (Kept(s) \cup Received(s) \cup s.ended) = {}
  /\ Kept(s) \cap s.ended = {}

(* All of the edges are somewhere. *)
Accounted(s, all) ==
  Ids(s.gate.held) \cup InTransit(s) \cup AtHook(s) \cup Ids(s.releases) \cup Ids(s.replay)
    \cup Kept(s) \cup Received(s) \cup s.ended = all

Books(s, all) == InOrder(s) /\ Apart(s) /\ Accounted(s, all)

(* Before it is marked, the record the worker read is the one retained, or it is gone and no
   gate of its token is left to make another.                                             *)
SameRecord(s, record) ==
  /\ s.retained # None /\ s.retained.token = record.token
  /\ s.retained.events = record.events /\ s.retained.uncertain = record.uncertain

Knows(s, record) ==
  /\ record.token <= s.observed
  /\ \/ SameRecord(s, record)
     \/ /\ s.late = None
        /\ s.retained # None => s.retained.token # record.token
        /\ s.gate.active => s.gate.token # record.token

(* While the worker sends a record nobody else takes it. *)
Sending(s, record) ==
  SameRecord(s, record) /\ s.retained.recovering /\ s.retained.age # "overdue"

RecoveryPcs == {"recheck", "mark", "replay", "replayed"}

Tracked(s, w) ==
  /\ s.retained # None => s.retained.token <= s.observed
  /\ s.retained # None /\ s.retained.age = "overdue" => s.retained.recovering
  /\ s.gate.token <= s.observed
  /\ w.pc \in {"recheck", "mark"} => w.record.token \in Nat /\ Knows(s, w.record)
  /\ w.pc \in {"replay", "replayed"} => Sending(s, w.record)
  /\ w.pc \in RecoveryPcs => w.event.event.explicit \/ ~w.record.uncertain

(* What of a record was sent. *)
Untyped(s, w) ==
  /\ s.retained # None /\ ~s.retained.uncertain /\ (~s.retained.recovering \/ w.pc = "replay")
       => Kept(s) \cap Received(s) = {}
  /\ w.pc = "replayed" /\ w.sent = 0 /\ ~s.retained.uncertain => Kept(s) \cap Received(s) = {}
  /\ w.pc = "replayed" /\ w.sent = Len(BalancedReplay(w.record.events)) => Kept(s) \subseteq Received(s)

(* What every operation keeps, for the edges typed so far and the worker as it is. *)
Good(s, all, w) == Sound(s) /\ Books(s, all) /\ Tracked(s, w) /\ Untyped(s, w)

(* What an operation does that lets nothing through to the application. *)
Onward(s, t) ==
  /\ t.app = s.app /\ s.ended \subseteq t.ended /\ t.late = s.late
  /\ Ids(s.replay) \subseteq Ids(t.replay)
  /\ Kept(s) \subseteq Kept(t) \cup Ids(t.replay) \cup t.ended

(* Where a record may go. *)
Leaving(s) == Ids(s.replay) \cup Received(s) \cup s.ended

(* What an operation may let through: edges that were neither received nor deleted, each
   once, except those asked for again.                                                  *)
Handed(s, t, again) ==
  /\ \E x \in Seq(Sendable(Keys)) :
       /\ t.app = s.app \o x
       /\ \A i, j \in DOMAIN x : x[i].id = x[j].id /\ x[i].id # 0 => i = j
       /\ (Ids(x) \ {0}) \cap (Received(s) \cup s.ended) \subseteq again
  /\ s.ended \subseteq t.ended
  /\ Leaving(s) \subseteq Leaving(t) /\ Kept(s) \subseteq Kept(t) \cup Leaving(t)

(* The parts of the state the books are about. *)
SameBooks(s, t) ==
  /\ t.gate.held = s.gate.held /\ t.gate.active = s.gate.active /\ t.gate.token = s.gate.token
  /\ t.flight = s.flight /\ t.hook = s.hook /\ t.releases = s.releases /\ t.replay = s.replay
  /\ t.retained = s.retained /\ t.app = s.app /\ t.ended = s.ended
  /\ t.late = s.late /\ t.observed \in Nat /\ t.observed >= s.observed

-------------------------------------------------------------------------------
(* What leaves the books alone keeps a state good. *)
LEMMA Unmoved ==
  ASSUME NEW s, NEW all, NEW w, Good(s, all, w), NEW t, Sound(t), SameBooks(s, t)
  PROVE  Good(t, all, w) /\ Onward(s, t)
<1>1. /\ InTransit(t) = InTransit(s) /\ AtHook(t) = AtHook(s) /\ Kept(t) = Kept(s)
      /\ Received(t) = Received(s)
  BY DEF SameBooks, InTransit, AtHook, Kept, Received
<1>2. Books(t, all)
  BY <1>1 DEF SameBooks, Good, Books, InOrder, Apart, Accounted
<1>3. Tracked(t, w)
  <2>1. s.observed \in Nat /\ s.gate.token \in Nat
    BY DEF Good, Sound, Shape
  <2>2. s.retained # None => s.retained.token \in Nat
    BY DEF Good, Books, InOrder, Records
  <2>3. ASSUME NEW r, r.token \in Nat, Knows(s, r) PROVE Knows(t, r)
    BY <2>1, <2>3 DEF SameBooks, Knows, SameRecord
  <2>4. ASSUME NEW r, Sending(s, r) PROVE Sending(t, r)
    BY <2>4 DEF SameBooks, Sending, SameRecord
  <2>5. t.retained # None => t.retained.token <= t.observed
    BY <2>1, <2>2 DEF SameBooks, Good, Tracked
  <2>6. t.gate.token <= t.observed
    BY <2>1 DEF SameBooks, Good, Tracked
  <2>7. t.retained # None /\ t.retained.age = "overdue" => t.retained.recovering
    BY DEF SameBooks, Good, Tracked
  <2> QED
    BY <2>3, <2>4, <2>5, <2>6, <2>7 DEF Good, Tracked
<1>4. Untyped(t, w)
  BY <1>1 DEF SameBooks, Good, Untyped
<1>5. Onward(s, t)
  BY <1>1 DEF SameBooks, Onward
<1> QED
  BY <1>2, <1>3, <1>4, <1>5 DEF Good

(* Nothing is let through, step after step. *)
LEMMA OnwardOn ==
  ASSUME NEW s, NEW m, NEW t, Onward(s, m), Onward(m, t) PROVE Onward(s, t)
BY DEF Onward

(* What lets something through may do so after an operation that does not. *)
LEMMA OnwardThenHanded ==
  ASSUME NEW s, NEW m, NEW t, NEW again, Onward(s, m), Handed(m, t, again) PROVE Handed(s, t, again)
<1>1. Received(m) = Received(s) /\ s.ended \subseteq m.ended /\ m.app = s.app
  BY DEF Onward, Received
<1>2. Leaving(s) \subseteq Leaving(m) /\ Kept(s) \subseteq Kept(m) \cup Leaving(m)
  BY <1>1 DEF Onward, Leaving
<1> QED
  BY <1>1, <1>2 DEF Handed

(* Letting nothing through is allowed, whatever was asked for. *)
LEMMA OnwardHanded ==
  ASSUME NEW s, NEW t, NEW again, s.app \in Seq(Sendable(Keys)), Onward(s, t)
  PROVE  Handed(s, t, again)
<1>1. Received(t) = Received(s)
  BY DEF Onward, Received
<1>2. Leaving(s) \subseteq Leaving(t) /\ Kept(s) \subseteq Kept(t) \cup Leaving(t)
  BY <1>1 DEF Onward, Leaving
<1> DEFINE x == <<>>
<1>3. x \in Seq(Sendable(Keys)) /\ t.app = s.app \o x /\ DOMAIN x = {}
  <2> DEFINE S == Sendable(Keys)
  <2> HIDE DEF S
  <2>1. s.app \in Seq(S) /\ t.app = s.app
    BY DEF S, Onward
  <2>2. s.app \o <<>> = s.app
    BY <2>1
  <2> QED
    BY <2>1, <2>2 DEF S
<1>4. Ids(x) = {}
  BY <1>3 DEF Ids
<1> HIDE DEF x
<1> QED
  BY <1>2, <1>3, <1>4 DEF Handed, Onward

(* Telling the worker, posting a message and the pause after a failure move no edge. *)
LEMMA EnqueueGood ==
  ASSUME NEW s, NEW all, NEW w, Good(s, all, w), NEW event
  PROVE  Good(Enqueue(s, event), all, w) /\ Onward(s, Enqueue(s, event))
<1>1. Sound(Enqueue(s, event))
  BY EnqueueSound DEF Good
<1>2. SameBooks(s, Enqueue(s, event))
  BY DEF Good, Sound, Shape, SysFields, SameBooks, Enqueue
<1> QED
  BY <1>1, <1>2, Unmoved

(* A posted message is none of the books. *)
LEMMA PostGood ==
  ASSUME NEW s, NEW all, NEW w, Good(s, all, w), NEW message
  PROVE  Good(Post(s, message), all, w) /\ Onward(s, Post(s, message))
<1>1. Sound(Post(s, message))
  BY PostSound DEF Good
<1>2. SameBooks(s, Post(s, message))
  BY DEF Good, Sound, Shape, SysFields, SameBooks, Post
<1> QED
  BY <1>1, <1>2, Unmoved

(* record_gate_failure counts, and moves no edge. *)
LEMMA RecordGateFailureGood ==
  ASSUME NEW s, NEW all, NEW w, Good(s, all, w)
  PROVE  Good(RecordGateFailure(s), all, w) /\ Onward(s, RecordGateFailure(s))
<1>1. Sound(RecordGateFailure(s))
  BY RecordGateFailureSound DEF Good
<1>2. SameBooks(s, RecordGateFailure(s))
  BY DEF Good, Sound, Shape, SysFields, SameBooks, RecordGateFailure
<1> QED
  BY <1>1, <1>2, Unmoved

(* CorrectionGate::activate, for a token younger than the record the worker is about to mark. *)
LEMMA ActivateGood ==
  ASSUME NEW s, NEW all, NEW w, Good(s, all, w), NEW token \in Nat, token <= s.observed,
         s.retained = None, ~s.gate.active,
         w.pc \in {"recheck", "mark"} => w.record.token < token
  PROVE  Good(Activate(s, token), all, w) /\ Onward(s, Activate(s, token))
<1> DEFINE t == Activate(s, token)
<1>1. Sound(t)
  BY ActivateSound DEF Good
<1>2. /\ t.gate.held = <<>> /\ t.gate.active = TRUE /\ t.gate.token = token
      /\ t.flight = s.flight /\ t.hook = s.hook /\ t.releases = s.releases /\ t.replay = s.replay
      /\ t.retained = s.retained /\ t.app = s.app /\ t.ended = s.ended /\ t.late = s.late
      /\ t.observed = s.observed
  BY DEF Good, Sound, Shape, SysFields, GateFields, Activate, ClosedGate
<1>3. s.gate.held = <<>>
  BY DEF Good, Books, InOrder
<1> HIDE DEF t
<1>4. /\ InTransit(t) = InTransit(s) /\ AtHook(t) = AtHook(s) /\ Kept(t) = Kept(s)
      /\ Received(t) = Received(s)
  BY <1>2 DEF InTransit, AtHook, Kept, Received
<1>5. Books(t, all)
  BY <1>2, <1>3, <1>4 DEF Good, Books, InOrder, Apart, Accounted
<1>6. Tracked(t, w)
  <2>1. s.observed \in Nat
    BY DEF Good, Sound, Shape
  <2>2. ASSUME w.pc \in {"recheck", "mark"} PROVE Knows(t, w.record)
    <3>1. Knows(s, w.record) /\ w.record.token \in Nat /\ w.record.token < token
      BY <2>2 DEF Good, Tracked
    <3>2. s.late = None /\ t.gate.token # w.record.token
      BY <1>2, <3>1 DEF Knows, SameRecord
    <3> QED
      BY <1>2, <3>1, <3>2 DEF Knows
  <2>3. w.pc \notin {"replay", "replayed"}
    BY DEF Good, Tracked, Sending, SameRecord
  <2> QED
    BY <1>2, <2>2, <2>3 DEF Good, Tracked
<1>7. Untyped(t, w)
  BY <1>2, <1>4 DEF Good, Untyped
<1>8. Onward(s, t)
  BY <1>2, <1>4 DEF Onward
<1> QED
  BY <1>1, <1>5, <1>6, <1>7, <1>8 DEF Good, t

(* break_correction_gate: what the gate held goes where the code sends it, and the record made
   of it is new.                                                                            *)
LEMMA BreakGateGood ==
  ASSUME NEW s, NEW all, NEW w, Good(s, all, w), NEW cause
  PROVE  Good(BreakGate(s, cause), all, w) /\ Onward(s, BreakGate(s, cause))
<1> DEFINE g == s.gate
           unchanged == cause = "internalFault" /\ g.origin = s.fg
           replayed == IF unchanged THEN g.held ELSE <<>>
           kept == IF unchanged THEN <<>> ELSE RetainedEdges(g.held)
           returned == IF unchanged THEN <<>> ELSE DeliveredReleases(g.held)
           retains == kept # <<>>
           new == NewRecord(s, kept, cause)
           broken ==
             [s EXCEPT !.replay = @ \o replayed, !.releases = @ \o returned,
                       !.retained = IF retains THEN NewRecord(s, kept, cause) ELSE @,
                       !.gate = [g EXCEPT !.active = FALSE, !.cancelled = TRUE,
                                          !.held = <<>>, !.hotkey = None],
                       !.cancelled = g.token, !.epoch = @ + 1]
           recorded == IF retains \/ g.failed THEN RecordGateFailure(broken) ELSE broken
           posted == IF returned \o replayed # <<>> THEN Post(recorded, HeldKeysReturn) ELSE recorded
           told == Enqueue(posted, DrainReady(g.token, FALSE))
<1>0. Shape(s) /\ InOrder(s) /\ Apart(s) /\ Accounted(s, all) /\ Tracked(s, w) /\ Untyped(s, w)
  BY DEF Good, Books, Sound
<1>1. CASE ~g.active
  <2>1. BreakGate(s, cause) = s
    BY <1>1 DEF BreakGate
  <2>2. Onward(s, s)
    BY DEF Onward
  <2> QED
    BY <2>1, <2>2
<1>2. CASE g.active
  <2>1. s.retained = None
    BY <1>2 DEF Good, Sound, Excludes
  <2>2. /\ OnceEach(kept, Keys) /\ OnceEach(returned, Keys) /\ OnceEach(replayed, Keys)
        /\ Ids(kept) \cup Ids(returned) \cup Ids(replayed) = Ids(g.held)
        /\ Ids(kept) \cap Ids(returned) = {} /\ Ids(kept) \cap Ids(replayed) = {}
        /\ Ids(returned) \cap Ids(replayed) = {}
        /\ DeliveredReleases(kept) = <<>> \/ kept = <<>>
    <3>1. OnceEach(g.held, Keys) /\ Repeats(g.held)
      BY <1>0 DEF InOrder
    <3>2. OnceEach(<<>>, Keys) /\ Ids(<<>>) = {}
      BY EmptyOnce
    <3>3. CASE unchanged
      BY <3>1, <3>2, <3>3
    <3>4. CASE ~unchanged
      <4>1. kept = RetainedEdges(g.held) /\ returned = DeliveredReleases(g.held) /\ replayed = <<>>
        BY <3>4
      <4> HIDE DEF kept, returned, replayed
      <4> QED
        BY <3>1, <3>2, <4>1, SplitHeld, RetainedReturnsNothing
    <3> QED
      BY <3>3, <3>4
  <2> HIDE DEF kept, returned, replayed, g
  <2>3. retains => new \in Records /\ new # None
    <3>1. s.gate.token \in Nat /\ s.gate.origin \in Targets \cup {NoTarget} /\ s.typed \in Nat
      BY <1>0 DEF Shape, Places
    <3>2. kept \in Seq(Edges)
      <4>1. Typed(Keys) \subseteq Edges
        BY DEF Typed, Edges
      <4>2. kept \in Seq(Typed(Keys))
        BY <2>2 DEF OnceEach
      <4> DEFINE A == Typed(Keys)  B == Edges
      <4> HIDE DEF A, B
      <4>3. A \subseteq B /\ kept \in Seq(A)
        BY <4>1, <4>2 DEF A, B
      <4>4. kept \in Seq(B)
        BY <4>3
      <4> QED
        BY <4>4 DEF B
    <3>3. new \in Records
      BY <3>1, <3>2 DEF NewRecord, Records
    <3> QED
      BY <3>3, NoneAssumption
  <2>4. new.token = s.gate.token /\ new.events = kept /\ new.age = "fresh" /\ new.recovering = FALSE
    BY DEF NewRecord
  <2>5. /\ broken.gate.held = <<>> /\ broken.gate.active = FALSE /\ broken.gate.token = s.gate.token
        /\ broken.flight = s.flight /\ broken.hook = s.hook
        /\ broken.releases = s.releases \o returned /\ broken.replay = s.replay \o replayed
        /\ broken.retained = IF retains THEN new ELSE None
        /\ broken.app = s.app /\ broken.ended = s.ended /\ broken.late = s.late
        /\ broken.observed = s.observed /\ broken.auto = s.auto
        /\ DOMAIN broken = SysFields
    BY <1>0, <2>1 DEF Shape, SysFields, GateFields, g
  <2>6. Sound(broken)
    BY DEF Good, Sound, Shape, QueueBounded, Excludes, SysFields, GateFields, g
  <2> HIDE DEF broken, retains, new
  <2>7. /\ InTransit(broken) = InTransit(s) /\ AtHook(broken) = AtHook(s)
        /\ Received(broken) = Received(s) /\ Kept(s) = {}
        /\ Ids(broken.gate.held) = {}
    BY <2>1, <2>5, EmptyOnce DEF InTransit, AtHook, Kept, Received
  <2>8. Kept(broken) = Ids(kept)
    BY <2>3, <2>4, <2>5, EmptyOnce DEF Kept, retains
  <2>9. /\ OnceEach(broken.releases, Keys) /\ Ids(broken.releases) = Ids(s.releases) \cup Ids(returned)
        /\ OnceEach(broken.replay, Keys) /\ Ids(broken.replay) = Ids(s.replay) \cup Ids(replayed)
    <3>1. Ids(s.releases) \cap Ids(returned) = {} /\ Ids(s.replay) \cap Ids(replayed) = {}
      BY <1>0, <2>2 DEF Apart, g
    <3>2. OnceEach(s.releases, Keys) /\ OnceEach(s.replay, Keys)
      BY <1>0 DEF InOrder
    <3>3. /\ OnceEach(s.releases \o returned, Keys)
          /\ Ids(s.releases \o returned) = Ids(s.releases) \cup Ids(returned)
      <4> DEFINE a == s.releases  b == returned
      <4>1. OnceEach(a, Keys) /\ OnceEach(b, Keys) /\ Ids(a) \cap Ids(b) = {}
        BY <2>2, <3>1, <3>2
      <4> HIDE DEF a, b
      <4>2. OnceEach(a \o b, Keys)
        BY ONLY <4>1, OnceOfConcat
      <4>3. Ids(a \o b) = Ids(a) \cup Ids(b)
        BY ONLY <4>1, IdsOfJoined
      <4> QED
        BY <4>2, <4>3 DEF a, b
    <3>4. /\ OnceEach(s.replay \o replayed, Keys)
          /\ Ids(s.replay \o replayed) = Ids(s.replay) \cup Ids(replayed)
      <4> DEFINE a == s.replay  b == replayed
      <4>1. OnceEach(a, Keys) /\ OnceEach(b, Keys) /\ Ids(a) \cap Ids(b) = {}
        BY <2>2, <3>1, <3>2
      <4> HIDE DEF a, b
      <4>2. OnceEach(a \o b, Keys)
        BY ONLY <4>1, OnceOfConcat
      <4>3. Ids(a \o b) = Ids(a) \cup Ids(b)
        BY ONLY <4>1, IdsOfJoined
      <4> QED
        BY <4>2, <4>3 DEF a, b
    <3> QED
      BY <2>5, <3>3, <3>4
  <2>10. InOrder(broken)
    <3>1. OnceEach(<<>>, Keys) /\ Repeats(<<>>)
      BY EmptyOnce, RepeatsOfEmpty
    <3>2. broken.retained # None =>
            broken.retained \in Records /\ OnceEach(broken.retained.events, Keys)
              /\ DeliveredReleases(broken.retained.events) = <<>>
      BY <2>2, <2>3, <2>4, <2>5 DEF retains
    <3> QED
      BY <1>0, <2>5, <2>9, <3>1, <3>2 DEF InOrder
  <2>11. Apart(broken)
    BY <1>0, <2>2, <2>5, <2>7, <2>8, <2>9 DEF Apart, g
  <2>12. Accounted(broken, all)
    BY <1>0, <2>2, <2>5, <2>7, <2>8, <2>9 DEF Accounted, g
  <2>13. Tracked(broken, w)
    <3>1. s.observed \in Nat /\ s.gate.token \in Nat /\ s.gate.token <= s.observed
      BY <1>0 DEF Shape, Tracked
    <3>2. ASSUME w.pc \in {"recheck", "mark"} PROVE Knows(broken, w.record)
      <4>1. /\ w.record.token <= s.observed /\ s.late = None
            /\ s.gate.active => s.gate.token # w.record.token
        BY <1>0, <2>1, <3>2 DEF Tracked, Knows, SameRecord
      <4> QED
        BY <1>2, <2>4, <2>5, <4>1 DEF Knows, g
    <3>3. w.pc \notin {"replay", "replayed"}
      BY <1>0, <2>1 DEF Tracked, Sending, SameRecord
    <3>4. broken.retained # None => broken.retained.token = s.gate.token /\ broken.retained.age = "fresh"
      BY <2>4, <2>5
    <3> QED
      BY <1>0, <2>5, <3>1, <3>2, <3>3, <3>4 DEF Tracked
  <2>14. Untyped(broken, w)
    <3>1. w.pc \notin {"replay", "replayed"}
      BY <1>0, <2>1 DEF Tracked, Sending, SameRecord
    <3>2. Kept(broken) \cap Received(broken) = {}
      BY <1>0, <2>2, <2>7, <2>8 DEF Apart, g
    <3> QED
      BY <3>1, <3>2 DEF Untyped
  <2>15. Onward(s, broken)
    BY <2>5, <2>7, <2>9 DEF Onward
  <2>16. Good(broken, all, w)
    BY <2>6, <2>10, <2>11, <2>12, <2>13, <2>14 DEF Good, Books
  <2>17. Good(recorded, all, w) /\ Onward(s, recorded)
    BY <2>15, <2>16, RecordGateFailureGood, OnwardOn
  <2> HIDE DEF recorded
  <2>18. Good(posted, all, w) /\ Onward(s, posted)
    BY <2>17, PostGood, OnwardOn
  <2> HIDE DEF posted
  <2>19. Good(told, all, w) /\ Onward(s, told)
    BY <2>18, EnqueueGood, OnwardOn
  <2> HIDE DEF told
  <2>20. /\ Good(Enqueue(told, RecoverInput(s.observed, FALSE)), all, w)
         /\ Onward(s, Enqueue(told, RecoverInput(s.observed, FALSE)))
    BY <2>19, EnqueueGood, OnwardOn
  <2>21. BreakGate(s, cause) =
           IF retains /\ cause \in HandBackCauses
           THEN Enqueue(told, RecoverInput(s.observed, FALSE)) ELSE told
    BY <1>2 DEF BreakGate, told, posted, recorded, broken, retains, kept, returned, replayed, g
  <2> QED
    BY <2>19, <2>20, <2>21
<1> QED
  BY <1>1, <1>2

-------------------------------------------------------------------------------
(* The gate and the timer. *)

(* A new edge the gate takes is held behind the others. *)
LEMMA HeldGood ==
  ASSUME NEW s, NEW all, NEW w, Good(s, all, w), s.gate.active,
         NEW e \in Typed(Keys), e.id \notin all, NEW systemDown,
         e.down /\ e.rep => GatedKeyDownRepeats(s.gate.held, e.key, systemDown)
  PROVE  LET t == [s EXCEPT !.gate.held = Append(@, e)]
         IN  Good(t, all \cup {e.id}, w) /\ Onward(s, t)
<1> DEFINE t == [s EXCEPT !.gate.held = Append(@, e)]
<1>0. Shape(s) /\ InOrder(s) /\ Apart(s) /\ Accounted(s, all) /\ Tracked(s, w) /\ Untyped(s, w)
  BY DEF Good, Books, Sound
<1>1. Sound(t)
  BY DEF Good, Sound, Shape, QueueBounded, Excludes, SysFields, GateFields
<1>2. /\ t.gate.held = Append(s.gate.held, e) /\ t.gate.active = s.gate.active
      /\ t.gate.token = s.gate.token /\ t.flight = s.flight /\ t.hook = s.hook
      /\ t.releases = s.releases /\ t.replay = s.replay /\ t.retained = s.retained
      /\ t.app = s.app /\ t.ended = s.ended /\ t.late = s.late /\ t.observed = s.observed
  BY <1>0 DEF Shape, SysFields, GateFields
<1> HIDE DEF t
<1>3. /\ InTransit(t) = InTransit(s) /\ AtHook(t) = AtHook(s) /\ Kept(t) = Kept(s)
      /\ Received(t) = Received(s)
  BY <1>2 DEF InTransit, AtHook, Kept, Received
<1>4. e.id \notin Ids(s.gate.held)
  BY <1>0 DEF Accounted
<1>5. OnceEach(t.gate.held, Keys) /\ Ids(t.gate.held) = Ids(s.gate.held) \cup {e.id}
  BY <1>0, <1>2, <1>4, OnceOfAppend DEF InOrder
<1>6. Repeats(t.gate.held)
  <2>1. s.gate.held \in Seq(Typed(Keys)) /\ Repeats(s.gate.held)
    BY <1>0 DEF InOrder, OnceEach
  <2> QED
    BY <1>2, <2>1, RepeatsOfAppend
<1>7. InOrder(t)
  BY <1>0, <1>2, <1>5, <1>6 DEF InOrder
<1>8. Apart(t)
  BY <1>0, <1>2, <1>3, <1>5 DEF Apart, Accounted
<1>9. Accounted(t, all \cup {e.id})
  BY <1>0, <1>2, <1>3, <1>5 DEF Accounted
<1>10. Tracked(t, w)
  BY <1>0, <1>2 DEF Tracked, Knows, Sending, SameRecord
<1>11. Untyped(t, w)
  BY <1>0, <1>2, <1>3 DEF Untyped
<1>12. Onward(s, t)
  BY <1>2, <1>3 DEF Onward
<1> QED
  BY <1>1, <1>7, <1>8, <1>9, <1>10, <1>11, <1>12 DEF Good, Books, t

(* hold_gated_edge, also when the edge breaks the gate. *)
LEMMA HoldEdgeGood ==
  ASSUME NEW s, NEW all, NEW w, Good(s, all, w), s.gate.active,
         NEW e \in Typed(Keys), e.id \notin all, NEW systemDown,
         e.down /\ e.rep => GatedKeyDownRepeats(s.gate.held, e.key, systemDown)
  PROVE  Good(HoldEdge(s, e), all \cup {e.id}, w) /\ Onward(s, HoldEdge(s, e))
<1> DEFINE holding == [s EXCEPT !.gate.held = Append(@, e)]
<1>1. Good(holding, all \cup {e.id}, w) /\ Onward(s, holding)
  BY HeldGood
<1> HIDE DEF holding
<1>2. ASSUME NEW cause
      PROVE  Good(BreakGate(holding, cause), all \cup {e.id}, w) /\ Onward(s, BreakGate(holding, cause))
  BY <1>1, BreakGateGood, OnwardOn
<1>3. HoldEdge(s, e) = IF s.gate.expired THEN BreakGate(holding, "deadline")
                       ELSE IF Len(s.gate.held) >= GateCapacity THEN BreakGate(holding, "capacity")
                       ELSE holding
  BY DEF HoldEdge, holding
<1> QED
  BY <1>1, <1>2, <1>3

(* close_drained_gate, for a gate that holds nothing. *)
LEMMA CloseDrainedGateGood ==
  ASSUME NEW s, NEW all, NEW w, Good(s, all, w), s.gate.held = <<>>
  PROVE  Good(CloseDrainedGate(s), all, w) /\ Onward(s, CloseDrainedGate(s))
<1> DEFINE hot == s.gate.hotkey
           seq == s.observed + 1
           closed == [s EXCEPT !.gate.active = FALSE, !.gate.hotkey = None]
           asked == [closed EXCEPT !.observed = seq, !.hotkeySeq = seq,
                                   !.forwarded = IF @ > seq THEN @ ELSE seq]
           event == KeyEvent([key |-> Space, down |-> TRUE], seq, s.gate.token, TRUE, hot)
<1>0. Shape(s) /\ InOrder(s) /\ Apart(s) /\ Accounted(s, all) /\ Tracked(s, w) /\ Untyped(s, w)
  BY DEF Good, Books, Sound
<1>1. Sound(closed)
  BY DEF Good, Sound, Shape, QueueBounded, Excludes, SysFields, GateFields
<1>2. /\ closed.gate.held = s.gate.held /\ closed.gate.active = FALSE
      /\ closed.gate.token = s.gate.token /\ closed.flight = s.flight /\ closed.hook = s.hook
      /\ closed.releases = s.releases /\ closed.replay = s.replay /\ closed.retained = s.retained
      /\ closed.app = s.app /\ closed.ended = s.ended /\ closed.late = s.late
      /\ closed.observed = s.observed
  BY <1>0 DEF Shape, SysFields, GateFields
<1> HIDE DEF closed
<1>3. /\ InTransit(closed) = InTransit(s) /\ AtHook(closed) = AtHook(s) /\ Kept(closed) = Kept(s)
      /\ Received(closed) = Received(s)
  BY <1>2 DEF InTransit, AtHook, Kept, Received
<1>4. InOrder(closed)
  BY <1>0, <1>2 DEF InOrder
<1>5. Apart(closed) /\ Accounted(closed, all)
  BY <1>0, <1>2, <1>3 DEF Apart, Accounted
<1>6. Tracked(closed, w)
  BY <1>0, <1>2 DEF Tracked, Knows, Sending, SameRecord
<1>7. Untyped(closed, w)
  BY <1>0, <1>2, <1>3 DEF Untyped
<1>8. Good(closed, all, w) /\ Onward(s, closed)
  BY <1>1, <1>2, <1>3, <1>4, <1>5, <1>6, <1>7 DEF Good, Books, Onward
<1>9. Good(asked, all, w) /\ Onward(s, asked)
  <2>1. Sound(asked)
    BY <1>0, <1>1 DEF Sound, Shape, QueueBounded, Excludes, SysFields
  <2>2. SameBooks(closed, asked)
    <3>1. s.observed \in Nat /\ seq \in Nat /\ seq >= s.observed
      BY <1>0 DEF Shape
    <3> HIDE DEF seq
    <3> QED
      BY <1>1, <1>2, <3>1 DEF Sound, Shape, SysFields, SameBooks
  <2> HIDE DEF asked
  <2> QED
    BY <1>8, <2>1, <2>2, Unmoved, OnwardOn
<1> HIDE DEF asked, event
<1>10. Good(Enqueue(asked, event), all, w) /\ Onward(s, Enqueue(asked, event))
  BY <1>9, EnqueueGood, OnwardOn
<1>11. CloseDrainedGate(s) = IF hot = None \/ hot # s.fg THEN closed ELSE Enqueue(asked, event)
  BY DEF CloseDrainedGate, event, asked, closed
<1> QED
  BY <1>8, <1>10, <1>11

(* record_engine_fault *)
LEMMA RecordEngineFaultGood ==
  ASSUME NEW s, NEW all, NEW w, Good(s, all, w)
  PROVE  Good(RecordEngineFault(s), all, w) /\ Onward(s, RecordEngineFault(s))
<1> DEFINE paused == IF s.auto THEN [s EXCEPT !.auto = FALSE, !.paused = TRUE, !.reason = "fault"]
                     ELSE s
           broken == BreakGate(paused, "internalFault")
           noted == [broken EXCEPT !.fault = FALSE, !.epoch = @ + 1]
<1>1. Sound(paused) /\ SameBooks(s, paused)
  BY DEF Good, Sound, Shape, QueueBounded, Excludes, SysFields, SameBooks
<1> HIDE DEF paused
<1>2. Good(paused, all, w) /\ Onward(s, paused)
  BY <1>1, Unmoved
<1>3. Good(broken, all, w) /\ Onward(s, broken)
  BY <1>2, BreakGateGood, OnwardOn
<1> HIDE DEF broken
<1>4. Sound(noted) /\ SameBooks(broken, noted)
  BY <1>3 DEF Good, Sound, Shape, QueueBounded, Excludes, SysFields, SameBooks
<1> HIDE DEF noted
<1>5. Good(noted, all, w) /\ Onward(s, noted)
  BY <1>3, <1>4, Unmoved, OnwardOn
<1>6. Onward(s, s)
  BY DEF Onward
<1>7. RecordEngineFault(s) = IF s.fault THEN noted ELSE s
  BY DEF RecordEngineFault, noted, broken, paused
<1> QED
  BY <1>5, <1>6, <1>7

(* invalidate_for_hook_reinstall *)
LEMMA ReinstallHooksGood ==
  ASSUME NEW s, NEW all, NEW w, Good(s, all, w)
  PROVE  Good(ReinstallHooks(s), all, w) /\ Onward(s, ReinstallHooks(s))
<1> DEFINE stale == [s EXCEPT !.epoch = @ + 1]
<1>1. Sound(stale) /\ SameBooks(s, stale)
  BY DEF Good, Sound, Shape, QueueBounded, Excludes, SysFields, SameBooks
<1> HIDE DEF stale
<1>2. Good(stale, all, w) /\ Onward(s, stale)
  BY <1>1, Unmoved
<1> QED
  BY <1>2, BreakGateGood, OnwardOn DEF ReinstallHooks, stale

(* expire_correction_gate *)
LEMMA ExpireGateGood ==
  ASSUME NEW s, NEW all, NEW w, Good(s, all, w)
  PROVE  Good(ExpireGate(s), all, w) /\ Onward(s, ExpireGate(s))
<1>1. Onward(s, s)
  BY DEF Onward
<1> QED
  BY <1>1, CloseDrainedGateGood, BreakGateGood DEF ExpireGate

-------------------------------------------------------------------------------
(* The record leaves, and what is sent. *)

(* Deleting the record: its edges end, and no key-up of it leaves. *)
LEMMA DropRecordGood ==
  ASSUME NEW s, NEW all, NEW w, Good(s, all, w), s.retained # None, s.late = None,
         w.pc \notin {"replay", "replayed"}
  PROVE  Good(DropRecord(s), all, w) /\ Onward(s, DropRecord(s))
<1> DEFINE t == [s EXCEPT !.retained = None, !.armed = FALSE, !.releases = @ \o <<>>,
                          !.ended = @ \cup Ids(RetainedEdges(s.retained.events))]
<1>0. Shape(s) /\ InOrder(s) /\ Apart(s) /\ Accounted(s, all) /\ Tracked(s, w) /\ Untyped(s, w)
  BY DEF Good, Books, Sound
<1>1. DeliveredReleases(s.retained.events) = <<>> /\ OnceEach(s.retained.events, Keys)
  BY <1>0 DEF InOrder
<1>2. DropRecord(s) = t
  BY <1>1 DEF DropRecord
<1>3. Ids(RetainedEdges(s.retained.events)) = Kept(s)
  <2> DEFINE q == s.retained.events
  <2>1. OnceEach(q, Keys) /\ DeliveredReleases(q) = <<>>
    BY <1>1
  <2>2. Kept(s) = Ids(q)
    BY DEF Kept
  <2> HIDE DEF q
  <2>3. Ids(DeliveredReleases(q)) \cup Ids(RetainedEdges(q)) = Ids(q)
    BY ONLY <2>1, SplitHeld
  <2>4. Ids(DeliveredReleases(q)) = {}
    BY <2>1, EmptyOnce
  <2>5. Ids(RetainedEdges(q)) = Kept(s)
    BY <2>2, <2>3, <2>4
  <2> QED
    BY <2>5 DEF q
<1>4. s.releases \o <<>> = s.releases
  <2> DEFINE T == Typed(Keys)
  <2> HIDE DEF T
  <2>1. s.releases \in Seq(T)
    BY <1>0 DEF InOrder, OnceEach, T
  <2> QED
    BY <2>1
<1>5. Sound(t)
  BY DEF Good, Sound, Shape, QueueBounded, Excludes, SysFields
<1>6. /\ t.gate = s.gate /\ t.flight = s.flight /\ t.hook = s.hook
      /\ t.releases = s.releases /\ t.replay = s.replay /\ t.retained = None
      /\ t.app = s.app /\ t.ended = s.ended \cup Kept(s) /\ t.late = s.late
      /\ t.observed = s.observed
  BY <1>0, <1>3, <1>4 DEF Shape, SysFields
<1> HIDE DEF t
<1>7. /\ InTransit(t) = InTransit(s) /\ AtHook(t) = AtHook(s) /\ Kept(t) = {}
      /\ Received(t) = Received(s)
  BY <1>6 DEF InTransit, AtHook, Kept, Received
<1>8. InOrder(t)
  BY <1>0, <1>6 DEF InOrder
<1>9. Apart(t) /\ Accounted(t, all)
  BY <1>0, <1>6, <1>7 DEF Apart, Accounted
<1>10. Tracked(t, w)
  <2>1. ~s.gate.active
    BY DEF Good, Sound, Excludes
  <2>2. w.pc \in {"recheck", "mark"} => Knows(t, w.record)
    BY <1>0, <1>6, <2>1 DEF Tracked, Knows
  <2> QED
    BY <1>0, <1>6, <2>2 DEF Tracked
<1>11. Untyped(t, w)
  BY <1>6 DEF Untyped
<1>12. Onward(s, t)
  BY <1>6, <1>7 DEF Onward
<1> QED
  BY <1>2, <1>5, <1>8, <1>9, <1>10, <1>11, <1>12 DEF Good, Books

(* expire_retained_input: no record is deleted while the worker sends it. *)
LEMMA ExpireRetainedGood ==
  ASSUME NEW s, NEW all, NEW w, Good(s, all, w), s.late = None
  PROVE  Good(ExpireRetained(s), all, w) /\ Onward(s, ExpireRetained(s))
<1>1. Onward(s, s)
  BY DEF Onward
<1>2. CASE s.retained = None
  BY <1>1, <1>2 DEF ExpireRetained
<1>3. CASE s.retained # None /\ (s.retained.age = "overdue" \/ (s.retained.age = "expired" /\ ~s.retained.recovering))
  <2>1. w.pc \notin {"replay", "replayed"}
    BY <1>3 DEF Good, Tracked, Sending
  <2>2. Good(DropRecord(s), all, w) /\ Onward(s, DropRecord(s))
    BY <1>3, <2>1, DropRecordGood
  <2>3. /\ Good(Enqueue(DropRecord(s), Notice("expired")), all, w)
        /\ Onward(s, Enqueue(DropRecord(s), Notice("expired")))
    BY <2>2, EnqueueGood, OnwardOn
  <2> QED
    BY <1>3, <2>3 DEF ExpireRetained
<1>4. CASE s.retained # None /\ ~(s.retained.age = "overdue" \/ (s.retained.age = "expired" /\ ~s.retained.recovering))
  BY <1>1, <1>4 DEF ExpireRetained
<1> QED
  BY <1>2, <1>3, <1>4

(* hand_back_stalled: a record nothing of which was sent becomes the replay. *)
LEMMA HandBackGood ==
  ASSUME NEW s, NEW all, NEW w, Good(s, all, w), s.retained # None, s.late = None,
         ~s.retained.recovering, ~s.retained.uncertain
  PROVE  Good(HandBack(s), all, w) /\ Onward(s, HandBack(s))
<1> DEFINE t == [s EXCEPT !.retained = None, !.armed = FALSE, !.replay = @ \o s.retained.events,
                          !.handBack = s.retained.token]
<1>0. Shape(s) /\ InOrder(s) /\ Apart(s) /\ Accounted(s, all) /\ Tracked(s, w) /\ Untyped(s, w)
  BY DEF Good, Books, Sound
<1>1. Sound(t)
  BY DEF Good, Sound, Shape, QueueBounded, Excludes, SysFields
<1>2. /\ t.gate = s.gate /\ t.flight = s.flight /\ t.hook = s.hook
      /\ t.releases = s.releases /\ t.replay = s.replay \o s.retained.events /\ t.retained = None
      /\ t.app = s.app /\ t.ended = s.ended /\ t.late = s.late
      /\ t.observed = s.observed
  BY <1>0 DEF Shape, SysFields
<1> HIDE DEF t
<1>3. /\ InTransit(t) = InTransit(s) /\ AtHook(t) = AtHook(s) /\ Kept(t) = {}
      /\ Received(t) = Received(s)
  BY <1>2 DEF InTransit, AtHook, Kept, Received
<1>4. OnceEach(t.replay, Keys) /\ Ids(t.replay) = Ids(s.replay) \cup Kept(s)
  <2>1. OnceEach(s.replay, Keys) /\ OnceEach(s.retained.events, Keys)
    BY <1>0 DEF InOrder
  <2>2. Kept(s) = Ids(s.retained.events)
    BY DEF Kept
  <2>3. Ids(s.replay) \cap Ids(s.retained.events) = {}
    BY <1>0, <2>2 DEF Apart
  <2>4. /\ OnceEach(s.replay \o s.retained.events, Keys)
        /\ Ids(s.replay \o s.retained.events) = Ids(s.replay) \cup Ids(s.retained.events)
    <3> DEFINE a == s.replay  b == s.retained.events
    <3>1. OnceEach(a, Keys) /\ OnceEach(b, Keys) /\ Ids(a) \cap Ids(b) = {}
      BY <2>1, <2>3
    <3> HIDE DEF a, b
    <3>2. OnceEach(a \o b, Keys)
      BY ONLY <3>1, OnceOfConcat
    <3>3. Ids(a \o b) = Ids(a) \cup Ids(b)
      BY ONLY <3>1, IdsOfJoined
    <3> QED
      BY <3>2, <3>3 DEF a, b
  <2> QED
    BY <1>2, <2>2, <2>4
<1>5. Kept(s) \cap Received(s) = {}
  BY <1>0 DEF Untyped
<1>6. InOrder(t)
  BY <1>0, <1>2, <1>4 DEF InOrder
<1>7. Apart(t) /\ Accounted(t, all)
  BY <1>0, <1>2, <1>3, <1>4, <1>5 DEF Apart, Accounted
<1>8. Tracked(t, w)
  <2>1. ~s.gate.active
    BY DEF Good, Sound, Excludes
  <2>2. w.pc \in {"recheck", "mark"} => Knows(t, w.record)
    BY <1>0, <1>2, <2>1 DEF Tracked, Knows
  <2>3. w.pc \notin {"replay", "replayed"}
    BY <1>0 DEF Tracked, Sending
  <2> QED
    BY <1>0, <1>2, <2>2, <2>3 DEF Tracked
<1>9. Untyped(t, w)
  <2>1. w.pc \notin {"replay", "replayed"}
    BY <1>0 DEF Tracked, Sending
  <2> QED
    BY <1>2, <2>1 DEF Untyped
<1>10. Onward(s, t)
  BY <1>2, <1>3, <1>4 DEF Onward
<1>11. Good(t, all, w)
  BY <1>1, <1>6, <1>7, <1>8, <1>9 DEF Good, Books
<1> QED
  BY <1>10, <1>11, PostGood, OnwardOn DEF HandBack, t

(* What is sent joins what the application received. *)
LEMMA ReceivedGrows ==
  ASSUME NEW s, NEW t, NEW x \in Seq(Sendable(Keys)), s.app \in Seq(Sendable(Keys)), t.app = s.app \o x
  PROVE  t.app \in Seq(Sendable(Keys)) /\ Received(t) = Received(s) \cup (Ids(x) \ {0})
<1> DEFINE S == Sendable(Keys)
<1> HIDE DEF S
<1>1. x \in Seq(S) /\ s.app \in Seq(S)
  BY DEF S
<1>2. s.app \o x \in Seq(S) /\ Ids(s.app \o x) = Ids(s.app) \cup Ids(x)
  BY <1>1, IdsOfConcat
<1> QED
  BY <1>2 DEF Received, S

(* Or before one that does not. *)
LEMMA HandedThenOnward ==
  ASSUME NEW s, NEW m, NEW t, NEW again, Handed(s, m, again), Onward(m, t) PROVE Handed(s, t, again)
<1>1. Received(m) = Received(t) /\ m.ended \subseteq t.ended /\ t.app = m.app
  BY DEF Onward, Received
<1>2. Leaving(m) \subseteq Leaving(t) /\ Kept(m) \subseteq Kept(t) \cup Leaving(t)
  BY <1>1 DEF Onward, Leaving
<1> QED
  BY <1>1, <1>2 DEF Handed

(* send_pending_held_keys, where SendInput takes what it is given. *)
LEMMA SendPendingGood ==
  ASSUME NEW s, NEW all, NEW w, Good(s, all, w)
  PROVE  Good(SendPending(s, PendingLength(s)), all, w) /\ Handed(s, SendPending(s, PendingLength(s)), {})
<1> DEFINE n == PendingLength(s)
           queued == s.replay \o s.releases
           x == SubSeq(BalancedReplay(queued), 1, n)
           t == [Deliver(s, x, Unseen) EXCEPT !.replay = <<>>, !.releases = <<>>, !.handBack = 0]
<1>0. Shape(s) /\ InOrder(s) /\ Apart(s) /\ Accounted(s, all) /\ Tracked(s, w) /\ Untyped(s, w)
  BY DEF Good, Books, Sound
<1>1. OnceEach(queued, Keys) /\ Ids(queued) = Ids(s.replay) \cup Ids(s.releases)
  <2> DEFINE a == s.replay  b == s.releases
  <2>1. OnceEach(a, Keys) /\ OnceEach(b, Keys) /\ Ids(a) \cap Ids(b) = {}
    BY <1>0 DEF InOrder, Apart
  <2> HIDE DEF a, b
  <2>2. OnceEach(a \o b, Keys)
    BY ONLY <2>1, OnceOfConcat
  <2>3. Ids(a \o b) = Ids(a) \cup Ids(b)
    BY ONLY <2>1, IdsOfJoined
  <2> QED
    BY <2>2, <2>3 DEF a, b
<1>2. n = Len(BalancedReplay(queued)) /\ n \in 0..Len(BalancedReplay(queued))
  <2>1. BalancedReplay(queued) \in Seq(Sendable(Keys))
    BY <1>1, BalancedMembers DEF OnceEach
  <2> DEFINE S == Sendable(Keys)
  <2> HIDE DEF S
  <2>2. BalancedReplay(queued) \in Seq(S)
    BY <2>1 DEF S
  <2>3. Len(BalancedReplay(queued)) \in Nat
    BY <2>2
  <2>4. n = Len(BalancedReplay(queued))
    BY DEF PendingLength
  <2> QED
    BY <2>3, <2>4
<1> HIDE DEF n, queued
<1>3. /\ x \in Seq(Sendable(Keys)) /\ Ids(x) \ {0} = Ids(queued)
      /\ \A i, j \in DOMAIN x : x[i].id = x[j].id /\ x[i].id # 0 => i = j
  <2>1. x \in Seq(Sendable(Keys))
    BY ONLY <1>1, <1>2, SentOnce
  <2>2. Ids(x) \ {0} = Ids(queued)
    BY ONLY <1>1, <1>2, SentOnce
  <2>3. \A i, j \in DOMAIN x : x[i].id = x[j].id /\ x[i].id # 0 => i = j
    BY ONLY <1>1, <1>2, SentOnce
  <2> HIDE DEF x
  <2> QED
    BY ONLY <2>1, <2>2, <2>3
<1> HIDE DEF x
<1>4. Sound(t)
  BY DeliverSound DEF Good, Sound, Shape, QueueBounded, Excludes, SysFields
<1>5. /\ t.gate = s.gate /\ t.flight = s.flight /\ t.hook = s.hook
      /\ t.releases = <<>> /\ t.replay = <<>> /\ t.retained = s.retained
      /\ t.app = s.app \o x /\ t.ended = s.ended /\ t.late = s.late
      /\ t.observed = s.observed
  BY <1>0 DEF Shape, SysFields, Deliver
<1> HIDE DEF t
<1>6. s.app \in Seq(Sendable(Keys))
  BY <1>0 DEF InOrder
<1>7. t.app \in Seq(Sendable(Keys)) /\ Received(t) = Received(s) \cup Ids(queued)
  <2>1. x \in Seq(Sendable(Keys)) /\ t.app = s.app \o x
    BY <1>3, <1>5
  <2>2. t.app \in Seq(Sendable(Keys)) /\ Received(t) = Received(s) \cup (Ids(x) \ {0})
    BY ONLY <1>6, <2>1, ReceivedGrows
  <2> QED
    BY <1>3, <2>2
<1>8. /\ InTransit(t) = InTransit(s) /\ AtHook(t) = AtHook(s) /\ Kept(t) = Kept(s)
      /\ Ids(t.releases) = {} /\ Ids(t.replay) = {}
  BY <1>5, EmptyOnce DEF InTransit, AtHook, Kept
<1>9. InOrder(t)
  <2>1. OnceEach(<<>>, Keys)
    BY EmptyOnce
  <2> QED
    BY <1>0, <1>5, <1>7, <2>1 DEF InOrder
<1>10. Apart(t) /\ Accounted(t, all)
  BY <1>0, <1>1, <1>5, <1>7, <1>8 DEF Apart, Accounted
<1>11. Tracked(t, w)
  BY <1>0, <1>5 DEF Tracked, Knows, Sending, SameRecord
<1>12. Untyped(t, w)
  <2>1. Kept(s) \cap Ids(queued) = {}
    BY <1>0, <1>1 DEF Apart
  <2> QED
    BY <1>0, <1>5, <1>7, <1>8, <2>1 DEF Untyped
<1>13. Handed(s, t, {})
  <2>1. (Ids(x) \ {0}) \cap (Received(s) \cup s.ended) = {}
    BY <1>0, <1>1, <1>3 DEF Apart
  <2>2. Leaving(s) \subseteq Leaving(t) /\ Kept(s) \subseteq Kept(t) \cup Leaving(t)
    BY <1>1, <1>5, <1>7, <1>8 DEF Leaving
  <2> QED
    BY <1>3, <1>5, <2>1, <2>2 DEF Handed
<1>14. Good(t, all, w)
  BY <1>4, <1>9, <1>10, <1>11, <1>12 DEF Good, Books
<1> DEFINE u == Enqueue(t, HandedBack(s.handBack, n = Len(BalancedReplay(queued))))
<1>15. Good(u, all, w) /\ Handed(s, u, {})
  BY <1>13, <1>14, EnqueueGood, HandedThenOnward
<1>16. Handed(s, s, {})
  <2>1. Onward(s, s)
    BY DEF Onward
  <2> QED
    BY <1>6, <2>1, OnwardHanded
<1>17. SendPending(s, n) = IF queued = <<>> THEN s ELSE IF s.handBack = 0 THEN t ELSE u
  BY DEF SendPending, u, t, x, queued
<1> QED
  BY <1>13, <1>14, <1>15, <1>16, <1>17 DEF n

-------------------------------------------------------------------------------
(* The hooks. *)

(* break_correction_gate closes the gate, and leaves the edge in the hook and the drain alone. *)
LEMMA BreakGateCloses ==
  ASSUME NEW s, Shape(s), NEW cause
  PROVE  LET t == BreakGate(s, cause)
         IN  ~t.gate.active /\ t.hook = s.hook /\ t.flight = s.flight
<1> DEFINE g == s.gate
           unchanged == cause = "internalFault" /\ g.origin = s.fg
           replayed == IF unchanged THEN g.held ELSE <<>>
           kept == IF unchanged THEN <<>> ELSE RetainedEdges(g.held)
           returned == IF unchanged THEN <<>> ELSE DeliveredReleases(g.held)
           retains == kept # <<>>
           broken ==
             [s EXCEPT !.replay = @ \o replayed, !.releases = @ \o returned,
                       !.retained = IF retains THEN NewRecord(s, kept, cause) ELSE @,
                       !.gate = [g EXCEPT !.active = FALSE, !.cancelled = TRUE,
                                          !.held = <<>>, !.hotkey = None],
                       !.cancelled = g.token, !.epoch = @ + 1]
           recorded == IF retains \/ g.failed THEN RecordGateFailure(broken) ELSE broken
           posted == IF returned \o replayed # <<>> THEN Post(recorded, HeldKeysReturn) ELSE recorded
           told == Enqueue(posted, DrainReady(g.token, FALSE))
           Closed(t) == DOMAIN t = SysFields /\ ~t.gate.active /\ t.hook = s.hook /\ t.flight = s.flight
<1> HIDE DEF kept, returned, replayed
<1>1. Closed(broken)
  BY DEF Shape, SysFields, GateFields
<1> HIDE DEF broken
<1>2. Closed(recorded)
  BY <1>1 DEF RecordGateFailure, SysFields
<1> HIDE DEF recorded
<1>3. Closed(posted)
  BY <1>2 DEF Post, SysFields
<1> HIDE DEF posted
<1>4. Closed(told)
  BY <1>3 DEF Enqueue, SysFields
<1> HIDE DEF told
<1>5. Closed(Enqueue(told, RecoverInput(s.observed, FALSE)))
  BY <1>4 DEF Enqueue, SysFields
<1> HIDE DEF retains
<1>6. BreakGate(s, cause) =
        IF ~g.active THEN s
        ELSE IF retains /\ cause \in HandBackCauses
             THEN Enqueue(told, RecoverInput(s.observed, FALSE)) ELSE told
  BY DEF BreakGate, told, posted, recorded, broken, retains, kept, returned, replayed
<1> QED
  BY <1>4, <1>5, <1>6

(* A new edge that is let through. *)
LEMMA LetThrough ==
  ASSUME NEW s, NEW all, NEW w, Good(s, all, w), NEW e \in Typed(Keys), e.id \notin all,
         NEW t, Sound(t), t.app = s.app \o <<e>>,
         /\ t.gate = s.gate /\ t.flight = s.flight /\ t.hook = s.hook
         /\ t.releases = s.releases /\ t.replay = s.replay /\ t.retained = s.retained
         /\ t.ended = s.ended /\ t.late = s.late /\ t.observed = s.observed
  PROVE  Good(t, all \cup {e.id}, w) /\ Handed(s, t, {})
<1> DEFINE x == <<e>>
<1>0. Shape(s) /\ InOrder(s) /\ Apart(s) /\ Accounted(s, all) /\ Tracked(s, w) /\ Untyped(s, w)
  BY DEF Good, Books, Sound
<1>1. x \in Seq(Sendable(Keys)) /\ DOMAIN x = {1} /\ x[1] = e
  BY DEF Typed, Sendable
<1>2. Ids(x) \ {0} = {e.id}
  <2>1. Ids(x) = {e.id}
    BY <1>1 DEF Ids
  <2>2. e.id # 0
    BY DEF Typed
  <2> QED
    BY <2>1, <2>2
<1>3. t.app \in Seq(Sendable(Keys)) /\ Received(t) = Received(s) \cup {e.id}
  <2> HIDE DEF x
  <2>1. s.app \in Seq(Sendable(Keys)) /\ t.app = s.app \o x /\ x \in Seq(Sendable(Keys))
    BY <1>0, <1>1 DEF InOrder, x
  <2>2. t.app \in Seq(Sendable(Keys)) /\ Received(t) = Received(s) \cup (Ids(x) \ {0})
    BY ONLY <2>1, ReceivedGrows
  <2> QED
    BY <1>2, <2>2
<1>4. InTransit(t) = InTransit(s) /\ AtHook(t) = AtHook(s) /\ Kept(t) = Kept(s)
  BY DEF InTransit, AtHook, Kept
<1>5. InOrder(t)
  BY <1>0, <1>3 DEF InOrder
<1>6. Apart(t) /\ Accounted(t, all \cup {e.id})
  BY <1>0, <1>3, <1>4 DEF Apart, Accounted
<1>7. Tracked(t, w)
  BY <1>0 DEF Tracked, Knows, Sending, SameRecord
<1>8. Untyped(t, w)
  <2>1. e.id \notin Kept(s)
    BY <1>0 DEF Accounted
  <2> QED
    BY <1>0, <1>3, <1>4, <2>1 DEF Untyped
<1>9. Handed(s, t, {})
  <2>1. \A i, j \in DOMAIN x : x[i].id = x[j].id /\ x[i].id # 0 => i = j
    BY <1>1
  <2>2. (Ids(x) \ {0}) \cap (Received(s) \cup s.ended) = {}
    BY <1>0, <1>2 DEF Accounted
  <2>3. Leaving(s) \subseteq Leaving(t) /\ Kept(s) \subseteq Kept(t) \cup Leaving(t)
    BY <1>3, <1>4 DEF Leaving
  <2>4. t.app = s.app \o x
    OBVIOUS
  <2> HIDE DEF x
  <2> QED
    BY <1>1, <2>1, <2>2, <2>3, <2>4 DEF Handed
<1> QED
  BY <1>5, <1>6, <1>7, <1>8, <1>9 DEF Good, Books

(* An edge no window has the focus for passes on, and breaks the gate. *)
LEMMA PassUnseenGood ==
  ASSUME NEW s, NEW all, NEW w, Good(s, all, w), NEW e \in Typed(Keys), e.id \notin all
  PROVE  Good(PassUnseen(s, e), all \cup {e.id}, w) /\ Handed(s, PassUnseen(s, e), {})
<1> DEFINE told == Enqueue(BreakGate(s, "focusChanged"), Notice("external"))
           t == Deliver(told, <<e>>, Unseen)
<1>1. Good(told, all, w) /\ Onward(s, told)
  BY BreakGateGood, EnqueueGood, OnwardOn
<1> HIDE DEF told
<1>2. Sound(t)
  BY <1>1, DeliverSound DEF Good
<1>3. /\ t.gate = told.gate /\ t.flight = told.flight /\ t.hook = told.hook
      /\ t.releases = told.releases /\ t.replay = told.replay /\ t.retained = told.retained
      /\ t.ended = told.ended /\ t.late = told.late /\ t.observed = told.observed
      /\ t.app = told.app \o <<e>>
  BY <1>1 DEF Good, Sound, Shape, SysFields, Deliver
<1> HIDE DEF t
<1>4. Good(t, all \cup {e.id}, w) /\ Handed(told, t, {})
  BY <1>1, <1>2, <1>3, LetThrough
<1> QED
  BY <1>1, <1>4, OnwardThenHanded DEF PassUnseen, told, t

(* A state with the edge taken out of the hook, as if it had never been typed. *)
LEMMA HookEmptied ==
  ASSUME NEW s, NEW all, NEW w, Good(s, all, w), s.hook # None,
         NEW t, t = [s EXCEPT !.hook = None]
  PROVE  Good(t, all \ {s.hook.edge.id}, w) /\ Onward(s, t) /\ s.hook.edge \in Typed(Keys) /\ s.hook.edge.id \in all
<1>0. Shape(s) /\ InOrder(s) /\ Apart(s) /\ Accounted(s, all) /\ Tracked(s, w) /\ Untyped(s, w)
  BY DEF Good, Books, Sound
<1>1. Sound(t)
  BY DEF Good, Sound, Shape, QueueBounded, Excludes, SysFields
<1>2. /\ t.gate = s.gate /\ t.flight = s.flight /\ t.hook = None
      /\ t.releases = s.releases /\ t.replay = s.replay /\ t.retained = s.retained
      /\ t.app = s.app /\ t.ended = s.ended /\ t.late = s.late
      /\ t.observed = s.observed
  BY <1>0 DEF Shape, SysFields
<1>3. /\ InTransit(t) = InTransit(s) /\ AtHook(t) = {} /\ Kept(t) = Kept(s)
      /\ Received(t) = Received(s) /\ AtHook(s) = {s.hook.edge.id}
  BY <1>2 DEF InTransit, AtHook, Kept, Received
<1>4. InOrder(t)
  BY <1>0, <1>2 DEF InOrder
<1>5. Apart(t) /\ Accounted(t, all \ {s.hook.edge.id})
  BY <1>0, <1>2, <1>3 DEF Apart, Accounted
<1>6. Tracked(t, w)
  BY <1>0, <1>2 DEF Tracked, Knows, Sending, SameRecord
<1>7. Untyped(t, w)
  BY <1>0, <1>2, <1>3 DEF Untyped
<1>8. Onward(s, t)
  BY <1>2, <1>3 DEF Onward
<1>9. s.hook.edge \in Typed(Keys) /\ s.hook.edge.id \in all
  BY <1>0, <1>3 DEF InOrder, Accounted
<1> QED
  BY <1>1, <1>4, <1>5, <1>6, <1>7, <1>8, <1>9 DEF Good, Books

(* CallNextHookEx returned and the application has the edge. *)
LEMMA EdgePassedGood ==
  ASSUME NEW s, NEW all, NEW w, Good(s, all, w), s.hook # None
  PROVE  Good(EdgePassed(s), all, w) /\ Handed(s, EdgePassed(s), {})
<1> DEFINE m == [s EXCEPT !.hook = None]
           e == s.hook.edge
           t == EdgePassed(s)
<1>1. Good(m, all \ {e.id}, w) /\ Onward(s, m) /\ e \in Typed(Keys) /\ e.id \in all
  BY HookEmptied
<1>2. Sound(t)
  BY DeliverSound DEF Good, Sound, Shape, QueueBounded, Excludes, SysFields, EdgePassed
<1>3. /\ t.gate = m.gate /\ t.flight = m.flight /\ t.hook = m.hook
      /\ t.releases = m.releases /\ t.replay = m.replay /\ t.retained = m.retained
      /\ t.ended = m.ended /\ t.late = m.late /\ t.observed = m.observed
      /\ t.app = m.app \o <<e>>
  BY DEF Good, Sound, Shape, SysFields, Deliver, EdgePassed
<1> HIDE DEF m, t, e
<1>4. Good(t, (all \ {e.id}) \cup {e.id}, w) /\ Handed(m, t, {})
  BY <1>1, <1>2, <1>3, LetThrough
<1>5. (all \ {e.id}) \cup {e.id} = all
  BY <1>1
<1>6. Good(t, all, w)
  BY <1>4, <1>5
<1>7. Handed(s, t, {})
  BY <1>1, <1>4, OnwardThenHanded
<1> QED
  BY <1>6, <1>7 DEF t

(* A hook of another program consumed the edge, which ends there. *)
LEMMA EdgeConsumedGood ==
  ASSUME NEW s, NEW all, NEW w, Good(s, all, w), s.hook # None
  PROVE  Good(EdgeConsumed(s), all, w) /\ Onward(s, EdgeConsumed(s))
<1> DEFINE h == s.hook
           mine == s.gate.active /\ s.gate.token = h.seq
           gone == [s EXCEPT !.hook = None, !.ended = @ \cup {h.edge.id}]
           given == [gone EXCEPT !.gate.cancelled = TRUE, !.gate.failed = TRUE,
                                 !.cancelled = s.gate.token]
           cut == IF ~h.drained /\ mine THEN BreakGate(gone, "downstreamHook")
                  ELSE IF h.drained /\ s.gate.active THEN given ELSE gone
<1>0. Shape(s) /\ InOrder(s) /\ Apart(s) /\ Accounted(s, all) /\ Tracked(s, w) /\ Untyped(s, w)
  BY DEF Good, Books, Sound
<1>1. Sound(gone)
  BY DEF Good, Sound, Shape, QueueBounded, Excludes, SysFields
<1>2. /\ gone.gate = s.gate /\ gone.flight = s.flight /\ gone.hook = None
      /\ gone.releases = s.releases /\ gone.replay = s.replay /\ gone.retained = s.retained
      /\ gone.app = s.app /\ gone.ended = s.ended \cup {h.edge.id} /\ gone.late = s.late
      /\ gone.observed = s.observed
  BY <1>0 DEF Shape, SysFields
<1> HIDE DEF gone
<1>3. /\ InTransit(gone) = InTransit(s) /\ AtHook(gone) = {} /\ Kept(gone) = Kept(s)
      /\ Received(gone) = Received(s) /\ AtHook(s) = {h.edge.id}
  BY <1>2 DEF InTransit, AtHook, Kept, Received
<1>4. InOrder(gone)
  BY <1>0, <1>2 DEF InOrder
<1>5. Apart(gone) /\ Accounted(gone, all)
  BY <1>0, <1>2, <1>3 DEF Apart, Accounted
<1>6. Tracked(gone, w)
  BY <1>0, <1>2 DEF Tracked, Knows, Sending, SameRecord
<1>7. Untyped(gone, w)
  BY <1>0, <1>2, <1>3 DEF Untyped
<1>8. Good(gone, all, w) /\ Onward(s, gone)
  BY <1>1, <1>2, <1>3, <1>4, <1>5, <1>6, <1>7 DEF Good, Books, Onward
<1>9. Good(given, all, w) /\ Onward(s, given)
  <2>1. Sound(given)
    BY <1>1 DEF Sound, Shape, QueueBounded, Excludes, SysFields, GateFields
  <2>2. SameBooks(gone, given)
    <3>1. /\ given.gate.held = gone.gate.held /\ given.gate.active = gone.gate.active
          /\ given.gate.token = gone.gate.token
      BY <1>1 DEF Sound, Shape, SysFields, GateFields
    <3>2. /\ given.flight = gone.flight /\ given.hook = gone.hook
          /\ given.releases = gone.releases /\ given.replay = gone.replay
          /\ given.retained = gone.retained /\ given.app = gone.app /\ given.ended = gone.ended
          /\ given.late = gone.late /\ given.observed = gone.observed /\ gone.observed \in Nat
      BY <1>1 DEF Sound, Shape, SysFields
    <3> HIDE DEF given
    <3>3. given.observed \in Nat /\ given.observed >= gone.observed
      BY <3>2
    <3> QED
      BY <3>1, <3>2, <3>3 DEF SameBooks
  <2> HIDE DEF given
  <2> QED
    BY <1>8, <2>1, <2>2, Unmoved, OnwardOn
<1> HIDE DEF given
<1>10. Good(cut, all, w) /\ Onward(s, cut)
  BY <1>8, <1>9, BreakGateGood, OnwardOn
<1> HIDE DEF cut
<1>11. Good(Enqueue(cut, Notice("external")), all, w) /\ Onward(s, Enqueue(cut, Notice("external")))
  BY <1>10, EnqueueGood, OnwardOn
<1> QED
  BY <1>11 DEF EdgeConsumed, cut, given, gone

(* A new edge goes to the hooks of other programs under a number of its own. *)
LEMMA HookFilled ==
  ASSUME NEW s, NEW all, NEW w, Good(s, all, w), s.hook = None,
         NEW e \in Typed(Keys), e.id \notin all, NEW t, Sound(t),
         /\ t.hook \in HookCalls /\ t.hook.edge = e
         /\ t.gate = s.gate /\ t.flight = s.flight
         /\ t.releases = s.releases /\ t.replay = s.replay /\ t.retained = s.retained
         /\ t.app = s.app /\ t.ended = s.ended /\ t.late = s.late /\ t.observed = s.observed + 1
  PROVE  Good(t, all \cup {e.id}, w) /\ Onward(s, t)
<1>0. Shape(s) /\ InOrder(s) /\ Apart(s) /\ Accounted(s, all) /\ Tracked(s, w) /\ Untyped(s, w)
  BY DEF Good, Books, Sound
<1>1. s.observed \in Nat /\ t.observed \in Nat /\ t.observed > s.observed /\ t.hook # None
  BY <1>0, NoneAssumption DEF Shape
<1>2. /\ InTransit(t) = InTransit(s) /\ AtHook(t) = {e.id} /\ Kept(t) = Kept(s)
      /\ Received(t) = Received(s) /\ AtHook(s) = {}
  BY <1>1 DEF InTransit, AtHook, Kept, Received
<1>3. InOrder(t)
  BY <1>0 DEF InOrder
<1>4. Apart(t) /\ Accounted(t, all \cup {e.id})
  BY <1>0, <1>2 DEF Apart, Accounted
<1>5. Tracked(t, w)
  <2>1. s.gate.token \in Nat /\ (s.retained # None => s.retained.token \in Nat)
    BY <1>0 DEF Shape, InOrder, Records
  <2>2. ASSUME w.pc \in {"recheck", "mark"} PROVE Knows(t, w.record)
    <3>1. Knows(s, w.record) /\ w.record.token \in Nat
      BY <1>0, <2>2 DEF Tracked
    <3> QED
      BY <1>1, <3>1 DEF Knows, SameRecord
  <2>3. w.pc \in {"replay", "replayed"} => Sending(t, w.record)
    BY <1>0 DEF Tracked, Sending, SameRecord
  <2>4. (t.retained # None => t.retained.token <= t.observed) /\ t.gate.token <= t.observed
    BY <1>0, <1>1, <2>1 DEF Tracked
  <2> QED
    BY <1>0, <2>2, <2>3, <2>4 DEF Tracked
<1>6. Untyped(t, w)
  BY <1>0, <1>2 DEF Untyped
<1>7. Onward(s, t)
  BY <1>2 DEF Onward
<1> QED
  BY <1>3, <1>4, <1>5, <1>6, <1>7 DEF Good, Books

(* An edge no gate holds: it gets its number, may arm a gate, and goes to the other hooks. *)
LEMMA ForwardEdgeGood ==
  ASSUME NEW s, NEW all, NEW w, Good(s, all, w), s.hook = None,
         NEW e \in Typed(Keys), e.id \notin all, NEW allowed
  PROVE  Good(ForwardEdge(s, e, allowed), all \cup {e.id}, w) /\ Onward(s, ForwardEdge(s, e, allowed))
<1> DEFINE seq == s.observed + 1
           call == [edge |-> e, seq |-> seq, drained |-> FALSE]
           seen == [s EXCEPT !.observed = seq, !.typed = IF e.down THEN @ + 1 ELSE @, !.hook = call]
           arms == SpaceArmsGate(s, e, allowed)
           armed == IF arms THEN Activate(seen, seq) ELSE seen
           told == Enqueue(armed, KeyEvent(e, seq, 0, FALSE, s.fg))
           failed == [told EXCEPT !.gate.failed = TRUE]
           new == all \cup {e.id}
<1>0. Shape(s) /\ InOrder(s) /\ Apart(s) /\ Accounted(s, all) /\ Tracked(s, w) /\ Untyped(s, w)
  BY DEF Good, Books, Sound
<1>1. seq \in Nat /\ seq > s.observed /\ s.observed \in Nat
  BY <1>0 DEF Shape
<1>2. call \in HookCalls /\ call # None /\ call.edge = e
  <2>1. e \in Edges
    BY DEF Typed, Edges
  <2>2. call \in HookCalls
    BY <1>1, <2>1 DEF HookCalls
  <2> QED
    BY <2>2, NoneAssumption
<1> HIDE DEF seq, call
<1>3. Sound(seen)
  BY <1>1 DEF Good, Sound, Shape, QueueBounded, Excludes, SysFields
<1>4. /\ seen.gate = s.gate /\ seen.flight = s.flight /\ seen.hook = call
      /\ seen.releases = s.releases /\ seen.replay = s.replay /\ seen.retained = s.retained
      /\ seen.app = s.app /\ seen.ended = s.ended /\ seen.late = s.late
      /\ seen.observed = seq /\ seq = s.observed + 1
  BY <1>0 DEF Shape, SysFields, seq
<1> HIDE DEF seen
<1>10. Good(seen, new, w) /\ Onward(s, seen)
  BY <1>2, <1>3, <1>4, HookFilled
<1>11. Good(armed, new, w) /\ Onward(s, armed)
  <2>1. CASE arms
    <3>1. seen.retained = None /\ ~seen.gate.active /\ seq <= seen.observed
      BY <1>1, <1>4, <2>1 DEF SpaceArmsGate
    <3>2. w.pc \in {"recheck", "mark"} => w.record.token < seq
      BY <1>0, <1>1 DEF Tracked, Knows
    <3>3. Good(Activate(seen, seq), new, w) /\ Onward(seen, Activate(seen, seq))
      BY <1>1, <1>10, <3>1, <3>2, ActivateGood
    <3> QED
      BY <1>10, <2>1, <3>3, OnwardOn
  <2>2. CASE ~arms
    BY <1>10, <2>2
  <2> QED
    BY <2>1, <2>2
<1> HIDE DEF armed, arms
<1>12. Good(told, new, w) /\ Onward(s, told)
  BY <1>11, EnqueueGood, OnwardOn
<1> HIDE DEF told
<1>13. Good(failed, new, w) /\ Onward(s, failed)
  <2>1. Sound(failed)
    BY <1>12 DEF Good, Sound, Shape, QueueBounded, Excludes, SysFields, GateFields
  <2>2. /\ failed.gate.held = told.gate.held /\ failed.gate.active = told.gate.active
        /\ failed.gate.token = told.gate.token
    BY <1>12 DEF Good, Sound, Shape, SysFields, GateFields
  <2>3. /\ failed.flight = told.flight /\ failed.hook = told.hook
        /\ failed.releases = told.releases /\ failed.replay = told.replay
        /\ failed.retained = told.retained /\ failed.app = told.app /\ failed.ended = told.ended
        /\ failed.late = told.late /\ failed.observed = told.observed /\ told.observed \in Nat
    BY <1>12 DEF Good, Sound, Shape, SysFields
  <2> HIDE DEF failed
  <2>4. SameBooks(told, failed)
    BY <2>2, <2>3 DEF SameBooks
  <2> QED
    BY <1>12, <2>1, <2>4, Unmoved, OnwardOn
<1> HIDE DEF failed
<1>14. Good(BreakGate(failed, "workerQueue"), new, w) /\ Onward(s, BreakGate(failed, "workerQueue"))
  BY <1>13, BreakGateGood, OnwardOn
<1>15. ForwardEdge(s, e, allowed) = IF Full(armed) /\ arms THEN BreakGate(failed, "workerQueue") ELSE told
  BY DEF ForwardEdge, failed, told, armed, arms, seen, call, seq
<1> QED
  BY <1>12, <1>14, <1>15

(* keyboard_hook_body on a physical edge. *)
LEMMA HookEdgeGood ==
  ASSUME NEW s, NEW all, NEW w, Good(s, all, w), s.hook = None,
         NEW e \in Typed(Keys), e.id \notin all, NEW allowed
  PROVE  Good(HookEdge(s, e, allowed), all \cup {e.id}, w) /\ Handed(s, HookEdge(s, e, allowed), {})
<1> DEFINE rest == CancelSupersededRelease(s.releases, e)
           fresh == [s EXCEPT !.releases = rest, !.ended = @ \cup (Ids(s.releases) \ Ids(rest))]
           kept == IF s.gate.origin # s.fg THEN BreakGate(fresh, "focusChanged") ELSE fresh
           undone == IF e.down THEN [kept EXCEPT !.gate.hotkey = None] ELSE kept
           repeats == e.down /\ GatedKeyDownRepeats(s.gate.held, e.key, KeyDownAfter(s.app, e.key))
           marked == [e EXCEPT !.rep = repeats]
           new == all \cup {e.id}
<1>0. Shape(s) /\ InOrder(s) /\ Apart(s) /\ Accounted(s, all) /\ Tracked(s, w) /\ Untyped(s, w)
  BY DEF Good, Books, Sound
<1>1. OnceEach(rest, Keys) /\ Ids(rest) \subseteq Ids(s.releases)
  BY <1>0, SupersedeKeeps DEF InOrder
<1> HIDE DEF rest
<1>2. Sound(fresh)
  BY DEF Good, Sound, Shape, QueueBounded, Excludes, SysFields
<1>3. /\ fresh.gate = s.gate /\ fresh.flight = s.flight /\ fresh.hook = s.hook
      /\ fresh.releases = rest /\ fresh.replay = s.replay /\ fresh.retained = s.retained
      /\ fresh.app = s.app /\ fresh.ended = s.ended \cup (Ids(s.releases) \ Ids(rest))
      /\ fresh.late = s.late /\ fresh.observed = s.observed
  BY <1>0 DEF Shape, SysFields
<1> HIDE DEF fresh
<1>4. /\ InTransit(fresh) = InTransit(s) /\ AtHook(fresh) = AtHook(s) /\ Kept(fresh) = Kept(s)
      /\ Received(fresh) = Received(s)
  BY <1>3 DEF InTransit, AtHook, Kept, Received
<1>5. InOrder(fresh)
  BY <1>0, <1>1, <1>3 DEF InOrder
<1>6. Apart(fresh) /\ Accounted(fresh, all)
  BY <1>0, <1>1, <1>3, <1>4 DEF Apart, Accounted
<1>7. Tracked(fresh, w)
  BY <1>0, <1>3 DEF Tracked, Knows, Sending, SameRecord
<1>8. Untyped(fresh, w)
  BY <1>0, <1>3, <1>4 DEF Untyped
<1>9. Good(fresh, all, w) /\ Onward(s, fresh)
  BY <1>2, <1>3, <1>4, <1>5, <1>6, <1>7, <1>8 DEF Good, Books, Onward
<1>10. Good(kept, all, w) /\ Onward(s, kept)
  BY <1>9, BreakGateGood, OnwardOn
<1>11. kept.hook = None /\ (kept.gate.active => kept.gate.held = s.gate.held)
  BY <1>2, <1>3, BreakGateCloses DEF Sound
<1> HIDE DEF kept
<1>12. /\ Good(undone, all, w) /\ Onward(s, undone)
       /\ undone.hook = None /\ undone.gate.active = kept.gate.active /\ undone.gate.held = kept.gate.held
  <2> DEFINE t == [kept EXCEPT !.gate.hotkey = None]
  <2>1. Sound(t)
    BY <1>10 DEF Good, Sound, Shape, QueueBounded, Excludes, SysFields, GateFields
  <2>2. t.gate.held = kept.gate.held /\ t.gate.active = kept.gate.active /\ t.gate.token = kept.gate.token
    BY <1>10 DEF Good, Sound, Shape, SysFields, GateFields
  <2>3. /\ t.flight = kept.flight /\ t.hook = kept.hook
        /\ t.releases = kept.releases /\ t.replay = kept.replay
        /\ t.retained = kept.retained /\ t.app = kept.app /\ t.ended = kept.ended
        /\ t.late = kept.late /\ t.observed = kept.observed /\ kept.observed \in Nat
    BY <1>10 DEF Good, Sound, Shape, SysFields
  <2> HIDE DEF t
  <2>4. SameBooks(kept, t)
    BY <2>2, <2>3 DEF SameBooks
  <2>5. Good(t, all, w) /\ Onward(s, t)
    BY <1>10, <2>1, <2>4, Unmoved, OnwardOn
  <2>6. undone = IF e.down THEN t ELSE kept
    BY DEF t
  <2> HIDE DEF undone
  <2> QED
    BY <1>10, <1>11, <2>2, <2>3, <2>5, <2>6
<1> HIDE DEF undone
<1>13. CASE s.fg = NoTarget
  BY <1>13, PassUnseenGood DEF HookEdge
<1>14. CASE s.fg # NoTarget /\ ~s.gate.active
  <2>1. Good(ForwardEdge(fresh, e, allowed), new, w) /\ Onward(fresh, ForwardEdge(fresh, e, allowed))
    BY <1>3, <1>9, ForwardEdgeGood
  <2>2. HookEdge(s, e, allowed) = ForwardEdge(fresh, e, allowed)
    BY <1>14 DEF HookEdge, fresh, rest
  <2>3. s.app \in Seq(Sendable(Keys))
    BY <1>0 DEF InOrder
  <2> QED
    BY <1>9, <2>1, <2>2, <2>3, OnwardOn, OnwardHanded
<1>15. CASE s.fg # NoTarget /\ s.gate.active /\ ~kept.gate.active
  <2>1. Good(ForwardEdge(undone, e, allowed), new, w) /\ Onward(undone, ForwardEdge(undone, e, allowed))
    BY <1>12, ForwardEdgeGood
  <2>2. HookEdge(s, e, allowed) = ForwardEdge(undone, e, allowed)
    BY <1>15 DEF HookEdge, undone, kept, fresh, rest
  <2>3. s.app \in Seq(Sendable(Keys))
    BY <1>0 DEF InOrder
  <2> QED
    BY <1>12, <2>1, <2>2, <2>3, OnwardOn, OnwardHanded
<1>16. CASE s.fg # NoTarget /\ s.gate.active /\ kept.gate.active
  <2>0. repeats \in BOOLEAN
    BY DEF Typed
  <2>1. marked \in Typed(Keys) /\ marked.id = e.id /\ marked.rep = repeats /\ marked.key = e.key
    BY <2>0 DEF Typed
  <2>2. marked.rep => GatedKeyDownRepeats(undone.gate.held, marked.key, KeyDownAfter(s.app, e.key))
    BY <1>11, <1>12, <1>16, <2>1
  <2>3. HookEdge(s, e, allowed) = HoldEdge(undone, marked)
    BY <1>16 DEF HookEdge, undone, kept, fresh, rest
  <2> HIDE DEF marked
  <2>4. Good(HoldEdge(undone, marked), new, w) /\ Onward(undone, HoldEdge(undone, marked))
    BY <1>12, <1>16, <2>1, <2>2, HoldEdgeGood
  <2>5. s.app \in Seq(Sendable(Keys))
    BY <1>0 DEF InOrder
  <2> QED
    BY <1>12, <2>3, <2>4, <2>5, OnwardOn, OnwardHanded
<1>17. s.gate.active \in BOOLEAN
  BY <1>0 DEF Shape
<1> QED
  BY <1>13, <1>14, <1>15, <1>16, <1>17

(* The next input of a drain has reached the hook. *)
LEMMA FlightMoved ==
  ASSUME NEW s, NEW all, NEW w, Good(s, all, w), s.flight # None,
         s.flight.next <= Len(s.flight.edges) + 1, NEW t, t = [s EXCEPT !.flight.next = @ + 1]
  PROVE  /\ Sound(t) /\ InOrder(t)
         /\ t.flight \in Drains /\ t.flight.edges = s.flight.edges
         /\ t.flight.next = s.flight.next + 1 /\ t.flight # None
         /\ t.gate = s.gate /\ t.hook = s.hook
         /\ t.releases = s.releases /\ t.replay = s.replay /\ t.retained = s.retained
         /\ t.app = s.app /\ t.ended = s.ended /\ t.late = s.late /\ t.observed = s.observed
<1>0. Shape(s) /\ InOrder(s)
  BY DEF Good, Books, Sound
<1>1. Sound(t)
  BY DEF Good, Sound, Shape, QueueBounded, Excludes, SysFields
<1>2. /\ t.gate = s.gate /\ t.flight = [s.flight EXCEPT !.next = @ + 1] /\ t.hook = s.hook
      /\ t.releases = s.releases /\ t.replay = s.replay /\ t.retained = s.retained
      /\ t.app = s.app /\ t.ended = s.ended /\ t.late = s.late /\ t.observed = s.observed
  BY <1>0 DEF Shape, SysFields
<1>3. s.flight \in Drains /\ OnceEach(s.flight.edges, Keys) /\ s.flight.cut = Len(s.flight.edges) + 1
      /\ s.flight.next \in 1..(Len(s.flight.edges) + 2)
  BY <1>0 DEF InOrder
<1>4. Len(s.flight.edges) \in Nat
  <2>1. s.flight.edges \in Seq(Edges)
    BY <1>3 DEF Drains
  <2> DEFINE E == Edges
  <2> HIDE DEF E
  <2>2. s.flight.edges \in Seq(E)
    BY <2>1 DEF E
  <2> QED
    BY <2>2
<1>5. s.flight.next \in Nat /\ s.flight.next + 1 \in 1..(Len(s.flight.edges) + 2)
  BY <1>3, <1>4
<1>6. /\ t.flight \in Drains /\ t.flight.edges = s.flight.edges /\ t.flight.next = s.flight.next + 1
      /\ t.flight.cut = s.flight.cut
  BY <1>2, <1>3, <1>5 DEF Drains
<1>7. t.flight # None
  BY <1>6, NoneAssumption
<1>8. InOrder(t)
  BY <1>0, <1>2, <1>3, <1>5, <1>6 DEF InOrder
<1> QED
  BY <1>1, <1>2, <1>6, <1>7, <1>8

(* A state with the next edge taken out of the drain, as if it had never been typed. *)
LEMMA DrainAdvanced ==
  ASSUME NEW s, NEW all, NEW w, Good(s, all, w), s.flight # None,
         s.flight.next <= Len(s.flight.edges), NEW t, t = [s EXCEPT !.flight.next = @ + 1]
  PROVE  LET e == s.flight.edges[s.flight.next]
         IN  Good(t, all \ {e.id}, w) /\ Onward(s, t) /\ e \in Typed(Keys) /\ e.id \in all
<1> DEFINE q == s.flight.edges
           n == s.flight.next
           e == q[n]
<1>0. Shape(s) /\ InOrder(s) /\ Apart(s) /\ Accounted(s, all) /\ Tracked(s, w) /\ Untyped(s, w)
  BY DEF Good, Books, Sound
<1>1. /\ OnceEach(q, Keys) /\ n \in 1..(Len(q) + 2)
  BY <1>0 DEF InOrder
<1>2. /\ Len(q) \in Nat /\ DOMAIN q = 1..Len(q) /\ \A i \in 1..Len(q) : q[i] \in Typed(Keys)
  <2> DEFINE T == Typed(Keys)
  <2> HIDE DEF T
  <2>1. q \in Seq(T)
    BY <1>1 DEF OnceEach, T
  <2> HIDE DEF q
  <2>2. Len(q) \in Nat /\ DOMAIN q = 1..Len(q) /\ \A i \in 1..Len(q) : q[i] \in T
    BY <2>1
  <2> QED
    BY <2>2 DEF T
<1>3. /\ Sound(t) /\ InOrder(t) /\ t.flight # None /\ t.flight.edges = q /\ t.flight.next = n + 1
      /\ t.gate = s.gate /\ t.hook = s.hook
      /\ t.releases = s.releases /\ t.replay = s.replay /\ t.retained = s.retained
      /\ t.app = s.app /\ t.ended = s.ended /\ t.late = s.late /\ t.observed = s.observed
  <2>1. s.flight.next <= Len(s.flight.edges) + 1
    BY <1>1, <1>2
  <2>2. t = [s EXCEPT !.flight.next = @ + 1] /\ s.flight # None /\ s.flight.edges = q /\ s.flight.next = n
    OBVIOUS
  <2> HIDE DEF q, n
  <2>3. Sound(t) /\ InOrder(t) /\ t.flight # None
    BY ONLY Good(s, all, w), <2>1, <2>2, FlightMoved
  <2>4. t.flight.edges = s.flight.edges /\ t.flight.next = s.flight.next + 1
    BY ONLY Good(s, all, w), <2>1, <2>2, FlightMoved
  <2>5. /\ t.gate = s.gate /\ t.hook = s.hook
        /\ t.releases = s.releases /\ t.replay = s.replay /\ t.retained = s.retained
        /\ t.app = s.app /\ t.ended = s.ended /\ t.late = s.late /\ t.observed = s.observed
    BY ONLY Good(s, all, w), <2>1, <2>2, FlightMoved
  <2> QED
    BY ONLY <2>2, <2>3, <2>4, <2>5
<1>4. n \in 1..Len(q) /\ e \in Typed(Keys)
  BY <1>1, <1>2
<1>5. InTransit(s) = {q[i].id : i \in n..Len(q)} /\ InTransit(t) = {q[i].id : i \in (n + 1)..Len(q)}
  BY <1>3 DEF InTransit
<1>6. n..Len(q) = {n} \cup ((n + 1)..Len(q)) /\ n \notin (n + 1)..Len(q) /\ (n + 1)..Len(q) \subseteq 1..Len(q)
  BY <1>2, <1>4
<1>7. InTransit(s) = InTransit(t) \cup {e.id} /\ e.id \notin InTransit(t)
  <2>1. \A i \in (n + 1)..Len(q) : q[i].id # e.id
    BY <1>1, <1>2, <1>4, <1>6 DEF OnceEach
  <2> HIDE DEF q, n
  <2> QED
    BY <1>5, <1>6, <2>1
<1> HIDE DEF e
<1>8. AtHook(t) = AtHook(s) /\ Kept(t) = Kept(s) /\ Received(t) = Received(s)
  BY <1>3 DEF AtHook, Kept, Received
<1>9. Apart(t) /\ Accounted(t, all \ {e.id})
  BY <1>0, <1>3, <1>7, <1>8 DEF Apart, Accounted
<1>10. Tracked(t, w)
  BY <1>0, <1>3 DEF Tracked, Knows, Sending, SameRecord
<1>11. Untyped(t, w)
  BY <1>0, <1>3, <1>8 DEF Untyped
<1>12. Onward(s, t)
  BY <1>3, <1>8 DEF Onward
<1>13. e.id \in all
  BY <1>0, <1>7 DEF Accounted
<1> QED
  BY <1>3, <1>4, <1>9, <1>10, <1>11, <1>12, <1>13 DEF Good, Books, e

(* A replayed edge of a drain passes the hook. *)
LEMMA HookDrainedEdgeGood ==
  ASSUME NEW s, NEW all, NEW w, Good(s, all, w), s.hook = None, s.flight # None,
         s.flight.next <= Len(s.flight.edges)
  PROVE  Good(HookDrainedEdge(s), all, w) /\ Handed(s, HookDrainedEdge(s), {})
<1> DEFINE e == s.flight.edges[s.flight.next]
           seq == s.observed + 1
           call == [edge |-> e, seq |-> seq, drained |-> TRUE]
           m == [s EXCEPT !.flight.next = @ + 1]
           seen == [s EXCEPT !.observed = seq, !.flight.next = @ + 1, !.hook = call]
           told == Enqueue(seen, KeyEvent(e, seq, s.gate.token, FALSE, s.fg))
           failed == [told EXCEPT !.gate.failed = TRUE]
<1>0. Shape(s) /\ InOrder(s)
  BY DEF Good, Books, Sound
<1>1. Good(m, all \ {e.id}, w) /\ Onward(s, m) /\ e \in Typed(Keys) /\ e.id \in all
  BY DrainAdvanced
<1>2. call \in HookCalls
  <2>1. e \in Edges
    BY <1>1 DEF Typed, Edges
  <2>2. seq \in Nat
    BY <1>0 DEF Shape
  <2> QED
    BY <2>1, <2>2 DEF HookCalls
<1>3. Sound(seen)
  BY DEF Good, Sound, Shape, QueueBounded, Excludes, SysFields
<1>4. /\ seen.gate = m.gate /\ seen.flight = m.flight /\ seen.hook = call
      /\ seen.releases = m.releases /\ seen.replay = m.replay /\ seen.retained = m.retained
      /\ seen.app = m.app /\ seen.ended = m.ended /\ seen.late = m.late
      /\ seen.observed = m.observed + 1 /\ m.hook = s.hook
  BY <1>0 DEF Shape, SysFields
<1>5. call.edge = e /\ (all \ {e.id}) \cup {e.id} = all
  BY <1>1
<1> HIDE DEF seen, m, call, e
<1>6. Good(seen, (all \ {e.id}) \cup {e.id}, w) /\ Onward(m, seen)
  BY <1>1, <1>2, <1>3, <1>4, <1>5, HookFilled
<1>7. Good(seen, all, w) /\ Onward(s, seen)
  BY <1>1, <1>5, <1>6, OnwardOn
<1>8. Good(told, all, w) /\ Onward(s, told)
  BY <1>7, EnqueueGood, OnwardOn
<1> HIDE DEF told
<1>9. Good(failed, all, w) /\ Onward(s, failed)
  <2>1. Sound(failed)
    BY <1>8 DEF Good, Sound, Shape, QueueBounded, Excludes, SysFields, GateFields
  <2>2. /\ failed.gate.held = told.gate.held /\ failed.gate.active = told.gate.active
        /\ failed.gate.token = told.gate.token
    BY <1>8 DEF Good, Sound, Shape, SysFields, GateFields
  <2>3. /\ failed.flight = told.flight /\ failed.hook = told.hook
        /\ failed.releases = told.releases /\ failed.replay = told.replay
        /\ failed.retained = told.retained /\ failed.app = told.app /\ failed.ended = told.ended
        /\ failed.late = told.late /\ failed.observed = told.observed /\ told.observed \in Nat
    BY <1>8 DEF Good, Sound, Shape, SysFields
  <2> HIDE DEF failed
  <2>4. SameBooks(told, failed)
    BY <2>2, <2>3 DEF SameBooks
  <2> QED
    BY <1>8, <2>1, <2>4, Unmoved, OnwardOn
<1> HIDE DEF failed
<1>10. Good(BreakGate(failed, "workerQueue"), all, w) /\ Onward(s, BreakGate(failed, "workerQueue"))
  BY <1>9, BreakGateGood, OnwardOn
<1>11. Good(PassUnseen(m, e), all, w) /\ Handed(s, PassUnseen(m, e), {})
  <2>1. Good(PassUnseen(m, e), (all \ {e.id}) \cup {e.id}, w) /\ Handed(m, PassUnseen(m, e), {})
    BY <1>1, PassUnseenGood
  <2> QED
    BY <1>1, <1>5, <2>1, OnwardThenHanded
<1>12. HookDrainedEdge(s) = IF s.fg = NoTarget THEN PassUnseen(m, e)
                            ELSE IF Full(s) /\ s.gate.active THEN BreakGate(failed, "workerQueue")
                            ELSE told
  BY DEF HookDrainedEdge, failed, told, seen, m, call, e
<1>13. s.app \in Seq(Sendable(Keys))
  BY <1>0 DEF InOrder
<1>14. Handed(s, BreakGate(failed, "workerQueue"), {}) /\ Handed(s, told, {})
  BY <1>8, <1>10, <1>13, OnwardHanded
<1> QED
  BY <1>8, <1>10, <1>11, <1>12, <1>14

(* The fence's key-up passes the hook. *)
LEMMA HookFenceGood ==
  ASSUME NEW s, NEW all, NEW w, Good(s, all, w), s.flight # None,
         s.flight.next = Len(s.flight.edges) + 1
  PROVE  Good(HookFence(s), all, w) /\ Onward(s, HookFence(s))
<1> DEFINE g == s.gate
           q == s.flight.edges
           passed == [s EXCEPT !.flight.next = @ + 1]
           fenced == [passed EXCEPT !.gate.inFlight = FALSE, !.gate.awaiting = TRUE]
           told == Enqueue(fenced, DrainReady(g.token, ~g.failed))
           ours == g.active /\ g.token = s.flight.token
<1>0. Shape(s) /\ InOrder(s) /\ Apart(s) /\ Accounted(s, all) /\ Tracked(s, w) /\ Untyped(s, w)
  BY DEF Good, Books, Sound
<1>1. Len(q) \in Nat
  <2> DEFINE T == Typed(Keys)
  <2> HIDE DEF T
  <2>1. q \in Seq(T)
    BY <1>0 DEF InOrder, OnceEach, T
  <2> HIDE DEF q
  <2> QED
    BY <2>1
<1>2. /\ Sound(passed) /\ InOrder(passed) /\ passed.flight # None /\ passed.flight.edges = q
      /\ passed.flight.next = s.flight.next + 1
      /\ passed.gate = s.gate /\ passed.hook = s.hook
      /\ passed.releases = s.releases /\ passed.replay = s.replay /\ passed.retained = s.retained
      /\ passed.app = s.app /\ passed.ended = s.ended /\ passed.late = s.late
      /\ passed.observed = s.observed
  <2>1. s.flight.next <= Len(s.flight.edges) + 1
    BY <1>1
  <2>2. passed = [s EXCEPT !.flight.next = @ + 1] /\ s.flight # None /\ s.flight.edges = q
    OBVIOUS
  <2> HIDE DEF passed, q
  <2>3. Sound(passed) /\ InOrder(passed) /\ passed.flight # None
    BY ONLY Good(s, all, w), <2>1, <2>2, FlightMoved
  <2>4. passed.flight.edges = s.flight.edges /\ passed.flight.next = s.flight.next + 1
    BY ONLY Good(s, all, w), <2>1, <2>2, FlightMoved
  <2>5. /\ passed.gate = s.gate /\ passed.hook = s.hook
        /\ passed.releases = s.releases /\ passed.replay = s.replay /\ passed.retained = s.retained
        /\ passed.app = s.app /\ passed.ended = s.ended /\ passed.late = s.late
        /\ passed.observed = s.observed
    BY ONLY Good(s, all, w), <2>1, <2>2, FlightMoved
  <2> QED
    BY ONLY <2>2, <2>3, <2>4, <2>5
<1>3. InTransit(s) = {} /\ InTransit(passed) = {}
  <2>1. (Len(q) + 1)..Len(q) = {} /\ (Len(q) + 2)..Len(q) = {} /\ (Len(q) + 1) + 1 = Len(q) + 2
    BY <1>1
  <2> QED
    BY <1>2, <2>1 DEF InTransit
<1> HIDE DEF passed
<1>4. AtHook(passed) = AtHook(s) /\ Kept(passed) = Kept(s) /\ Received(passed) = Received(s)
  BY <1>2 DEF AtHook, Kept, Received
<1>5. Apart(passed) /\ Accounted(passed, all)
  BY <1>0, <1>2, <1>3, <1>4 DEF Apart, Accounted
<1>6. Tracked(passed, w)
  BY <1>0, <1>2 DEF Tracked, Knows, Sending, SameRecord
<1>7. Untyped(passed, w)
  BY <1>0, <1>2, <1>4 DEF Untyped
<1>8. Good(passed, all, w) /\ Onward(s, passed)
  BY <1>2, <1>4, <1>5, <1>6, <1>7 DEF Good, Books, Onward
<1>9. Good(fenced, all, w) /\ Onward(s, fenced)
  <2>1. Sound(fenced)
    BY <1>8 DEF Good, Sound, Shape, QueueBounded, Excludes, SysFields, GateFields
  <2>2. /\ fenced.gate.held = passed.gate.held /\ fenced.gate.active = passed.gate.active
        /\ fenced.gate.token = passed.gate.token
    BY <1>8 DEF Good, Sound, Shape, SysFields, GateFields
  <2>3. /\ fenced.flight = passed.flight /\ fenced.hook = passed.hook
        /\ fenced.releases = passed.releases /\ fenced.replay = passed.replay
        /\ fenced.retained = passed.retained /\ fenced.app = passed.app /\ fenced.ended = passed.ended
        /\ fenced.late = passed.late /\ fenced.observed = passed.observed /\ passed.observed \in Nat
    BY <1>8 DEF Good, Sound, Shape, SysFields
  <2> HIDE DEF fenced
  <2>4. SameBooks(passed, fenced)
    BY <2>2, <2>3 DEF SameBooks
  <2> QED
    BY <1>8, <2>1, <2>4, Unmoved, OnwardOn
<1> HIDE DEF fenced
<1>10. Good(told, all, w) /\ Onward(s, told)
  BY <1>9, EnqueueGood, OnwardOn
<1> HIDE DEF told
<1>11. /\ Good(BreakGate(told, "workerQueue"), all, w) /\ Onward(s, BreakGate(told, "workerQueue"))
       /\ Good(BreakGate(passed, "downstreamHook"), all, w)
       /\ Onward(s, BreakGate(passed, "downstreamHook"))
  BY <1>8, <1>10, BreakGateGood, OnwardOn
<1>12. HookFence(s) = IF ~ours THEN passed
                      ELSE IF g.cancelled THEN BreakGate(passed, "downstreamHook")
                      ELSE IF Full(fenced) THEN BreakGate(told, "workerQueue") ELSE told
  BY DEF HookFence, told, fenced, passed
<1> QED
  BY <1>8, <1>10, <1>11, <1>12

(* The hotkey's key-down, which never is an edge of the books. *)
LEMMA HookHotkeyGood ==
  ASSUME NEW s, NEW all, NEW w, Good(s, all, w)
  PROVE  Good(HookHotkey(s), all, w) /\ Onward(s, HookHotkey(s))
<1> DEFINE seq == s.observed + 1
           seen == [s EXCEPT !.observed = seq, !.hotkeySeq = seq, !.typed = @ + 1]
           deferred == [s EXCEPT !.gate.hotkey = IF @ = None THEN s.fg ELSE @]
           disarmed == [seen EXCEPT !.armed = FALSE]
           asks == KeyEvent([key |-> Space, down |-> TRUE], seq, 0, TRUE, s.fg)
<1>1. Good(deferred, all, w) /\ Onward(s, deferred)
  <2>1. Sound(deferred)
    BY DEF Good, Sound, Shape, QueueBounded, Excludes, SysFields, GateFields
  <2>2. /\ deferred.gate.held = s.gate.held /\ deferred.gate.active = s.gate.active
        /\ deferred.gate.token = s.gate.token
    BY DEF Good, Sound, Shape, SysFields, GateFields
  <2>3. /\ deferred.flight = s.flight /\ deferred.hook = s.hook
        /\ deferred.releases = s.releases /\ deferred.replay = s.replay
        /\ deferred.retained = s.retained /\ deferred.app = s.app /\ deferred.ended = s.ended
        /\ deferred.late = s.late /\ deferred.observed = s.observed /\ s.observed \in Nat
    BY DEF Good, Sound, Shape, SysFields
  <2> HIDE DEF deferred
  <2>4. SameBooks(s, deferred)
    BY <2>2, <2>3 DEF SameBooks
  <2> QED
    BY <2>1, <2>4, Unmoved
<1>2. Good(seen, all, w) /\ Onward(s, seen)
  <2>1. Sound(seen)
    BY DEF Good, Sound, Shape, QueueBounded, Excludes, SysFields
  <2>2. SameBooks(s, seen)
    BY DEF Good, Sound, Shape, SysFields, SameBooks
  <2> HIDE DEF seen
  <2> QED
    BY <2>1, <2>2, Unmoved
<1>3. Good(disarmed, all, w) /\ Onward(s, disarmed)
  <2> HIDE DEF seen
  <2>1. Sound(disarmed)
    BY <1>2 DEF Good, Sound, Shape, QueueBounded, Excludes, SysFields
  <2>2. SameBooks(seen, disarmed)
    BY <1>2 DEF Good, Sound, Shape, SysFields, SameBooks
  <2> HIDE DEF disarmed
  <2> QED
    BY <1>2, <2>1, <2>2, Unmoved, OnwardOn
<1> HIDE DEF deferred, seen, disarmed, asks
<1>4. /\ Good(Enqueue(seen, asks), all, w) /\ Onward(s, Enqueue(seen, asks))
      /\ Good(Enqueue(disarmed, RecoverInput(seq, TRUE)), all, w)
      /\ Onward(s, Enqueue(disarmed, RecoverInput(seq, TRUE)))
  BY <1>2, <1>3, EnqueueGood, OnwardOn
<1>5. HookHotkey(s) = IF s.gate.active THEN deferred
                      ELSE IF s.retained = None THEN Enqueue(seen, asks)
                      ELSE IF s.armed THEN Enqueue(disarmed, RecoverInput(seq, TRUE)) ELSE seen
  BY DEF HookHotkey, deferred, seen, disarmed, asks
<1> QED
  BY <1>1, <1>2, <1>4, <1>5

(* observe_mouse_button *)
LEMMA HookClickGood ==
  ASSUME NEW s, NEW all, NEW w, Good(s, all, w), NEW cause
  PROVE  Good(HookClick(s, cause), all, w) /\ Onward(s, HookClick(s, cause))
<1> DEFINE seen == [s EXCEPT !.typed = @ + 1, !.observed = @ + 1, !.latest = Unseen]
<1>1. Sound(seen)
  BY DEF Good, Sound, Shape, QueueBounded, Excludes, SysFields
<1>2. SameBooks(s, seen)
  BY DEF Good, Sound, Shape, SysFields, SameBooks
<1> HIDE DEF seen
<1>3. Good(seen, all, w) /\ Onward(s, seen)
  BY <1>1, <1>2, Unmoved
<1>4. Good(BreakGate(seen, cause), all, w) /\ Onward(s, BreakGate(seen, cause))
  BY <1>3, BreakGateGood, OnwardOn
<1> DEFINE notice == Notice(IF cause = "mouse" THEN "mouse" ELSE "external")
<1> HIDE DEF notice
<1>5. Good(Enqueue(BreakGate(seen, cause), notice), all, w) /\ Onward(s, Enqueue(BreakGate(seen, cause), notice))
  BY <1>4, EnqueueGood, OnwardOn
<1> QED
  BY <1>5 DEF HookClick, seen, notice

(* A key another program injects is no edge of the user. *)
LEMMA HookInjectedKeyGood ==
  ASSUME NEW s, NEW all, NEW w, Good(s, all, w)
  PROVE  Good(HookInjectedKey(s), all, w) /\ Onward(s, HookInjectedKey(s))
<1> DEFINE broken == BreakGate(s, "externalInjection")
           seen == [broken EXCEPT !.typed = @ + 1, !.observed = @ + 1, !.latest = Unseen]
<1>1. Good(broken, all, w) /\ Onward(s, broken)
  BY BreakGateGood
<1> HIDE DEF broken
<1>2. Sound(seen)
  BY <1>1 DEF Good, Sound, Shape, QueueBounded, Excludes, SysFields
<1>3. SameBooks(broken, seen)
  BY <1>1 DEF Good, Sound, Shape, SysFields, SameBooks
<1> HIDE DEF seen
<1>4. Good(seen, all, w) /\ Onward(s, seen)
  BY <1>1, <1>2, <1>3, Unmoved, OnwardOn
<1>5. Good(Enqueue(seen, Notice("external")), all, w) /\ Onward(s, Enqueue(seen, Notice("external")))
  BY <1>4, EnqueueGood, OnwardOn
<1> QED
  BY <1>5 DEF HookInjectedKey, seen, broken

-------------------------------------------------------------------------------
(* Messages of the worker. *)

(* acknowledge_correction_gate_drain: a gate that is handed on takes the newest number, which
   no record has, as no worker that recovers one waits for it.                               *)
LEMMA AcknowledgeGood ==
  ASSUME NEW s, NEW all, NEW w, Good(s, all, w), w.pc \in {"recheck", "mark"} => s.retained # None,
         NEW old, NEW new, NEW fits
  PROVE  Good(Acknowledge(s, old, new, fits), all, w) /\ Onward(s, Acknowledge(s, old, new, fits))
<1> DEFINE handed == [s EXCEPT !.gate.token = new, !.gate.failed = FALSE, !.gate.inFlight = FALSE,
                               !.gate.awaiting = FALSE, !.gate.budget = FALSE, !.cancelled = 0]
           done == [s EXCEPT !.gate.awaiting = FALSE, !.gate.budget = FALSE]
<1>0. Shape(s) /\ InOrder(s) /\ Apart(s) /\ Accounted(s, all) /\ Tracked(s, w) /\ Untyped(s, w)
  BY DEF Good, Books, Sound
<1>1. ASSUME AckWaits(s, old), AckHandsOff(s, new, fits)
      PROVE  Good(handed, all, w) /\ Onward(s, handed)
  <2>0. s.gate.active /\ s.observed = new /\ new \in Nat
    BY <1>0, <1>1 DEF AckWaits, AckHandsOff, Shape
  <2>1. Sound(handed)
    BY <2>0 DEF Good, Sound, Shape, QueueBounded, Excludes, SysFields, GateFields
  <2>2. s.retained = None
    BY <2>0 DEF Good, Sound, Excludes
  <2>3. handed.gate.held = s.gate.held /\ handed.gate.active = s.gate.active /\ handed.gate.token = new
    BY <1>0 DEF Shape, SysFields, GateFields
  <2>4. /\ handed.flight = s.flight /\ handed.hook = s.hook
        /\ handed.releases = s.releases /\ handed.replay = s.replay
        /\ handed.retained = s.retained /\ handed.app = s.app /\ handed.ended = s.ended
        /\ handed.late = s.late /\ handed.observed = s.observed /\ s.observed \in Nat
    BY <1>0 DEF Shape, SysFields
  <2> HIDE DEF handed
  <2>5. /\ InTransit(handed) = InTransit(s) /\ AtHook(handed) = AtHook(s) /\ Kept(handed) = Kept(s)
        /\ Received(handed) = Received(s)
    BY <2>4 DEF InTransit, AtHook, Kept, Received
  <2>6. Books(handed, all)
    BY <1>0, <2>3, <2>4, <2>5 DEF Books, InOrder, Apart, Accounted
  <2>7. Tracked(handed, w)
    <3>1. w.pc \notin RecoveryPcs
      BY <1>0, <2>2 DEF RecoveryPcs, Tracked, Sending, SameRecord
    <3> QED
      BY <1>0, <2>0, <2>2, <2>3, <2>4, <3>1 DEF Tracked, RecoveryPcs
  <2>8. Untyped(handed, w)
    BY <1>0, <2>4, <2>5 DEF Untyped
  <2>9. Onward(s, handed)
    BY <2>4, <2>5 DEF Onward
  <2> QED
    BY <2>1, <2>6, <2>7, <2>8, <2>9 DEF Good
<1>2. /\ Good(done, all, w) /\ Onward(s, done) /\ done.gate.held = s.gate.held
  <2>1. Sound(done)
    BY DEF Good, Sound, Shape, QueueBounded, Excludes, SysFields, GateFields
  <2>2. /\ done.gate.held = s.gate.held /\ done.gate.active = s.gate.active
        /\ done.gate.token = s.gate.token
    BY <1>0 DEF Shape, SysFields, GateFields
  <2>3. /\ done.flight = s.flight /\ done.hook = s.hook
        /\ done.releases = s.releases /\ done.replay = s.replay
        /\ done.retained = s.retained /\ done.app = s.app /\ done.ended = s.ended
        /\ done.late = s.late /\ done.observed = s.observed /\ s.observed \in Nat
    BY <1>0 DEF Shape, SysFields
  <2> HIDE DEF done
  <2>4. SameBooks(s, done)
    BY <2>2, <2>3 DEF SameBooks
  <2> QED
    BY <2>1, <2>2, <2>4, Unmoved
<1> HIDE DEF handed, done
<1>3. s.gate.held = <<>> => Good(CloseDrainedGate(done), all, w) /\ Onward(s, CloseDrainedGate(done))
  BY <1>2, CloseDrainedGateGood, OnwardOn
<1>4. /\ Good(Post(done, Release(old)), all, w) /\ Onward(s, Post(done, Release(old)))
      /\ Good(BreakGate(s, "deadline"), all, w) /\ Onward(s, BreakGate(s, "deadline"))
      /\ Onward(s, s)
  <2>1. Onward(s, s)
    BY DEF Onward
  <2> QED
    BY <1>2, <2>1, PostGood, BreakGateGood, OnwardOn
<1>5. Acknowledge(s, old, new, fits) =
        IF ~AckWaits(s, old) THEN s
        ELSE IF AckTooLate(s, new) THEN BreakGate(s, "deadline")
        ELSE IF new # 0 THEN (IF AckHandsOff(s, new, fits) THEN handed ELSE s)
        ELSE IF s.gate.held = <<>> THEN CloseDrainedGate(done)
        ELSE Post(done, Release(old))
  BY DEF Acknowledge, handed, done
<1> QED
  BY <1>1, <1>3, <1>4, <1>5

(* A message the worker sent, handled in time or late. *)
LEMMA HandleGood ==
  ASSUME NEW s, NEW all, NEW w, Good(s, all, w), w.pc \in {"recheck", "mark"} => s.retained # None,
         NEW message, message.kind \in SentKinds
  PROVE  Good(Handle(s, message), all, w) /\ Onward(s, Handle(s, message))
<1>0. Onward(s, s)
  BY DEF Onward
<1>1. CASE message.kind = "arm"
  <2>1. ASSUME ArmAllowed(s, message.token)
        PROVE  Good(Activate(s, message.token), all, w) /\ Onward(s, Activate(s, message.token))
    <3>1. /\ message.token \in Nat /\ message.token <= s.observed /\ s.retained = None
          /\ ~s.gate.active
      BY <2>1 DEF ArmAllowed, Good, Sound, Shape
    <3>2. w.pc \notin {"recheck", "mark"}
      BY <3>1
    <3> QED
      BY <3>1, <3>2, ActivateGood
  <2> QED
    BY <1>0, <1>1, <2>1 DEF Handle
<1>2. CASE message.kind = "budget"
  <2> DEFINE t == [s EXCEPT !.gate.budget = TRUE]
  <2>1. Sound(t)
    BY DEF Good, Sound, Shape, QueueBounded, Excludes, SysFields, GateFields
  <2>2. /\ t.gate.held = s.gate.held /\ t.gate.active = s.gate.active /\ t.gate.token = s.gate.token
    BY DEF Good, Sound, Shape, SysFields, GateFields
  <2>3. /\ t.flight = s.flight /\ t.hook = s.hook
        /\ t.releases = s.releases /\ t.replay = s.replay
        /\ t.retained = s.retained /\ t.app = s.app /\ t.ended = s.ended
        /\ t.late = s.late /\ t.observed = s.observed /\ s.observed \in Nat
    BY DEF Good, Sound, Shape, SysFields
  <2> HIDE DEF t
  <2>4. SameBooks(s, t)
    BY <2>2, <2>3 DEF SameBooks
  <2>5. Good(t, all, w) /\ Onward(s, t)
    BY <2>1, <2>4, Unmoved
  <2>6. Handle(s, message) = IF BudgetAllowed(s, message.token, TRUE) THEN t ELSE s
    BY <1>2 DEF Handle, t
  <2> QED
    BY <1>0, <2>5, <2>6
<1>3. CASE message.kind = "ack"
  BY <1>3, AcknowledgeGood DEF Handle
<1> QED
  BY <1>1, <1>2, <1>3 DEF SentKinds

-------------------------------------------------------------------------------
(* Drains. *)

(* What drain_correction_gate takes of the gate is in the drain, and in it only. *)
LEMMA DrainStarted ==
  ASSUME NEW s, NEW all, NEW w, Good(s, all, w), s.flight = None, s.gate.active,
         NEW n \in 0..Len(s.gate.held), NEW t,
         t = [s EXCEPT !.gate.held = SubSeq(@, n + 1, Len(@)), !.gate.inFlight = TRUE,
                       !.flight = [token |-> s.gate.token, edges |-> SubSeq(s.gate.held, 1, n),
                                   cut |-> n + 1, next |-> 1]]
  PROVE  Good(t, all, w) /\ Onward(s, t)
<1> DEFINE q == s.gate.held
           batch == SubSeq(q, 1, n)
           rest == SubSeq(q, n + 1, Len(q))
           flight == [token |-> s.gate.token, edges |-> batch, cut |-> n + 1, next |-> 1]
<1>0. Shape(s) /\ InOrder(s) /\ Apart(s) /\ Accounted(s, all) /\ Tracked(s, w) /\ Untyped(s, w)
  BY DEF Good, Books, Sound
<1>1. OnceEach(q, Keys) /\ Repeats(q)
  BY <1>0 DEF InOrder
<1>2. /\ OnceEach(batch, Keys) /\ OnceEach(rest, Keys)
      /\ Ids(batch) \cup Ids(rest) = Ids(q) /\ Ids(batch) \cap Ids(rest) = {}
  BY <1>1, CutOnce
<1>3. q \in Seq(Typed(Keys))
  BY <1>1 DEF OnceEach
<1>4. Repeats(rest)
  BY <1>1, <1>3, RepeatsOfRest
<1>5. n \in Nat /\ Len(batch) = n /\ DOMAIN batch = 1..n
  <2> DEFINE T == Typed(Keys)
  <2> HIDE DEF T
  <2>1. q \in Seq(T) /\ n \in 0..Len(q)
    BY <1>3 DEF T
  <2> HIDE DEF q
  <2>2. Len(q) \in Nat /\ n \in Nat /\ n <= Len(q)
    BY <2>1
  <2>3. Len(batch) = n /\ DOMAIN batch = 1..n
    BY <2>1, <2>2
  <2> QED
    BY <2>2, <2>3
<1>6. batch \in Seq(Edges)
  <2> DEFINE A == Typed(Keys)  B == Edges
  <2>1. A \subseteq B
    BY DEF Typed, Edges
  <2>2. batch \in Seq(A)
    BY <1>2 DEF OnceEach
  <2> HIDE DEF A, B
  <2>3. batch \in Seq(B)
    BY <2>1, <2>2
  <2> QED
    BY <2>3 DEF B
<1>7. s.gate.token \in Nat /\ n + 1 \in Nat
  BY <1>0, <1>5 DEF Shape
<1>8. flight \in Drains /\ flight # None
  <2> HIDE DEF batch
  <2>1. flight \in Drains
    BY <1>6, <1>7 DEF Drains
  <2> QED
    BY <2>1, NoneAssumption
<1>9. flight.edges = batch /\ flight.next = 1 /\ flight.cut = n + 1
  OBVIOUS
<1>10. Sound(t)
  BY DEF Good, Sound, Shape, QueueBounded, Excludes, SysFields, GateFields
<1>11. t.gate.held = rest /\ t.gate.active = s.gate.active /\ t.gate.token = s.gate.token
  BY <1>0 DEF Shape, SysFields, GateFields
<1>12. /\ t.flight = flight /\ t.hook = s.hook /\ t.releases = s.releases /\ t.replay = s.replay
       /\ t.retained = s.retained /\ t.app = s.app /\ t.ended = s.ended
       /\ t.late = s.late /\ t.observed = s.observed
  BY <1>0 DEF Shape, SysFields
<1> HIDE DEF rest, batch, flight
<1>13. InTransit(t) = Ids(batch) /\ InTransit(s) = {}
  <2>1. InTransit(s) = {}
    BY DEF InTransit
  <2>0. t.flight # None /\ t.flight.edges = batch /\ t.flight.next = 1
    BY <1>8, <1>9, <1>12
  <2>2. InTransit(t) = {batch[i].id : i \in 1..Len(batch)}
    BY ONLY <2>0 DEF InTransit
  <2>3. Ids(batch) = {batch[i].id : i \in 1..Len(batch)}
    BY <1>5 DEF Ids
  <2> QED
    BY ONLY <2>1, <2>2, <2>3
<1>14. AtHook(t) = AtHook(s) /\ Kept(t) = Kept(s) /\ Received(t) = Received(s)
  BY <1>12 DEF AtHook, Kept, Received
<1>15. InOrder(t)
  <2>1. 1 \in 1..(Len(batch) + 2)
    BY <1>5
  <2> QED
    BY <1>0, <1>2, <1>4, <1>5, <1>8, <1>9, <1>11, <1>12, <2>1 DEF InOrder
<1>20. Ids(t.gate.held) = Ids(rest) /\ InTransit(t) = Ids(batch) /\ AtHook(t) = AtHook(s)
  BY ONLY <1>11, <1>13, <1>14
<1>21. /\ Ids(t.releases) = Ids(s.releases) /\ Ids(t.replay) = Ids(s.replay)
       /\ Kept(t) = Kept(s) /\ Received(t) = Received(s) /\ t.ended = s.ended
  BY ONLY <1>12, <1>14
<1>22. Ids(batch) \cup Ids(rest) = Ids(s.gate.held) /\ InTransit(s) = {}
  BY <1>2, <1>13 DEF q
<1>23. Ids(batch) \cap Ids(rest) = {}
  BY ONLY <1>2
<1>24. Apart(t)
  BY ONLY <1>0, <1>20, <1>21, <1>22, <1>23 DEF Apart
<1>25. Accounted(t, all)
  BY ONLY <1>0, <1>20, <1>21, <1>22 DEF Accounted
<1>16. Apart(t) /\ Accounted(t, all)
  BY ONLY <1>24, <1>25
<1>17. Tracked(t, w)
  BY <1>0, <1>11, <1>12 DEF Tracked, Knows, Sending, SameRecord
<1>18. Untyped(t, w)
  BY <1>0, <1>12, <1>14 DEF Untyped
<1>19. Onward(s, t)
  BY <1>12, <1>14 DEF Onward
<1> QED
  BY <1>10, <1>15, <1>16, <1>17, <1>18, <1>19 DEF Good, Books

(* SendInput took a whole drain. *)
LEMMA DrainReturned ==
  ASSUME NEW s, NEW all, NEW w, Good(s, all, w), s.flight # None,
         s.flight.next > Len(s.flight.edges) + 1, NEW t, t = [s EXCEPT !.flight = None]
  PROVE  Good(t, all, w) /\ Onward(s, t)
<1>0. Shape(s) /\ InOrder(s) /\ Apart(s) /\ Accounted(s, all) /\ Tracked(s, w) /\ Untyped(s, w)
  BY DEF Good, Books, Sound
<1>1. Sound(t)
  BY DEF Good, Sound, Shape, QueueBounded, Excludes, SysFields
<1>2. /\ t.gate = s.gate /\ t.flight = None /\ t.hook = s.hook
      /\ t.releases = s.releases /\ t.replay = s.replay /\ t.retained = s.retained
      /\ t.app = s.app /\ t.ended = s.ended /\ t.late = s.late /\ t.observed = s.observed
  BY <1>0 DEF Shape, SysFields
<1>3. InTransit(t) = {} /\ InTransit(s) = {}
  <2>1. Len(s.flight.edges) \in Nat /\ s.flight.next \in Nat
    <3>1. s.flight.edges \in Seq(Edges) /\ s.flight.next \in Nat
      BY <1>0 DEF InOrder, Drains
    <3> DEFINE E == Edges
    <3> HIDE DEF E
    <3>2. s.flight.edges \in Seq(E)
      BY <3>1 DEF E
    <3> QED
      BY <3>1, <3>2
  <2>2. s.flight.next..Len(s.flight.edges) = {}
    BY <2>1
  <2> QED
    BY <1>2, <2>2 DEF InTransit
<1>4. AtHook(t) = AtHook(s) /\ Kept(t) = Kept(s) /\ Received(t) = Received(s)
  BY <1>2 DEF AtHook, Kept, Received
<1>5. InOrder(t)
  BY <1>0, <1>2 DEF InOrder
<1>6. Apart(t) /\ Accounted(t, all)
  BY <1>0, <1>2, <1>3, <1>4 DEF Apart, Accounted
<1>7. Tracked(t, w)
  BY <1>0, <1>2 DEF Tracked, Knows, Sending, SameRecord
<1>8. Untyped(t, w)
  BY <1>0, <1>2, <1>4 DEF Untyped
<1>9. Onward(s, t)
  BY <1>2, <1>4 DEF Onward
<1> QED
  BY <1>1, <1>5, <1>6, <1>7, <1>8, <1>9 DEF Good, Books

-------------------------------------------------------------------------------
(* The invariant, and the steps that keep it. *)

(* A world the theorem is about: SendInput takes what a drain and a hand-back give it, and a
   worker that sends a record is not slower than the record's grace.                         *)
Dependable(world) == world.shortfalls \subseteq {"recovery"} /\ ~world.slowWorker

WorkerFields ==
  {"pc", "event", "armed", "released", "epoch", "target", "pending", "deferred", "token",
   "forced", "begun", "kept", "failed", "resumes", "record", "sent", "panicked"}

Frame ==
  /\ DOMAIN worker = WorkerFields
  /\ DOMAIN env = {"world", "left", "pressed", "typed", "menu"}
  /\ env.typed \in Nat /\ env.world \in Worlds /\ Dependable(env.world)

Custodial == Frame /\ Good(sys, 1..env.typed, worker)

(* What a step lets through of what the application may have: only what the user asked for. *)
AskedFor ==
  IF worker.pc = "replay" /\ worker.event.event.explicit THEN Ids(worker.record.events) ELSE {}

(* What every step does. *)
Kind == Custodial' /\ Handed(sys, sys', AskedFor) /\ env'.typed \in {env.typed, env.typed + 1}

(* What the environment spends leaves its world and the count of edges alone. *)
LEMMA SpendFrame ==
  ASSUME Frame, \/ UNCHANGED env
                \/ \E act \in Acts : Spend(act)
                \/ \E menu : env' = [env EXCEPT !.menu = menu]
  PROVE  env'.typed = env.typed /\ env'.world = env.world /\ DOMAIN env' = DOMAIN env
BY DEF Frame, Spend

(* A step that lets nothing through. *)
LEMMA OnwardKind ==
  ASSUME Custodial, env'.typed = env.typed, env'.world = env.world, DOMAIN env' = DOMAIN env,
         DOMAIN worker' = DOMAIN worker,
         Good(sys', 1..env.typed, worker'), Onward(sys, sys')
  PROVE  Kind
<1>1. sys.app \in Seq(Sendable(Keys))
  BY DEF Custodial, Good, Books, InOrder
<1>2. Handed(sys, sys', AskedFor)
  BY <1>1, OnwardHanded
<1>3. Frame'
  BY DEF Custodial, Frame
<1> QED
  BY <1>2, <1>3 DEF Kind, Custodial

(* What may be handed without being asked for may be handed. *)
LEMMA HandedKind ==
  ASSUME Custodial, env'.typed \in {env.typed, env.typed + 1}, env'.world = env.world,
         DOMAIN env' = DOMAIN env, DOMAIN worker' = DOMAIN worker,
         Good(sys', 1..env'.typed, worker'), Handed(sys, sys', {})
  PROVE  Kind
<1>1. Handed(sys, sys', AskedFor)
  BY DEF Handed
<1>2. Frame'
  BY DEF Custodial, Frame
<1> QED
  BY <1>1, <1>2 DEF Kind, Custodial

(* A field of the state no book is about. *)
LEMMA SideStep ==
  ASSUME Custodial, UNCHANGED worker, Sound(sys'), SameBooks(sys, sys'),
         \/ UNCHANGED env
         \/ \E act \in Acts : Spend(act)
         \/ \E menu : env' = [env EXCEPT !.menu = menu]
  PROVE  Kind
<1>1. Good(sys', 1..env.typed, worker) /\ Onward(sys, sys')
  BY Unmoved DEF Custodial
<1>2. env'.typed = env.typed /\ env'.world = env.world /\ DOMAIN env' = DOMAIN env
  BY SpendFrame DEF Custodial
<1> QED
  BY <1>1, <1>2, OnwardKind

(* The hooks of other programs. *)
LEMMA DownstreamHooksKind ==
  ASSUME Custodial, DownstreamHooks PROVE Kind
<1>1. Good(sys, 1..env.typed, worker) /\ sys.hook # None /\ worker' = worker
  BY DEF Custodial, DownstreamHooks
<1>2. CASE sys' = EdgePassed(sys) /\ UNCHANGED env
  <2>1. Good(sys', 1..env.typed, worker) /\ Handed(sys, sys', {})
    BY <1>1, <1>2, EdgePassedGood
  <2> QED
    BY <1>1, <1>2, <2>1, HandedKind
<1>3. CASE sys' = EdgeConsumed(sys) /\ Spend("consume")
  <2>1. Good(sys', 1..env.typed, worker) /\ Onward(sys, sys')
    BY <1>1, <1>3, EdgeConsumedGood
  <2>2. env'.typed = env.typed /\ env'.world = env.world /\ DOMAIN env' = DOMAIN env
    BY <1>3, SpendFrame DEF Custodial, Acts
  <2> QED
    BY <1>1, <2>1, <2>2, OnwardKind
<1> QED
  BY <1>2, <1>3 DEF DownstreamHooks

(* The drain a posted release starts. *)
LEMMA StartDrainGood ==
  ASSUME Custodial, NEW s, Good(s, 1..env.typed, worker), s.flight = None, NEW token,
         StartDrain(s, token)
  PROVE  Good(sys', 1..env.typed, worker) /\ Onward(s, sys')
<1> DEFINE n == ReplayPrefixLength(s.gate.held, Space)
<1>0. Onward(s, s)
  BY DEF Onward
<1>1. CASE ~CanStartDrain(s.gate, token)
  BY <1>0, <1>1 DEF StartDrain
<1>2. CASE CanStartDrain(s.gate, token) /\ s.gate.origin # s.fg
  BY <1>2, BreakGateGood DEF StartDrain
<1>3. CASE CanStartDrain(s.gate, token) /\ s.gate.origin = s.fg
  <2>1. Shortfalls \subseteq {"recovery"}
    BY DEF Custodial, Frame, Dependable, Shortfalls
  <2>2. sys' = [s EXCEPT !.gate.held = SubSeq(@, n + 1, Len(@)), !.gate.inFlight = TRUE,
                         !.flight = [token |-> token, edges |-> SubSeq(s.gate.held, 1, n),
                                     cut |-> n + 1, next |-> 1]]
    BY <1>3, <2>1 DEF StartDrain
  <2>3. s.gate.active /\ token = s.gate.token
    BY <1>3 DEF CanStartDrain
  <2>4. n \in 0..Len(s.gate.held)
    <3>1. s.gate.held \in Seq(Typed(Keys))
      BY DEF Good, Books, InOrder, OnceEach
    <3> QED
      BY <3>1, PrefixWithin
  <2> HIDE DEF n
  <2> QED
    BY <2>2, <2>3, <2>4, DrainStarted
<1> QED
  BY <1>1, <1>2, <1>3

(* A posted message. *)
LEMMA HandlePostedKind ==
  ASSUME Custodial, HandlePosted PROVE Kind
<1> DEFINE message == Head(sys.posted)
           s == [sys EXCEPT !.posted = Tail(@)]
<1>1. Good(sys, 1..env.typed, worker) /\ UiIdle /\ worker' = worker /\ env' = env
  BY DEF Custodial, HandlePosted
<1>2. Sound(s) /\ SameBooks(sys, s) /\ s.flight = sys.flight
  BY <1>1 DEF Good, Sound, Shape, QueueBounded, Excludes, SysFields, SameBooks
<1> HIDE DEF s
<1>3. Good(s, 1..env.typed, worker) /\ Onward(sys, s)
  BY <1>1, <1>2, Unmoved
<1>4. CASE StartDrain(s, message.token)
  <2>1. s.flight = None
    BY <1>1, <1>2 DEF UiIdle
  <2>2. Good(sys', 1..env.typed, worker) /\ Onward(s, sys')
    BY <1>3, <1>4, <2>1, StartDrainGood
  <2>3. Onward(sys, sys')
    BY <1>3, <2>2, OnwardOn
  <2> QED
    BY <1>1, <2>2, <2>3, OnwardKind
<1>5. CASE sys' = FailOpenGate(s, message.token, message.cause)
  <2>1. Onward(s, s)
    BY DEF Onward
  <2>2. Good(sys', 1..env.typed, worker) /\ Onward(s, sys')
    BY <1>3, <1>5, <2>1, BreakGateGood DEF FailOpenGate
  <2>3. Onward(sys, sys')
    BY <1>3, <2>2, OnwardOn
  <2> QED
    BY <1>1, <2>2, <2>3, OnwardKind
<1>6. CASE \E taken \in TakenCounts(s) : sys' = SendPending(s, taken)
  <2>1. sys' = SendPending(s, PendingLength(s))
    BY <1>6 DEF TakenCounts, Shortfalls, Custodial, Frame, Dependable
  <2>2. Good(sys', 1..env.typed, worker) /\ Handed(s, sys', {})
    BY <1>3, <2>1, SendPendingGood
  <2>3. Handed(sys, sys', {})
    BY <1>3, <2>2, OnwardThenHanded
  <2> QED
    BY <1>1, <2>2, <2>3, HandedKind
<1> QED
  BY <1>4, <1>5, <1>6 DEF HandlePosted, s

(* The inputs of a drain, one after the other, and its end. *)
LEMMA SubmitKind ==
  ASSUME Custodial, SubmitNext \/ SubmitReturns PROVE Kind
<1> DEFINE q == sys.flight.edges
<1>1. /\ Good(sys, 1..env.typed, worker) /\ worker' = worker /\ env' = env
      /\ sys.flight # None /\ sys.hook = None
  BY DEF Custodial, SubmitNext, SubmitReturns
<1>2. sys.flight.cut = Len(q) + 1 /\ sys.flight.next \in Nat /\ Len(q) \in Nat
  <2>1. /\ sys.flight.cut = Len(q) + 1 /\ q \in Seq(Edges) /\ sys.flight.next \in Nat
    BY <1>1 DEF Good, Books, InOrder, Drains
  <2> DEFINE E == Edges
  <2> HIDE DEF E
  <2>2. q \in Seq(E)
    BY <2>1 DEF E
  <2> HIDE DEF q
  <2> QED
    BY <2>1, <2>2
<1>3. CASE SubmitNext
  <2>1. CASE sys.flight.next <= Len(q)
    <3>1. sys' = HookDrainedEdge(sys)
      BY <1>3, <2>1 DEF SubmitNext
    <3>2. Good(sys', 1..env.typed, worker) /\ Handed(sys, sys', {})
      BY <1>1, <2>1, <3>1, HookDrainedEdgeGood
    <3> QED
      BY <1>1, <3>2, HandedKind
  <2>2. CASE ~(sys.flight.next <= Len(q))
    <3>1. sys' = HookFence(sys) /\ sys.flight.next = Len(q) + 1
      BY <1>2, <1>3, <2>2 DEF SubmitNext
    <3>2. Good(sys', 1..env.typed, worker) /\ Onward(sys, sys')
      BY <1>1, <3>1, HookFenceGood
    <3> QED
      BY <1>1, <3>2, OnwardKind
  <2> QED
    BY <2>1, <2>2
<1>4. CASE SubmitReturns
  <2>1. sys' = [sys EXCEPT !.flight = None] /\ sys.flight.next > Len(q) + 1
    BY <1>2, <1>4 DEF SubmitReturns
  <2>2. Good(sys', 1..env.typed, worker) /\ Onward(sys, sys')
    BY <1>1, <2>1, DrainReturned
  <2> QED
    BY <1>1, <2>2, OnwardKind
<1> QED
  BY <1>3, <1>4

(* The timer. *)
LEMMA TimerTickKind ==
  ASSUME Custodial, TimerTick PROVE Kind
<1> DEFINE Checked == RecordEngineFault(sys)
           Hooked(reinstall) == IF reinstall THEN ReinstallHooks(Checked) ELSE Checked
           Expired(reinstall) == ExpireRetained(ExpireGate(Hooked(reinstall)))
           Back(reinstall, handsBack) ==
             IF handsBack /\ MayHandBack(Expired(reinstall)) THEN HandBack(Expired(reinstall))
             ELSE Expired(reinstall)
<1>1. Good(sys, 1..env.typed, worker) /\ sys.late = None /\ worker' = worker
  BY DEF Custodial, TimerTick, UiIdle
<1>2. PICK reinstall \in BOOLEAN, handsBack \in BOOLEAN :
        /\ IF reinstall THEN Spend("reinstall") ELSE UNCHANGED env
        /\ \E taken \in TakenCounts(Back(reinstall, handsBack)) :
             sys' = SendPending(Back(reinstall, handsBack), taken)
  BY DEF TimerTick
<1> DEFINE checked == Checked
           hooked == Hooked(reinstall)
           gated == ExpireGate(hooked)
           expired == Expired(reinstall)
           back == Back(reinstall, handsBack)
<1>3. Good(checked, 1..env.typed, worker) /\ Onward(sys, checked)
  BY <1>1, RecordEngineFaultGood
<1> HIDE DEF Checked
<1>4. Good(hooked, 1..env.typed, worker) /\ Onward(sys, hooked)
  BY <1>3, ReinstallHooksGood, OnwardOn
<1> HIDE DEF Hooked
<1>5. Good(gated, 1..env.typed, worker) /\ Onward(sys, gated)
  BY <1>4, ExpireGateGood, OnwardOn
<1>6. gated.late = None
  BY <1>1, <1>5 DEF Onward
<1>7. Good(expired, 1..env.typed, worker) /\ Onward(sys, expired)
  <2> HIDE DEF gated
  <2>1. Good(ExpireRetained(gated), 1..env.typed, worker) /\ Onward(sys, ExpireRetained(gated))
    BY <1>5, <1>6, ExpireRetainedGood, OnwardOn
  <2> QED
    BY <2>1 DEF gated
<1> HIDE DEF Expired
<1>8. Good(back, 1..env.typed, worker) /\ Onward(sys, back)
  <2>1. CASE handsBack /\ MayHandBack(expired)
    <3>1. /\ expired.retained # None /\ ~expired.retained.recovering
          /\ ~expired.retained.uncertain /\ expired.late = None
      BY <1>1, <1>7, <2>1 DEF MayHandBack, Onward
    <3>2. Good(HandBack(expired), 1..env.typed, worker) /\ Onward(sys, HandBack(expired))
      BY <1>7, <3>1, HandBackGood, OnwardOn
    <3> QED
      BY <2>1, <3>2
  <2>2. CASE ~(handsBack /\ MayHandBack(expired))
    BY <1>7, <2>2
  <2> QED
    BY <2>1, <2>2
<1> HIDE DEF Back
<1>9. sys' = SendPending(back, PendingLength(back))
  BY <1>2 DEF TakenCounts, Shortfalls, Custodial, Frame, Dependable
<1>10. Good(sys', 1..env.typed, worker) /\ Handed(sys, sys', {})
  BY <1>8, <1>9, SendPendingGood, OnwardThenHanded
<1>11. env'.typed = env.typed /\ env'.world = env.world /\ DOMAIN env' = DOMAIN env
  BY <1>2, SpendFrame DEF Custodial, Acts
<1> QED
  BY <1>1, <1>10, <1>11, HandedKind

(* A message the UI thread handles after the worker gave up waiting. *)
LEMMA LateMessageKind ==
  ASSUME Custodial, LateMessage PROVE Kind
<1> DEFINE s == [sys EXCEPT !.late = None]
<1>0. /\ Good(sys, 1..env.typed, worker) /\ worker' = worker /\ env' = env
      /\ sys.late # None /\ sys' = Handle(s, sys.late)
  BY DEF Custodial, LateMessage
<1>1. Sound(s) /\ sys.late.kind \in SentKinds
  BY <1>0 DEF Good, Sound, Shape, QueueBounded, Excludes, SysFields
<1>2. /\ s.gate = sys.gate /\ s.flight = sys.flight /\ s.hook = sys.hook
      /\ s.releases = sys.releases /\ s.replay = sys.replay /\ s.retained = sys.retained
      /\ s.app = sys.app /\ s.ended = sys.ended /\ s.observed = sys.observed
  BY <1>0 DEF Good, Sound, Shape, SysFields
<1> HIDE DEF s
<1>3. /\ InTransit(s) = InTransit(sys) /\ AtHook(s) = AtHook(sys) /\ Kept(s) = Kept(sys)
      /\ Received(s) = Received(sys)
  BY <1>2 DEF InTransit, AtHook, Kept, Received
<1>4. Books(s, 1..env.typed)
  BY <1>0, <1>2, <1>3 DEF Good, Books, InOrder, Apart, Accounted
<1>5. worker.pc \in {"recheck", "mark"} => SameRecord(sys, worker.record)
  BY <1>0 DEF Good, Tracked, Knows
<1>6. Tracked(s, worker)
  BY <1>0, <1>2, <1>5 DEF Good, Tracked, Knows, Sending, SameRecord
<1>7. Untyped(s, worker)
  BY <1>0, <1>2, <1>3 DEF Good, Untyped
<1>8. Good(s, 1..env.typed, worker)
  BY <1>1, <1>4, <1>6, <1>7 DEF Good
<1>9. worker.pc \in {"recheck", "mark"} => s.retained # None
  BY <1>2, <1>5 DEF SameRecord
<1>10. Good(sys', 1..env.typed, worker) /\ Onward(s, sys')
  BY <1>0, <1>1, <1>8, <1>9, HandleGood
<1>11. s.app \in Seq(Sendable(Keys))
  BY <1>4 DEF Books, InOrder
<1>12. Handed(s, sys', {})
  BY <1>10, <1>11, OnwardHanded
<1>13. Handed(sys, sys', {})
  BY <1>2, <1>3, <1>12 DEF Handed, Leaving
<1> QED
  BY <1>0, <1>10, <1>13, HandedKind

(* Every step of the UI thread. *)
LEMMA UiThreadKind ==
  ASSUME Custodial, UiThread PROVE Kind
BY DownstreamHooksKind, HandlePostedKind, SubmitKind, TimerTickKind, LateMessageKind DEF UiThread

(* A physical edge. *)
LEMMA PhysicalEdgeKind ==
  ASSUME Custodial, PhysicalEdge PROVE Kind
<1>1. PICK key \in {Space} \cup env.world.letters, down \in BOOLEAN, allowed \in PrivacyAnswers :
        LET e == [id |-> env.typed + 1, key |-> key, down |-> down, rep |-> FALSE]
        IN  /\ sys' = HookEdge(sys, e, allowed)
            /\ env' = [env EXCEPT !.left.edge = @ - 1, !.typed = @ + 1,
                                  !.pressed = IF down THEN @ \cup {key} ELSE @ \ {key}]
  BY DEF PhysicalEdge
<1> DEFINE e == [id |-> env.typed + 1, key |-> key, down |-> down, rep |-> FALSE]
<1>2. /\ Good(sys, 1..env.typed, worker) /\ worker' = worker /\ sys.hook = None
      /\ Frame
  BY DEF Custodial, PhysicalEdge, HooksFree
<1>3. e \in Typed(Keys) /\ e.id = env.typed + 1
  <2>1. env.world.letters \subseteq Letters /\ env.typed + 1 \in Nat \ {0}
    BY <1>2, WorldAssumption DEF Frame, World
  <2> QED
    BY <2>1 DEF Typed, Keys
<1>4. e.id \notin 1..env.typed /\ (1..env.typed) \cup {e.id} = 1..(env.typed + 1)
  BY <1>2, <1>3 DEF Frame
<1>5. env'.typed = env.typed + 1 /\ env'.world = env.world /\ DOMAIN env' = DOMAIN env
  BY <1>1, <1>2 DEF Frame
<1>6. sys' = HookEdge(sys, e, allowed)
  BY <1>1
<1> HIDE DEF e
<1>7. Good(sys', (1..env.typed) \cup {e.id}, worker) /\ Handed(sys, sys', {})
  BY <1>2, <1>3, <1>4, <1>6, HookEdgeGood
<1>8. Good(sys', 1..env'.typed, worker)
  BY <1>4, <1>5, <1>7
<1> QED
  BY <1>2, <1>5, <1>7, <1>8, HandedKind

(* A record that ages, or is given a new lifetime. *)
LEMMA RecordAged ==
  ASSUME Custodial, sys.retained # None, NEW age \in {"fresh", "expired", "overdue"},
         age = "overdue" => sys.retained.recovering /\ worker.pc \notin {"replay", "replayed"},
         Sound(sys'), sys'.retained = [sys.retained EXCEPT !.age = age],
         /\ sys'.gate = sys.gate /\ sys'.flight = sys.flight /\ sys'.hook = sys.hook
         /\ sys'.releases = sys.releases /\ sys'.replay = sys.replay /\ sys'.app = sys.app
         /\ sys'.ended = sys.ended /\ sys'.late = sys.late /\ sys'.observed = sys.observed,
         UNCHANGED worker,
         UNCHANGED env \/ \E menu : env' = [env EXCEPT !.menu = menu]
  PROVE  Kind
<1> DEFINE all == 1..env.typed
<1>0. /\ Good(sys, all, worker) /\ InOrder(sys) /\ Apart(sys) /\ Accounted(sys, all)
      /\ Tracked(sys, worker) /\ Untyped(sys, worker)
  BY DEF Custodial, Good, Books
<1> HIDE DEF all
<1>1. sys.retained \in Records
  BY <1>0 DEF InOrder
<1>2. /\ sys'.retained \in Records /\ sys'.retained # None /\ sys'.retained.age = age
      /\ sys'.retained.token = sys.retained.token /\ sys'.retained.events = sys.retained.events
      /\ sys'.retained.uncertain = sys.retained.uncertain
      /\ sys'.retained.recovering = sys.retained.recovering
  <2>1. sys'.retained \in Records
    BY <1>1 DEF Records
  <2> QED
    BY <1>1, <2>1, NoneAssumption DEF Records
<1>3. /\ InTransit(sys') = InTransit(sys) /\ AtHook(sys') = AtHook(sys) /\ Kept(sys') = Kept(sys)
      /\ Received(sys') = Received(sys)
  BY <1>2 DEF InTransit, AtHook, Kept, Received
<1>4. InOrder(sys')
  BY <1>0, <1>2 DEF InOrder
<1>5. Apart(sys') /\ Accounted(sys', all)
  BY <1>0, <1>3 DEF Apart, Accounted
<1>6. Tracked(sys', worker)
  BY <1>0, <1>2 DEF Tracked, Knows, Sending, SameRecord
<1>7. Untyped(sys', worker)
  BY <1>0, <1>2, <1>3 DEF Untyped
<1>8. Good(sys', 1..env.typed, worker) /\ Onward(sys, sys')
  BY <1>3, <1>4, <1>5, <1>6, <1>7 DEF Good, Books, Onward, all
<1>9. env'.typed = env.typed /\ env'.world = env.world /\ DOMAIN env' = DOMAIN env
  BY SpendFrame DEF Custodial
<1> QED
  BY <1>8, <1>9, OnwardKind

(* A worker at work on a record is quicker than the record's grace. *)
LEMMA QuickWorker ==
  ASSUME Custodial, WorkerMayBeSlow PROVE worker.pc \notin {"mark", "replay", "replayed"}
BY DEF Custodial, Frame, Dependable, WorkerMayBeSlow, SlowWorker

(* Whatever the user does. *)
LEMMA UserKind ==
  ASSUME Custodial, User PROVE Kind
<1>0. Good(sys, 1..env.typed, worker) /\ Sound(sys) /\ Frame
  BY DEF Custodial, Good
<1>1. CASE PhysicalEdge
  BY <1>1, PhysicalEdgeKind
<1>2. CASE HotkeyPressed
  <2>1. Good(sys', 1..env.typed, worker) /\ Onward(sys, sys')
    BY <1>0, <1>2, HookHotkeyGood DEF HotkeyPressed
  <2>2. env'.typed = env.typed /\ env'.world = env.world /\ DOMAIN env' = DOMAIN env /\ worker' = worker
    BY <1>0, <1>2, SpendFrame DEF HotkeyPressed, Acts
  <2> QED
    BY <2>1, <2>2, OnwardKind
<1>3. CASE MouseButton
  <2>1. Good(sys', 1..env.typed, worker) /\ Onward(sys, sys')
    BY <1>0, <1>3, HookClickGood DEF MouseButton
  <2>2. env'.typed = env.typed /\ env'.world = env.world /\ DOMAIN env' = DOMAIN env /\ worker' = worker
    BY <1>0, <1>3, SpendFrame DEF MouseButton, Acts
  <2> QED
    BY <2>1, <2>2, OnwardKind
<1>4. CASE InjectedKey
  <2>1. Good(sys', 1..env.typed, worker) /\ Onward(sys, sys')
    BY <1>0, <1>4, HookInjectedKeyGood DEF InjectedKey
  <2>2. env'.typed = env.typed /\ env'.world = env.world /\ DOMAIN env' = DOMAIN env /\ worker' = worker
    BY <1>0, <1>4, SpendFrame DEF InjectedKey, Acts
  <2> QED
    BY <2>1, <2>2, OnwardKind
<1>5. CASE FocusMoves
  <2>1. Sound(sys') /\ SameBooks(sys, sys')
    BY <1>0, <1>5 DEF FocusMoves, Sound, Shape, QueueBounded, Excludes, SysFields, Places, SameBooks
  <2>2. UNCHANGED worker /\ \E act \in Acts : Spend(act)
    BY <1>5 DEF FocusMoves, Acts
  <2> QED
    BY <2>1, <2>2, SideStep
<1>6. CASE OpenMenu
  <2>1. Good(sys', 1..env.typed, worker) /\ Onward(sys, sys')
    BY <1>0, <1>6, HookClickGood DEF OpenMenu
  <2>2. env'.typed = env.typed /\ env'.world = env.world /\ DOMAIN env' = DOMAIN env /\ worker' = worker
    BY <1>0, <1>6 DEF OpenMenu, Frame
  <2> QED
    BY <2>1, <2>2, OnwardKind
<1>7. CASE ToggleAuto
  <2>1. Sound(sys') /\ SameBooks(sys, sys')
    BY <1>0, <1>7 DEF ToggleAuto, Sound, Shape, QueueBounded, Excludes, SysFields, SameBooks
  <2>2. UNCHANGED worker /\ \E menu : env' = [env EXCEPT !.menu = menu]
    BY <1>7 DEF ToggleAuto, ChooseFromMenu
  <2> QED
    BY <2>1, <2>2, SideStep
<1>8. CASE PrepareRecovery
  <2>1. /\ sys.retained # None /\ sys' = [sys EXCEPT !.retained.age = "fresh", !.armed = TRUE]
        /\ UNCHANGED worker /\ \E menu : env' = [env EXCEPT !.menu = menu]
    BY <1>8 DEF PrepareRecovery, ChooseFromMenu
  <2>2. Sound(sys')
    BY <1>0, <2>1 DEF Sound, Shape, QueueBounded, Excludes, SysFields
  <2>3. /\ sys'.retained = [sys.retained EXCEPT !.age = "fresh"]
        /\ sys'.gate = sys.gate /\ sys'.flight = sys.flight /\ sys'.hook = sys.hook
        /\ sys'.releases = sys.releases /\ sys'.replay = sys.replay /\ sys'.app = sys.app
        /\ sys'.ended = sys.ended /\ sys'.late = sys.late /\ sys'.observed = sys.observed
    BY <1>0, <2>1 DEF Sound, Shape, SysFields
  <2> QED
    BY <2>1, <2>2, <2>3, RecordAged
<1>9. CASE DiscardRetained
  <2>1. /\ sys.retained # None /\ sys.late = None /\ UNCHANGED worker
        /\ \E menu : env' = [env EXCEPT !.menu = menu]
        /\ sys' = IF sys.retained.recovering THEN [sys EXCEPT !.armed = FALSE] ELSE DropRecord(sys)
    BY <1>9 DEF DiscardRetained, ChooseFromMenu, UiIdle
  <2>2. CASE sys.retained.recovering
    <3>1. Sound(sys') /\ SameBooks(sys, sys')
      BY <1>0, <2>1, <2>2 DEF Sound, Shape, QueueBounded, Excludes, SysFields, SameBooks
    <3> QED
      BY <2>1, <3>1, SideStep
  <2>3. CASE ~sys.retained.recovering
    <3>1. worker.pc \notin {"replay", "replayed"}
      BY <1>0, <2>3 DEF Good, Tracked, Sending
    <3>2. Good(sys', 1..env.typed, worker) /\ Onward(sys, sys')
      BY <1>0, <2>1, <2>3, <3>1, DropRecordGood
    <3>3. env'.typed = env.typed /\ env'.world = env.world /\ DOMAIN env' = DOMAIN env
      BY <1>0, <2>1, SpendFrame
    <3> QED
      BY <2>1, <3>2, <3>3, OnwardKind
  <2> QED
    BY <2>2, <2>3
<1> QED
  BY <1>1, <1>2, <1>3, <1>4, <1>5, <1>6, <1>7, <1>8, <1>9 DEF User

(* Time passes. *)
LEMMA ClockKind ==
  ASSUME Custodial, Clock PROVE Kind
<1>0. Good(sys, 1..env.typed, worker) /\ Sound(sys)
  BY DEF Custodial, Good
<1>1. CASE GateDeadlinePasses
  <2>1. Sound(sys')
    BY <1>0, <1>1 DEF GateDeadlinePasses, Sound, Shape, QueueBounded, Excludes, SysFields, GateFields
  <2>2. /\ sys'.gate.held = sys.gate.held /\ sys'.gate.active = sys.gate.active
        /\ sys'.gate.token = sys.gate.token
    BY <1>0, <1>1 DEF GateDeadlinePasses, Sound, Shape, SysFields, GateFields
  <2>3. /\ sys'.flight = sys.flight /\ sys'.hook = sys.hook
        /\ sys'.releases = sys.releases /\ sys'.replay = sys.replay
        /\ sys'.retained = sys.retained /\ sys'.app = sys.app /\ sys'.ended = sys.ended
        /\ sys'.late = sys.late /\ sys'.observed = sys.observed /\ sys.observed \in Nat
    BY <1>0, <1>1 DEF GateDeadlinePasses, Sound, Shape, SysFields
  <2>4. SameBooks(sys, sys')
    BY <2>2, <2>3 DEF SameBooks
  <2>5. UNCHANGED worker /\ UNCHANGED env
    BY <1>1 DEF GateDeadlinePasses
  <2> QED
    BY <2>1, <2>4, <2>5, SideStep
<1>2. CASE RecordAges
  <2> DEFINE age == IF sys.retained.age = "fresh" THEN "expired" ELSE "overdue"
  <2>1. /\ sys.retained # None /\ sys.retained.age # "overdue"
        /\ sys.retained.age = "expired" => sys.retained.recovering /\ WorkerMayBeSlow
        /\ sys' = [sys EXCEPT !.retained.age = IF @ = "fresh" THEN "expired" ELSE "overdue"]
        /\ UNCHANGED worker /\ UNCHANGED env
    BY <1>2 DEF RecordAges
  <2>2. sys.retained.age \in {"fresh", "expired", "overdue"}
    BY <1>0, <2>1 DEF Good, Books, InOrder, Records
  <2>3. Sound(sys')
    BY <1>0, <2>1 DEF Sound, Shape, QueueBounded, Excludes, SysFields
  <2>4. /\ sys'.retained = [sys.retained EXCEPT !.age = age]
        /\ sys'.gate = sys.gate /\ sys'.flight = sys.flight /\ sys'.hook = sys.hook
        /\ sys'.releases = sys.releases /\ sys'.replay = sys.replay /\ sys'.app = sys.app
        /\ sys'.ended = sys.ended /\ sys'.late = sys.late /\ sys'.observed = sys.observed
    BY <1>0, <2>1 DEF Sound, Shape, SysFields
  <2>5. age = "overdue" => sys.retained.recovering /\ worker.pc \notin {"replay", "replayed"}
    BY <2>1, <2>2, QuickWorker
  <2>6. age \in {"fresh", "expired", "overdue"}
    OBVIOUS
  <2> HIDE DEF age
  <2> QED
    BY <2>1, <2>3, <2>4, <2>5, <2>6, RecordAged
<1> QED
  BY <1>1, <1>2 DEF Clock

-------------------------------------------------------------------------------
(* The worker. *)

(* Where the worker is matters to the books only while it recovers a record. *)
LEMMA WorkerMoves ==
  ASSUME NEW s, NEW all, NEW w, Good(s, all, w), NEW v, v.pc \notin RecoveryPcs PROVE Good(s, all, v)
BY DEF Good, Tracked, Untyped, RecoveryPcs

(* A step after which the worker recovers no record. *)
LEMMA WorkerStepKind ==
  ASSUME Custodial, Good(sys', 1..env.typed, worker), Onward(sys, sys'),
         worker'.pc \notin RecoveryPcs, DOMAIN worker' = DOMAIN worker,
         UNCHANGED env \/ \E act \in Acts : Spend(act)
  PROVE  Kind
<1>1. Good(sys', 1..env.typed, worker')
  BY WorkerMoves
<1>2. env'.typed = env.typed /\ env'.world = env.world /\ DOMAIN env' = DOMAIN env
  BY SpendFrame DEF Custodial
<1> QED
  BY <1>1, <1>2, OnwardKind

(* A step that reads. *)
LEMMA ReadKind ==
  ASSUME Custodial, worker'.pc \notin RecoveryPcs, DOMAIN worker' = DOMAIN worker,
         UNCHANGED sys, UNCHANGED env
  PROVE  Kind
<1>1. Good(sys', 1..env.typed, worker)
  BY DEF Custodial
<1>2. Onward(sys, sys')
  BY DEF Onward
<1> QED
  BY <1>1, <1>2, WorkerStepKind

(* A step that posts. *)
LEMMA PostKind ==
  ASSUME Custodial, worker'.pc \notin RecoveryPcs, DOMAIN worker' = DOMAIN worker,
         NEW message, sys' = Post(sys, message), UNCHANGED env
  PROVE  Kind
<1>1. Good(sys', 1..env.typed, worker) /\ Onward(sys, sys')
  BY PostGood DEF Custodial
<1> QED
  BY <1>1, WorkerStepKind

(* A step that changes a field no book is about. *)
LEMMA AsideKind ==
  ASSUME Custodial, worker'.pc \notin RecoveryPcs, DOMAIN worker' = DOMAIN worker,
         Sound(sys'), SameBooks(sys, sys'), UNCHANGED env \/ \E act \in Acts : Spend(act)
  PROVE  Kind
<1>1. Good(sys', 1..env.typed, worker) /\ Onward(sys, sys')
  BY Unmoved DEF Custodial
<1> QED
  BY <1>1, WorkerStepKind

(* A step that sends a message, handled now or left waiting. *)
LEMMA SendKind ==
  ASSUME Custodial, worker.pc \notin RecoveryPcs, worker'.pc \notin RecoveryPcs,
         DOMAIN worker' = DOMAIN worker, UNCHANGED env, NEW message, message.kind \in SentKinds,
         \/ sys' = Handle(sys, message)
         \/ sys' = [sys EXCEPT !.late = message]
  PROVE  Kind
<1>0. Good(sys, 1..env.typed, worker) /\ Sound(sys)
  BY DEF Custodial, Good
<1>1. CASE sys' = Handle(sys, message)
  <2>1. Good(sys', 1..env.typed, worker) /\ Onward(sys, sys')
    BY <1>0, <1>1, HandleGood DEF RecoveryPcs
  <2> QED
    BY <2>1, WorkerStepKind
<1>2. CASE sys' = [sys EXCEPT !.late = message]
  <2>1. Sound(sys')
    BY <1>0, <1>2 DEF Sound, Shape, QueueBounded, Excludes, SysFields
  <2>2. /\ sys'.gate = sys.gate /\ sys'.flight = sys.flight /\ sys'.hook = sys.hook
        /\ sys'.releases = sys.releases /\ sys'.replay = sys.replay /\ sys'.retained = sys.retained
        /\ sys'.app = sys.app /\ sys'.ended = sys.ended /\ sys'.observed = sys.observed
    BY <1>0, <1>2 DEF Sound, Shape, SysFields
  <2>3. /\ InTransit(sys') = InTransit(sys) /\ AtHook(sys') = AtHook(sys) /\ Kept(sys') = Kept(sys)
        /\ Received(sys') = Received(sys)
    BY <2>2 DEF InTransit, AtHook, Kept, Received
  <2>4. Books(sys', 1..env.typed)
    BY <1>0, <2>2, <2>3 DEF Good, Books, InOrder, Apart, Accounted
  <2>5. Tracked(sys', worker)
    BY <1>0, <2>2 DEF Good, Tracked, RecoveryPcs
  <2>6. Untyped(sys', worker)
    BY <1>0, <2>2, <2>3 DEF Good, Untyped
  <2>7. Good(sys', 1..env.typed, worker')
    BY <2>1, <2>4, <2>5, <2>6, WorkerMoves DEF Good
  <2>8. Handed(sys, sys', {})
    <3> DEFINE m == [sys EXCEPT !.late = sys.late]
    <3>1. sys.app \in Seq(Sendable(Keys)) /\ Onward(sys, sys)
      BY <1>0 DEF Good, Books, InOrder, Onward
    <3>2. Handed(sys, sys, {})
      BY <3>1, OnwardHanded
    <3> QED
      BY <2>2, <2>3, <3>2 DEF Handed, Leaving
  <2> QED
    BY <2>7, <2>8, HandedKind
<1> QED
  BY <1>1, <1>2

(* What the worker is made of. *)
Fields(w) == DOMAIN w = WorkerFields

(* Moving the worker on changes the fields it names, and keeps the others. *)
LEMMA WorkerParts ==
  ASSUME NEW w, Fields(w)
  PROVE  /\ \A pc : Fields(Goto(w, pc)) /\ Goto(w, pc).pc = pc
         /\ Fields(Invalidated(w)) /\ \A epoch : Fields(InEpoch(w, epoch))
         /\ \A target : Fields(AtTarget(w, target))
         /\ Fields(Idle(w)) /\ Idle(w).pc = "idle"
BY DEF Fields, WorkerFields, Goto, Invalidated, InEpoch, AtTarget, Idle

(* process_gate_drain_ready and process_key never begin a recovery. *)
LEMMA EventParts ==
  ASSUME NEW w, Fields(w), NEW event, NEW choice
  PROVE  /\ \A token, ok : LET v == AfterDrainReady(w, token, ok) IN Fields(v) /\ v.pc \notin RecoveryPcs
         /\ LET v == AfterFreshEvent(w, event, choice) IN Fields(v) /\ v.pc \notin RecoveryPcs
<1>1. ASSUME NEW token, NEW ok
      PROVE  LET v == AfterDrainReady(w, token, ok) IN Fields(v) /\ v.pc \notin RecoveryPcs
  BY DEF AfterDrainReady, Fields, WorkerFields, RecoveryPcs, Goto, Invalidated
<1>2. ASSUME NEW key, NEW converts
      PROVE  LET v == AfterKey(w, key, converts) IN Fields(v) /\ v.pc \notin RecoveryPcs
  <2> DEFINE here == AtTarget(w, key.target)
  <2>1. Fields(here)
    BY WorkerParts
  <2> HIDE DEF here
  <2>2. ASSUME NEW x PROVE LET v == Goto(x, "finish") IN v.pc \notin RecoveryPcs \/ ~Fields(x)
    BY WorkerParts DEF RecoveryPcs
  <2> QED
    BY <2>1 DEF AfterKey, Fields, WorkerFields, RecoveryPcs, Goto, Invalidated, here
<1>3. ASSUME NEW key, NEW edits
      PROVE  LET v == AfterHotkey(w, key, edits) IN Fields(v) /\ v.pc \notin RecoveryPcs
  <2> DEFINE here == AtTarget(w, key.target)
  <2>1. Fields(here)
    BY WorkerParts
  <2> HIDE DEF here
  <2> QED
    BY <2>1 DEF AfterHotkey, Fields, WorkerFields, RecoveryPcs, Goto, here
<1>4. LET v == Goto(Invalidated(w), "finish") IN Fields(v) /\ v.pc \notin RecoveryPcs
  BY WorkerParts DEF RecoveryPcs
<1> QED
  BY <1>1, <1>2, <1>3, <1>4 DEF AfterFreshEvent

(* The steps of the worker that only read. *)
LEMMA WorkerReads ==
  ASSUME Frame,
         \/ Dispatch \/ GuardConversion \/ SourceSettles \/ CheckSource \/ GuardEdit \/ SendEdit
         \/ ReadCancelledGate \/ DecideResume
  PROVE  Fields(worker') /\ worker'.pc \notin RecoveryPcs /\ UNCHANGED <<sys, env>>
<1>0. Fields(worker)
  BY DEF Frame, Fields
<1>1. CASE Dispatch
  <2> DEFINE event == worker.event.event
             current == InEpoch(worker, sys.epoch)
  <2>1. Fields(current)
    BY <1>0, WorkerParts
  <2>2. PICK choice \in {"dropped", "plain", "converts"} :
          worker' =
            CASE event.kind = "expired" -> Goto(worker, "resume")
              [] event.kind = "handedBack" ->
                   Goto(Invalidated(worker), IF event.full THEN "resume" ELSE "finish")
              [] event.kind = "recover" -> Goto(current, "recover")
              [] event.kind = "drainReady" -> AfterDrainReady(current, event.token, event.ok)
              [] OTHER ->
                   IF worker.event.epoch # sys.epoch THEN Goto(current, "finish")
                   ELSE IF choice = "dropped" THEN Goto(Invalidated(current), "finish")
                   ELSE AfterFreshEvent(current, event, choice = "converts")
    BY <1>1 DEF Dispatch
  <2> HIDE DEF current, event
  <2>3. /\ Fields(Goto(worker, "resume")) /\ Goto(worker, "resume").pc = "resume"
        /\ \A pc : Fields(Goto(Invalidated(worker), pc)) /\ Goto(Invalidated(worker), pc).pc = pc
        /\ \A pc : Fields(Goto(current, pc)) /\ Goto(current, pc).pc = pc
        /\ \A pc : Fields(Goto(Invalidated(current), pc)) /\ Goto(Invalidated(current), pc).pc = pc
    BY <1>0, <2>1, WorkerParts
  <2>4. /\ Fields(AfterDrainReady(current, event.token, event.ok))
        /\ AfterDrainReady(current, event.token, event.ok).pc \notin RecoveryPcs
        /\ Fields(AfterFreshEvent(current, event, choice = "converts"))
        /\ AfterFreshEvent(current, event, choice = "converts").pc \notin RecoveryPcs
    BY <2>1, EventParts
  <2>5. "resume" \notin RecoveryPcs /\ "finish" \notin RecoveryPcs /\ "recover" \notin RecoveryPcs
    BY DEF RecoveryPcs
  <2>6. Fields(worker') /\ worker'.pc \notin RecoveryPcs
    BY <2>2, <2>3, <2>4, <2>5
  <2> QED
    BY <1>1, <2>6 DEF Dispatch, WorkerOnly
<1>2. CASE GuardConversion
  BY <1>0, <1>2 DEF GuardConversion, WorkerOnly, Fields, WorkerFields, RecoveryPcs, Goto
<1>3. CASE SourceSettles
  BY <1>0, <1>3 DEF SourceSettles, Step, WorkerOnly, Fields, WorkerFields, RecoveryPcs, Goto
<1>4. CASE CheckSource
  BY <1>0, <1>4 DEF CheckSource, WorkerOnly, Fields, WorkerFields, RecoveryPcs, Goto, Invalidated
<1>5. CASE GuardEdit
  BY <1>0, <1>5 DEF GuardEdit, WorkerOnly, Fields, WorkerFields, RecoveryPcs, Goto
<1>6. CASE SendEdit
  BY <1>0, <1>6 DEF SendEdit, WorkerOnly, Fields, WorkerFields, RecoveryPcs
<1>7. CASE ReadCancelledGate
  BY <1>0, <1>7 DEF ReadCancelledGate, WorkerOnly, Fields, WorkerFields, RecoveryPcs, Invalidated
<1>8. CASE DecideResume
  BY <1>0, <1>8 DEF DecideResume, WorkerOnly, Fields, WorkerFields, RecoveryPcs, Goto
<1> QED
  BY <1>1, <1>2, <1>3, <1>4, <1>5, <1>6, <1>7, <1>8

(* The worker takes an event from its queue. *)
LEMMA TakeEventKind ==
  ASSUME Custodial, TakeEvent PROVE Kind
<1>0. Sound(sys) /\ Fields(worker)
  BY DEF Custodial, Good, Frame, Fields
<1>1. sys' = [sys EXCEPT !.queue = Tail(@)] /\ sys.queue # <<>> /\ env' = env
  BY DEF TakeEvent
<1>2. /\ DOMAIN sys' = DOMAIN sys /\ \A x \in SysFields \ {"queue"} : sys'[x] = sys[x]
      /\ sys'.queue = Tail(sys.queue)
  BY <1>0, <1>1 DEF Sound, Shape, SysFields
<1>3. PICK events : sys.queue \in Seq(events)
  BY <1>0 DEF Sound, QueueBounded
<1>4. Tail(sys.queue) \in Seq(events) /\ Len(Tail(sys.queue)) = Len(sys.queue) - 1
  BY <1>1, <1>3
<1>5. QueueBounded(sys')
  BY <1>0, <1>2, <1>3, <1>4, CapacityAssumption DEF Sound, QueueBounded
<1>6. Sound(sys')
  BY <1>0, <1>2, <1>5 DEF Sound, Shape, Excludes, SysFields
<1>7. SameBooks(sys, sys')
  BY <1>0, <1>2 DEF Sound, Shape, SysFields, SameBooks
<1>8. Fields(worker') /\ worker'.pc \notin RecoveryPcs
  BY <1>0 DEF TakeEvent, Fields, WorkerFields, RecoveryPcs
<1> QED
  BY <1>0, <1>1, <1>6, <1>7, <1>8, AsideKind DEF Fields

(* The steps that post. *)
LEMMA WorkerPostsKind ==
  ASSUME Custodial, Finish \/ AckRefused \/ EndConversion PROVE Kind
<1>0. Fields(worker)
  BY DEF Custodial, Frame, Fields
<1>1. /\ sys' = sys \/ \E message : sys' = Post(sys, message)
      /\ env' = env
  BY DEF Finish, AckRefused, EndConversion
<1>2. Fields(worker') /\ worker'.pc \notin RecoveryPcs
  <2>1. CASE Finish
    <3>1. worker' = Idle(worker)
      BY <2>1 DEF Finish
    <3> QED
      BY <1>0, <3>1, WorkerParts DEF RecoveryPcs
  <2>2. CASE AckRefused
    <3>1. worker' = Goto(worker, "finish")
      BY <2>2 DEF AckRefused
    <3> QED
      BY <1>0, <3>1, WorkerParts DEF RecoveryPcs
  <2>3. CASE EndConversion
    BY <1>0, <2>3 DEF EndConversion, Fields, WorkerFields, RecoveryPcs
  <2> QED
    BY <2>1, <2>2, <2>3
<1>3. DOMAIN worker' = DOMAIN worker
  BY <1>0, <1>2 DEF Fields
<1>4. CASE sys' = sys
  BY <1>1, <1>2, <1>3, <1>4, ReadKind
<1>5. CASE \E message : sys' = Post(sys, message)
  BY <1>1, <1>2, <1>3, <1>5, PostKind
<1> QED
  BY <1>1, <1>4, <1>5

(* A message is sent from a step to one of two others. *)
LEMMA SentFields ==
  ASSUME NEW message, NEW accepted, NEW yes, NEW no, Fields(yes), Fields(no),
         yes.pc \notin RecoveryPcs, no.pc \notin RecoveryPcs, Send(message, accepted, yes, no)
  PROVE  /\ Fields(worker') /\ worker'.pc \notin RecoveryPcs
         /\ sys' = Handle(sys, message) \/ sys' = [sys EXCEPT !.late = message]
BY DEF Send

(* The acknowledgement, the budget, the hand-off and the arming of a gate. *)
LEMMA WorkerSendsKind ==
  ASSUME Custodial, SendAck \/ AskBudget \/ Handoff \/ ArmGate PROVE Kind
<1>0. Fields(worker) /\ Custodial
  BY DEF Custodial, Frame, Fields
<1>1. env' = env
  BY DEF SendAck, AskBudget, Handoff, ArmGate
<1>2. Fields(NoHandoff) /\ NoHandoff.pc = "ack"
  BY <1>0 DEF NoHandoff, Fields, WorkerFields, Goto
<1>3. /\ \A pc : Fields(Goto(worker, pc)) /\ Goto(worker, pc).pc = pc
      /\ "finish" \notin RecoveryPcs /\ "refused" \notin RecoveryPcs /\ "ack" \notin RecoveryPcs
      /\ "handoff" \notin RecoveryPcs /\ "guard" \notin RecoveryPcs /\ "armed" \notin RecoveryPcs
      /\ "end" \notin RecoveryPcs
  BY <1>0, WorkerParts DEF RecoveryPcs
<1>4. worker.pc \notin RecoveryPcs
  BY DEF SendAck, AskBudget, Handoff, ArmGate, RecoveryPcs
<1>5. ASSUME NEW message, message.kind \in SentKinds,
             Fields(worker'), worker'.pc \notin RecoveryPcs,
             sys' = Handle(sys, message) \/ sys' = [sys EXCEPT !.late = message]
      PROVE  Kind
  BY <1>0, <1>1, <1>4, <1>5, SendKind DEF Fields
<1>6. CASE SendAck
  <2> DEFINE message == [kind |-> "ack", token |-> worker.token, new |-> 0]
  <2>1. message.kind \in SentKinds
    BY DEF SentKinds
  <2>2. Send(message, AckAccepted(sys, worker.token, 0, TRUE), Goto(worker, "finish"), Goto(worker, "refused"))
    BY <1>6 DEF SendAck
  <2> HIDE DEF message
  <2>3. /\ Fields(worker') /\ worker'.pc \notin RecoveryPcs
        /\ sys' = Handle(sys, message) \/ sys' = [sys EXCEPT !.late = message]
    BY <1>3, <2>2 DEF Send
  <2> QED
    BY <1>5, <2>1, <2>3
<1>7. CASE AskBudget
  <2> DEFINE message == [kind |-> "budget", token |-> worker.token]
  <2>1. message.kind \in SentKinds
    BY DEF SentKinds
  <2>2. \/ Send(message, BudgetAllowed(sys, worker.token, TRUE), Goto(worker, "handoff"), NoHandoff)
        \/ sys' = sys /\ worker' = NoHandoff
    BY <1>7 DEF AskBudget
  <2> HIDE DEF message
  <2>3. CASE Send(message, BudgetAllowed(sys, worker.token, TRUE), Goto(worker, "handoff"), NoHandoff)
    <3>1. /\ Fields(worker') /\ worker'.pc \notin RecoveryPcs
          /\ sys' = Handle(sys, message) \/ sys' = [sys EXCEPT !.late = message]
      <4>1. worker' = Goto(worker, "handoff") \/ worker' = NoHandoff
        BY <2>3 DEF Send
      <4>2. sys' = Handle(sys, message) \/ sys' = [sys EXCEPT !.late = message]
        BY <2>3 DEF Send
      <4>3. Fields(worker') /\ worker'.pc \in {"handoff", "ack"}
        BY <1>2, <1>3, <4>1
      <4> QED
        BY <1>3, <4>2, <4>3
    <3> QED
      BY <1>5, <2>1, <3>1
  <2>4. CASE sys' = sys /\ worker' = NoHandoff
    BY <1>0, <1>1, <1>2, <1>3, <2>4, ReadKind DEF Fields
  <2> QED
    BY <2>2, <2>3, <2>4
<1>8. CASE Handoff
  <2> DEFINE message == [kind |-> "ack", token |-> worker.token, new |-> worker.deferred.seq]
             yes == [worker EXCEPT !.pc = "guard", !.deferred = None,
                                   !.token = worker.deferred.seq, !.forced = FALSE]
  <2>1. message.kind \in SentKinds
    BY DEF SentKinds
  <2>2. Send(message, AckAccepted(sys, worker.token, worker.deferred.seq, TRUE), yes, NoHandoff)
    BY <1>8 DEF Handoff
  <2>3. Fields(yes) /\ yes.pc = "guard"
    BY <1>0 DEF Fields, WorkerFields
  <2> HIDE DEF message, yes
  <2>4. /\ Fields(worker') /\ worker'.pc \notin RecoveryPcs
        /\ sys' = Handle(sys, message) \/ sys' = [sys EXCEPT !.late = message]
    BY <1>2, <1>3, <2>2, <2>3, SentFields
  <2> QED
    BY <1>5, <2>1, <2>4
<1>9. CASE ArmGate
  <2> DEFINE message == [kind |-> "arm", token |-> worker.token]
  <2>1. message.kind \in SentKinds
    BY DEF SentKinds
  <2>2. \/ Send(message, ArmAllowed(sys, worker.token), Goto(worker, "armed"), Goto(worker, "end"))
        \/ sys' = sys /\ worker' = Goto(worker, "armed")
    BY <1>9 DEF ArmGate
  <2> HIDE DEF message
  <2>3. CASE Send(message, ArmAllowed(sys, worker.token), Goto(worker, "armed"), Goto(worker, "end"))
    <3>1. /\ Fields(worker') /\ worker'.pc \notin RecoveryPcs
          /\ sys' = Handle(sys, message) \/ sys' = [sys EXCEPT !.late = message]
      BY <1>3, <2>3, SentFields
    <3> QED
      BY <1>5, <2>1, <3>1
  <2>4. CASE sys' = sys /\ worker' = Goto(worker, "armed")
    BY <1>0, <1>1, <1>3, <2>4, ReadKind DEF Fields
  <2> QED
    BY <2>2, <2>3, <2>4
<1> QED
  BY <1>6, <1>7, <1>8, <1>9

(* The steps that set a field of the shared state, and a contained panic. *)
LEMMA WorkerSetsKind ==
  ASSUME Custodial, ClaimHotkey \/ SelectionLeft \/ PauseAfterFailure \/ Resume \/ Panic PROVE Kind
<1>0. Sound(sys) /\ Fields(worker)
  BY DEF Custodial, Good, Frame, Fields
<1>1. /\ DOMAIN sys' = DOMAIN sys
      /\ \A x \in {"gate", "flight", "hook", "releases", "replay", "late", "typed", "observed",
                   "retained", "queue", "fg", "app", "ended"} : sys'[x] = sys[x]
  <2>1. CASE ClaimHotkey
    BY <1>0, <2>1 DEF ClaimHotkey, Sound, Shape, SysFields
  <2>2. CASE SelectionLeft
    BY <1>0, <2>2 DEF SelectionLeft, Sound, Shape, SysFields
  <2>3. CASE PauseAfterFailure
    <3> DEFINE reason == IF worker.panicked THEN "fault" ELSE "edit"
    <3> HIDE DEF reason
    <3>1. \/ sys' = sys
          \/ sys' = [sys EXCEPT !.auto = FALSE, !.paused = TRUE, !.reason = reason,
                                !.epoch = @ + 1]
      BY <2>3 DEF PauseAfterFailure, reason
    <3> QED
      BY ONLY <1>0, <3>1 DEF Sound, Shape, SysFields
  <2>4. CASE Resume
    BY <1>0, <2>4 DEF Resume, Sound, Shape, SysFields
  <2>5. CASE Panic
    BY <1>0, <2>5 DEF Panic, Sound, Shape, SysFields
  <2> QED
    BY <2>1, <2>2, <2>3, <2>4, <2>5
<1>2. Sound(sys') /\ SameBooks(sys, sys')
  BY <1>0, <1>1 DEF Sound, Shape, QueueBounded, Excludes, SameBooks
<1>3. UNCHANGED env \/ \E act \in Acts : Spend(act)
  BY DEF ClaimHotkey, SelectionLeft, PauseAfterFailure, Resume, Panic, Acts
<1>4. Fields(worker') /\ worker'.pc \notin RecoveryPcs
  <2>0. \A pc \in {"guard", "finish"} : Fields(Goto(worker, pc)) /\ Goto(worker, pc).pc = pc
    BY <1>0 DEF Goto, Fields, WorkerFields
  <2>1. CASE ClaimHotkey \/ Resume
    <3>1. worker' = Goto(worker, "guard") \/ worker' = Goto(worker, "finish")
      BY <2>1 DEF ClaimHotkey, Resume, Step
    <3> QED
      BY ONLY <2>0, <3>1 DEF RecoveryPcs
  <2>2. CASE SelectionLeft \/ Panic
    BY <1>0, <2>2 DEF SelectionLeft, Panic, Fields, WorkerFields, RecoveryPcs
  <2>3. CASE PauseAfterFailure
    <3> DEFINE after == IF worker.panicked THEN Idle(worker) ELSE Goto(worker, "end")
    <3>1. Fields(after) /\ after.pc \in {"idle", "end"}
      BY <1>0, WorkerParts
    <3> HIDE DEF after
    <3>2. worker' = after \/ worker' = [after EXCEPT !.epoch = sys.epoch + 1]
      BY <2>3 DEF PauseAfterFailure, after
    <3>3. Fields(worker') /\ worker'.pc = after.pc
      BY ONLY <3>1, <3>2 DEF Fields, WorkerFields
    <3> QED
      BY ONLY <3>1, <3>3 DEF RecoveryPcs
  <2> QED
    BY <2>1, <2>2, <2>3
<1> QED
  BY <1>0, <1>2, <1>3, <1>4, AsideKind DEF Fields

(* recover_retained_input, until the record is marked: the worker knows the record. *)
LEMMA RecoveryBeginsKind ==
  ASSUME Custodial, StartRecovery \/ RecheckRecovery PROVE Kind
<1> DEFINE all == 1..env.typed
<1>0. /\ Good(sys, all, worker) /\ Tracked(sys, worker) /\ Untyped(sys, worker) /\ Fields(worker)
  BY DEF Custodial, Good, Frame, Fields
<1>1. sys' = sys /\ env' = env
  BY DEF StartRecovery, RecheckRecovery, WorkerOnly
<1>2. CASE worker' = Goto(worker, "finish")
  <2>1. Fields(worker') /\ worker'.pc \notin RecoveryPcs
    BY <1>0, <1>2, WorkerParts DEF RecoveryPcs
  <2> QED
    BY <1>0, <1>1, <2>1, ReadKind DEF Fields
<1>3. ASSUME Tracked(sys, worker'), Untyped(sys, worker'), Fields(worker') PROVE Kind
  <2>1. Good(sys', 1..env.typed, worker') /\ Onward(sys, sys')
    BY <1>0, <1>1, <1>3 DEF Good, Onward
  <2> QED
    BY <1>0, <1>1, <1>3, <2>1, OnwardKind DEF Fields
<1>4. CASE /\ StartRecovery /\ Recoverable(sys, worker.event.event.seq, worker.event.event.explicit)
           /\ worker' = [worker EXCEPT !.record = sys.retained, !.pc = "recheck"]
  <2>1. /\ worker'.record = sys.retained /\ worker'.pc = "recheck" /\ worker'.event = worker.event
        /\ Fields(worker')
    BY <1>0, <1>4 DEF Fields, WorkerFields
  <2>2. sys.retained # None /\ (worker.event.event.explicit \/ ~sys.retained.uncertain)
    BY <1>4 DEF Recoverable
  <2>3. sys.retained.token \in Nat /\ sys.retained.token <= sys.observed
    BY <1>0, <2>2 DEF Good, Books, InOrder, Records, Tracked
  <2>4. Knows(sys, worker'.record)
    BY <2>1, <2>2, <2>3 DEF Knows, SameRecord
  <2>5. Tracked(sys, worker')
    BY <1>0, <2>1, <2>2, <2>3, <2>4 DEF Tracked
  <2>6. Untyped(sys, worker')
    <3>1. worker.pc = "recover"
      BY <1>4 DEF StartRecovery
    <3> QED
      BY <1>0, <2>1, <3>1 DEF Untyped
  <2> QED
    BY <1>3, <2>1, <2>5, <2>6
<1>5. CASE RecheckRecovery /\ worker' = Goto(worker, "mark")
  <2>1. /\ worker'.record = worker.record /\ worker'.pc = "mark" /\ worker'.event = worker.event
        /\ Fields(worker') /\ worker.pc = "recheck"
    BY <1>0, <1>5 DEF Fields, WorkerFields, Goto, RecheckRecovery
  <2>2. Tracked(sys, worker')
    BY <1>0, <2>1 DEF Tracked, RecoveryPcs
  <2>3. Untyped(sys, worker')
    BY <1>0, <2>1 DEF Untyped
  <2> QED
    BY <1>3, <2>1, <2>2, <2>3
<1>6. \/ worker' = Goto(worker, "finish")
      \/ /\ StartRecovery /\ Recoverable(sys, worker.event.event.seq, worker.event.event.explicit)
         /\ worker' = [worker EXCEPT !.record = sys.retained, !.pc = "recheck"]
      \/ RecheckRecovery /\ worker' = Goto(worker, "mark")
  <2>1. CASE StartRecovery
    BY <2>1 DEF StartRecovery
  <2>2. CASE RecheckRecovery
    BY <2>2 DEF RecheckRecovery
  <2> QED
    BY <2>1, <2>2
<1> QED
  BY <1>2, <1>4, <1>5, <1>6

(* begin_retained_recovery: the record that is marked is the one the worker read. *)
LEMMA MarkRecoveringKind ==
  ASSUME Custodial, MarkRecovering PROVE Kind
<1> DEFINE all == 1..env.typed
<1>0. /\ Good(sys, all, worker) /\ InOrder(sys) /\ Apart(sys) /\ Accounted(sys, all)
      /\ Tracked(sys, worker) /\ Untyped(sys, worker) /\ Fields(worker) /\ Sound(sys)
  BY DEF Custodial, Good, Books, Frame, Fields
<1>1. worker.pc = "mark" /\ env' = env
  BY DEF MarkRecovering
<1>2. CASE sys' = sys /\ worker' = Goto(worker, "finish")
  <2>1. Fields(worker') /\ worker'.pc \notin RecoveryPcs
    BY <1>0, <1>2, WorkerParts DEF RecoveryPcs
  <2> QED
    BY <1>0, <1>1, <1>2, <2>1, ReadKind DEF Fields
<1>3. CASE /\ sys.retained # None /\ sys.retained.token = worker.record.token
           /\ ~sys.retained.recovering
           /\ sys' = [sys EXCEPT !.retained.recovering = TRUE] /\ worker' = Goto(worker, "replay")
  <2>1. /\ worker'.record = worker.record /\ worker'.pc = "replay" /\ worker'.event = worker.event
        /\ Fields(worker')
    BY <1>0, <1>3 DEF Fields, WorkerFields, Goto
  <2>2. sys.retained \in Records
    BY <1>0, <1>3 DEF InOrder
  <2>3. Sound(sys')
    BY <1>0, <1>3 DEF Sound, Shape, QueueBounded, Excludes, SysFields
  <2>4. /\ sys'.gate = sys.gate /\ sys'.flight = sys.flight /\ sys'.hook = sys.hook
        /\ sys'.releases = sys.releases /\ sys'.replay = sys.replay /\ sys'.app = sys.app
        /\ sys'.ended = sys.ended /\ sys'.late = sys.late /\ sys'.observed = sys.observed
        /\ sys'.retained = [sys.retained EXCEPT !.recovering = TRUE]
    BY <1>0, <1>3 DEF Sound, Shape, SysFields
  <2>5. /\ sys'.retained \in Records /\ sys'.retained # None /\ sys'.retained.recovering
        /\ sys'.retained.token = sys.retained.token /\ sys'.retained.events = sys.retained.events
        /\ sys'.retained.uncertain = sys.retained.uncertain
        /\ sys'.retained.age = sys.retained.age
    <3>1. sys'.retained \in Records
      BY <2>2, <2>4 DEF Records
    <3> QED
      BY <2>2, <2>4, <3>1, NoneAssumption DEF Records
  <2>6. SameRecord(sys, worker.record) /\ sys.retained.age # "overdue"
    BY <1>0, <1>1, <1>3 DEF Tracked, Knows
  <2>7. /\ InTransit(sys') = InTransit(sys) /\ AtHook(sys') = AtHook(sys) /\ Kept(sys') = Kept(sys)
        /\ Received(sys') = Received(sys)
    BY <1>3, <2>4, <2>5 DEF InTransit, AtHook, Kept, Received
  <2>8. InOrder(sys')
    BY <1>0, <1>3, <2>4, <2>5 DEF InOrder
  <2>9. Apart(sys') /\ Accounted(sys', all)
    BY <1>0, <2>4, <2>7 DEF Apart, Accounted
  <2>10. Tracked(sys', worker')
    <3>1. Sending(sys', worker'.record)
      BY <2>1, <2>5, <2>6 DEF Sending, SameRecord
    <3>2. worker'.event.event.explicit \/ ~worker'.record.uncertain
      BY <1>0, <1>1, <2>1 DEF Tracked, RecoveryPcs
    <3> QED
      BY <1>0, <1>3, <2>1, <2>4, <2>5, <3>1, <3>2 DEF Tracked
  <2>11. Untyped(sys', worker')
    BY <1>0, <1>3, <2>1, <2>5, <2>7 DEF Untyped
  <2>12. Good(sys', 1..env.typed, worker') /\ Onward(sys, sys')
    BY <2>3, <2>4, <2>7, <2>8, <2>9, <2>10, <2>11 DEF Good, Books, Onward
  <2> QED
    BY <1>0, <1>1, <2>1, <2>12, OnwardKind DEF Fields
<1> QED
  BY <1>2, <1>3 DEF MarkRecovering

(* The record is sent: what nobody asked for was not received before. *)
LEMMA ReplayRetainedKind ==
  ASSUME Custodial, ReplayRetained PROVE Kind
<1> DEFINE all == 1..env.typed
           record == worker.record
           inputs == BalancedReplay(record.events)
<1>0. /\ Good(sys, all, worker) /\ InOrder(sys) /\ Apart(sys) /\ Accounted(sys, all)
      /\ Tracked(sys, worker) /\ Untyped(sys, worker) /\ Fields(worker) /\ Sound(sys)
  BY DEF Custodial, Good, Books, Frame, Fields
<1>1. worker.pc = "replay" /\ env' = env
  BY DEF ReplayRetained
<1>2. Sending(sys, record) /\ (worker.event.event.explicit \/ ~record.uncertain)
  BY <1>0, <1>1 DEF Tracked, RecoveryPcs
<1>3. /\ OnceEach(record.events, Keys) /\ Kept(sys) = Ids(record.events) /\ sys.retained # None
      /\ sys.retained.uncertain = record.uncertain /\ sys.retained.recovering
  BY <1>0, <1>2 DEF Sending, SameRecord, InOrder, Kept
<1>4. Len(inputs) \in Nat
  <2> DEFINE S == Sendable(Keys)
  <2> HIDE DEF S
  <2>1. inputs \in Seq(S)
    BY <1>3, BalancedMembers DEF OnceEach, S
  <2> HIDE DEF inputs
  <2> QED
    BY <2>1
<1>5. PICK sent \in 0..Len(inputs) :
        /\ sys' = Deliver(sys, SubSeq(inputs, 1, sent), Unseen)
        /\ worker' = [worker EXCEPT !.sent = sent, !.pc = "replayed"]
  <2> DEFINE counts == IF "recovery" \in Shortfalls THEN 0..Len(inputs) ELSE {Len(inputs)}
  <2>1. counts \subseteq 0..Len(inputs)
    BY <1>4
  <2>2. \E sent \in counts :
          /\ sys' = Deliver(sys, SubSeq(inputs, 1, sent), Unseen)
          /\ worker' = [worker EXCEPT !.sent = sent, !.pc = "replayed"]
    BY DEF ReplayRetained
  <2> HIDE DEF counts, inputs
  <2> QED
    BY <2>1, <2>2
<1> DEFINE x == SubSeq(inputs, 1, sent)
<1>6. /\ x \in Seq(Sendable(Keys)) /\ Ids(x) \ {0} \subseteq Ids(record.events)
      /\ sent = Len(inputs) => Ids(x) \ {0} = Ids(record.events)
      /\ sent = 0 => Ids(x) = {}
      /\ \A i, j \in DOMAIN x : x[i].id = x[j].id /\ x[i].id # 0 => i = j
  BY <1>3, SentOnce
<1>7. sys' = Deliver(sys, x, Unseen)
  BY <1>5
<1> HIDE DEF x
<1>8. /\ worker'.record = record /\ worker'.pc = "replayed" /\ worker'.event = worker.event
      /\ worker'.sent = sent /\ Fields(worker')
  BY <1>0, <1>5 DEF Fields, WorkerFields
<1> HIDE DEF inputs
<1>9. Sound(sys')
  BY <1>0, <1>7, DeliverSound
<1>10. /\ sys'.gate = sys.gate /\ sys'.flight = sys.flight /\ sys'.hook = sys.hook
       /\ sys'.releases = sys.releases /\ sys'.replay = sys.replay /\ sys'.app = sys.app \o x
       /\ sys'.ended = sys.ended /\ sys'.late = sys.late /\ sys'.observed = sys.observed
       /\ sys'.retained = sys.retained
  BY <1>0, <1>7 DEF Sound, Shape, SysFields, Deliver
<1>11. sys.app \in Seq(Sendable(Keys))
  BY <1>0 DEF InOrder
<1>12. sys'.app \in Seq(Sendable(Keys)) /\ Received(sys') = Received(sys) \cup (Ids(x) \ {0})
  <2>1. x \in Seq(Sendable(Keys)) /\ sys'.app = sys.app \o x
    BY <1>6, <1>10
  <2> QED
    BY ONLY <1>11, <2>1, ReceivedGrows
<1>13. InTransit(sys') = InTransit(sys) /\ AtHook(sys') = AtHook(sys) /\ Kept(sys') = Kept(sys)
  BY <1>10 DEF InTransit, AtHook, Kept
<1>14. InOrder(sys')
  BY <1>0, <1>10, <1>12 DEF InOrder
<1>15. Apart(sys') /\ Accounted(sys', all)
  <2>1. Ids(x) \ {0} \subseteq Kept(sys)
    BY <1>3, <1>6
  <2> QED
    BY <1>0, <1>10, <1>12, <1>13, <2>1 DEF Apart, Accounted
<1>16. Tracked(sys', worker')
  BY <1>0, <1>2, <1>8, <1>10 DEF Tracked, Sending, SameRecord
<1>17. sys.retained.uncertain \/ Kept(sys) \cap Received(sys) = {}
  BY <1>0, <1>1, <1>3 DEF Untyped
<1>18. Untyped(sys', worker')
  <2>1. worker'.sent = 0 /\ ~sys'.retained.uncertain => Kept(sys') \cap Received(sys') = {}
    BY <1>6, <1>8, <1>10, <1>12, <1>13, <1>17
  <2>2. worker'.sent = Len(BalancedReplay(worker'.record.events)) => Kept(sys') \subseteq Received(sys')
    BY <1>3, <1>6, <1>8, <1>12, <1>13 DEF inputs
  <2> QED
    BY <1>3, <1>8, <1>10, <2>1, <2>2 DEF Untyped
<1>19. Handed(sys, sys', AskedFor)
  <2>1. (Ids(x) \ {0}) \cap (Received(sys) \cup sys.ended) \subseteq AskedFor
    <3>1. CASE worker.event.event.explicit
      BY <1>1, <1>6, <3>1 DEF AskedFor
    <3>2. CASE ~worker.event.event.explicit
      <4>1. Kept(sys) \cap Received(sys) = {} /\ Kept(sys) \cap sys.ended = {}
        BY <1>0, <1>2, <1>3, <1>17, <3>2 DEF Apart
      <4> QED
        BY <1>3, <1>6, <4>1
    <3> QED
      BY <3>1, <3>2
  <2>2. Leaving(sys) \subseteq Leaving(sys') /\ Kept(sys) \subseteq Kept(sys') \cup Leaving(sys')
    BY <1>10, <1>12, <1>13 DEF Leaving
  <2> QED
    BY <1>6, <1>10, <2>1, <2>2 DEF Handed
<1>20. Good(sys', 1..env.typed, worker')
  BY <1>9, <1>14, <1>15, <1>16, <1>18 DEF Good, Books
<1>21. Frame'
  BY <1>0, <1>1, <1>8 DEF Custodial, Frame, Fields
<1> QED
  BY <1>1, <1>19, <1>20, <1>21 DEF Kind, Custodial

(* finish_retained_recovery: a record that is removed was received as a whole, and one that
   is kept says whether any of it was.                                                    *)
LEMMA FinishRecoveryKind ==
  ASSUME Custodial, FinishRecovery PROVE Kind
<1> DEFINE all == 1..env.typed
           requested == Len(BalancedReplay(worker.record.events))
<1>0. /\ Good(sys, all, worker) /\ InOrder(sys) /\ Apart(sys) /\ Accounted(sys, all)
      /\ Tracked(sys, worker) /\ Untyped(sys, worker) /\ Fields(worker) /\ Sound(sys)
  BY DEF Custodial, Good, Books, Frame, Fields
<1>1. /\ worker.pc = "replayed" /\ env' = env
      /\ sys' = FinishRetained(sys, worker.record, worker.sent, requested)
  BY DEF FinishRecovery
<1>2. Sound(sys')
  BY <1>0, <1>1, FinishRetainedSound
<1>3. Sending(sys, worker.record)
  BY <1>0, <1>1 DEF Tracked
<1>4. /\ sys.retained # None /\ sys.retained.token = worker.record.token
      /\ sys.retained \in Records /\ sys.retained.age # "overdue"
  BY <1>0, <1>3 DEF Sending, SameRecord, InOrder
<1>5. Fields(worker') /\ worker'.pc \notin RecoveryPcs
  <2>1. /\ DOMAIN worker' = WorkerFields
        /\ worker'.pc \in {"resume", "finish"}
    BY <1>0 DEF FinishRecovery, Invalidated, Fields, WorkerFields
  <2> QED
    BY <2>1 DEF Fields, RecoveryPcs
<1>6. /\ sys'.gate = sys.gate /\ sys'.flight = sys.flight /\ sys'.hook = sys.hook
      /\ sys'.releases = sys.releases /\ sys'.replay = sys.replay /\ sys'.app = sys.app
      /\ sys'.ended = sys.ended /\ sys'.late = sys.late /\ sys'.observed = sys.observed
      /\ sys'.retained = IF worker.sent = requested THEN None
                         ELSE [sys.retained EXCEPT !.recovering = FALSE,
                                                   !.uncertain = @ \/ worker.sent # 0]
  <2> HIDE DEF requested
  <2>1. sys' = IF worker.sent = requested THEN [sys EXCEPT !.retained = None]
               ELSE [sys EXCEPT !.retained.recovering = FALSE,
                                !.retained.uncertain = @ \/ worker.sent # 0]
    BY <1>1, <1>4 DEF FinishRetained
  <2>2. DOMAIN sys = SysFields
    BY <1>0 DEF Sound, Shape
  <2>3. CASE worker.sent = requested
    BY <2>1, <2>2, <2>3 DEF SysFields
  <2>4. CASE worker.sent # requested
    <3>1. sys' = [sys EXCEPT !.retained.recovering = FALSE,
                             !.retained.uncertain = @ \/ worker.sent # 0]
      BY <2>1, <2>4
    <3>2. sys'.retained = [sys.retained EXCEPT !.recovering = FALSE,
                                               !.uncertain = @ \/ worker.sent # 0]
      BY <1>4, <2>2, <3>1 DEF SysFields, Records
    <3> QED
      BY <2>2, <2>4, <3>1, <3>2 DEF SysFields
  <2> QED
    BY <2>3, <2>4
<1> HIDE DEF requested
<1>7. InTransit(sys') = InTransit(sys) /\ AtHook(sys') = AtHook(sys) /\ Received(sys') = Received(sys)
  BY <1>6 DEF InTransit, AtHook, Received
<1>8. \/ sys'.retained = None /\ Kept(sys') = {} /\ Kept(sys) \subseteq Received(sys)
      \/ /\ Kept(sys') = Kept(sys)
         /\ sys'.retained \in Records /\ sys'.retained # None
         /\ sys'.retained.token = sys.retained.token /\ sys'.retained.events = sys.retained.events
         /\ sys'.retained.age # "overdue"
         /\ ~sys'.retained.uncertain => Kept(sys) \cap Received(sys) = {}
  <2>1. CASE worker.sent = requested
    BY <1>0, <1>1, <1>6, <2>1 DEF Untyped, Kept, requested
  <2>2. CASE worker.sent # requested
    <3>1. sys'.retained = [sys.retained EXCEPT !.recovering = FALSE,
                                               !.uncertain = @ \/ worker.sent # 0]
      BY <1>6, <2>2
    <3>2. sys'.retained \in Records
      BY <1>4, <3>1 DEF Records
    <3>3. /\ sys'.retained # None
          /\ sys'.retained.token = sys.retained.token /\ sys'.retained.events = sys.retained.events
          /\ sys'.retained.age = sys.retained.age
          /\ sys'.retained.uncertain = (sys.retained.uncertain \/ worker.sent # 0)
      BY <1>4, <3>1, <3>2, NoneAssumption DEF Records
    <3>4. Kept(sys') = Kept(sys)
      BY <1>4, <3>3 DEF Kept
    <3>5. ~sys'.retained.uncertain => Kept(sys) \cap Received(sys) = {}
      BY <1>0, <1>1, <3>3 DEF Untyped
    <3> QED
      BY <1>4, <3>2, <3>3, <3>4, <3>5
  <2> QED
    BY <2>1, <2>2
<1>9. InOrder(sys')
  BY <1>0, <1>4, <1>6, <1>8 DEF InOrder
<1>10. Apart(sys') /\ Accounted(sys', all)
  BY <1>0, <1>6, <1>7, <1>8 DEF Apart, Accounted
<1>11. Tracked(sys', worker')
  BY <1>0, <1>4, <1>5, <1>6, <1>8 DEF Tracked, RecoveryPcs
<1>12. Untyped(sys', worker')
  BY <1>5, <1>7, <1>8 DEF Untyped, RecoveryPcs
<1>13. Good(sys', 1..env.typed, worker')
  BY <1>2, <1>9, <1>10, <1>11, <1>12 DEF Good, Books
<1>14. Handed(sys, sys', {})
  <2>1. sys.app \in Seq(Sendable(Keys)) /\ Onward(sys, sys)
    BY <1>0 DEF InOrder, Onward
  <2>2. Handed(sys, sys, {})
    BY <2>1, OnwardHanded
  <2>3. Leaving(sys') = Leaving(sys) /\ Kept(sys) \subseteq Kept(sys') \cup Leaving(sys')
    BY <1>6, <1>7, <1>8 DEF Leaving
  <2> QED
    BY <1>6, <1>7, <2>2, <2>3 DEF Handed
<1> QED
  BY <1>0, <1>1, <1>5, <1>13, <1>14, HandedKind DEF Fields

(* Every step of the worker. *)
LEMMA WorkerKind ==
  ASSUME Custodial, Worker PROVE Kind
<1>0. Frame /\ Fields(worker)
  BY DEF Custodial, Frame, Fields
<1>1. CASE \/ Dispatch \/ GuardConversion \/ SourceSettles \/ CheckSource \/ GuardEdit \/ SendEdit
           \/ ReadCancelledGate \/ DecideResume
  BY <1>0, <1>1, WorkerReads, ReadKind DEF Fields
<1> QED
  BY <1>1, TakeEventKind, WorkerPostsKind, WorkerSendsKind, WorkerSetsKind, RecoveryBeginsKind,
     MarkRecoveringKind, ReplayRetainedKind, FinishRecoveryKind DEF Worker

(* Every step. *)
LEMMA NextKind ==
  ASSUME Custodial, [Next]_vars PROVE Kind
<1>1. CASE UNCHANGED vars
  <2>1. sys' = sys /\ worker' = worker /\ env' = env
    BY <1>1 DEF vars
  <2>2. Good(sys', 1..env.typed, worker') /\ Onward(sys, sys')
    BY <2>1 DEF Custodial, Onward
  <2> QED
    BY <2>1, <2>2, OnwardKind
<1> QED
  BY <1>1, UiThreadKind, WorkerKind, UserKind, ClockKind, WorkerSetsKind DEF Next

-------------------------------------------------------------------------------
(* The agent begins with nothing in its custody. *)
LEMMA InitCustodial ==
  ASSUME \A world \in Worlds : Dependable(world), Init PROVE Custodial
<1>1. /\ sys.hook = None /\ sys.flight = None /\ sys.gate = ClosedGate /\ sys.releases = <<>>
      /\ sys.replay = <<>> /\ sys.retained = None /\ sys.app = <<>> /\ sys.ended = {}
      /\ sys.late = None /\ sys.observed = 0
  BY DEF Init
<1>2. /\ DOMAIN worker = WorkerFields /\ worker.pc = "idle"
  BY DEF Init, WorkerFields
<1>3. Sound(sys)
  BY InitSound DEF Inv
<1>4. Frame /\ env.typed = 0
  <2>1. PICK world \in Worlds :
          env = [world |-> world, left |-> world.limits, pressed |-> {}, typed |-> 0, menu |-> 0]
    BY DEF Init
  <2> QED
    BY <1>2, <2>1 DEF Frame
<1>5. /\ sys.gate.held = <<>> /\ sys.gate.active = FALSE /\ sys.gate.token = 0
  BY <1>1 DEF ClosedGate
<1>6. OnceEach(<<>>, Keys) /\ Ids(<<>>) = {} /\ Repeats(<<>>)
  BY EmptyOnce, RepeatsOfEmpty
<1>7. InTransit(sys) = {} /\ AtHook(sys) = {} /\ Kept(sys) = {} /\ Received(sys) = {}
  BY <1>1, <1>6 DEF InTransit, AtHook, Kept, Received
<1>8. InOrder(sys)
  BY <1>1, <1>5, <1>6 DEF InOrder
<1>9. Apart(sys) /\ Accounted(sys, {})
  BY <1>1, <1>5, <1>6, <1>7 DEF Apart, Accounted
<1>10. Tracked(sys, worker) /\ Untyped(sys, worker)
  BY <1>1, <1>2, <1>5 DEF Tracked, Untyped, RecoveryPcs
<1>11. 1..env.typed = {}
  BY <1>4
<1> QED
  BY <1>3, <1>4, <1>8, <1>9, <1>10, <1>11 DEF Custodial, Good, Books

(* The numbers of the edges in a sequence, without those the agent added. *)
Numbers(edges) == Selected([i \in DOMAIN edges |-> edges[i].id], Nat \ {0})

(* The numbers of edges, position by position. *)
LEMMA NumbersKept ==
  ASSUME NEW keys, NEW s \in Seq(Sendable(keys))
  PROVE  LET a == [i \in DOMAIN s |-> s[i].id]
         IN  /\ a \in Seq(Nat) /\ Len(a) = Len(s) /\ \A i \in 1..Len(s) : a[i] = s[i].id
             /\ Range(a) = Ids(s) /\ Ids(s) \subseteq Nat
<1> DEFINE a == [i \in DOMAIN s |-> s[i].id]
<1>1. DOMAIN s = 1..Len(s) /\ Len(s) \in Nat /\ \A i \in DOMAIN s : s[i] \in Sendable(keys)
  OBVIOUS
<1>2. \A i \in DOMAIN s : s[i].id \in Nat
  BY <1>1 DEF Sendable
<1>3. a \in [1..Len(s) -> Nat] /\ Len(s) \in Nat
  BY <1>1, <1>2
<1>4. a \in Seq(Nat)
  BY ONLY <1>3
<1>5. Len(a) = Len(s)
  <2> HIDE DEF a
  <2> QED
    BY ONLY <1>3, <1>4
<1>6. Range(a) = Ids(s)
  BY DEF Range, Ids
<1> QED
  BY <1>1, <1>2, <1>4, <1>5, <1>6 DEF Ids

(* What the application received, by the user's edges: their numbers are those of Ids. *)
LEMMA NumbersOf ==
  ASSUME NEW keys, NEW s \in Seq(Sendable(keys))
  PROVE  Numbers(s) \in Seq(Nat) /\ Range(Numbers(s)) = Ids(s) \ {0}
<1> DEFINE a == [i \in DOMAIN s |-> s[i].id]
<1>1. a \in Seq(Nat) /\ Range(a) = Ids(s) /\ Ids(s) \subseteq Nat
  BY NumbersKept
<1> HIDE DEF a
<1>2. Numbers(s) = Selected(a, Nat \ {0})
  BY DEF Numbers, a
<1>3. Selected(a, Nat \ {0}) \in Seq(Nat) /\ Range(Selected(a, Nat \ {0})) = Range(a) \cap (Nat \ {0})
  BY <1>1, SelectedMembers
<1> QED
  BY <1>1, <1>2, <1>3

(* What is received later stands behind what was received before. *)
LEMMA NumbersOfConcat ==
  ASSUME NEW keys, NEW s \in Seq(Sendable(keys)), NEW t \in Seq(Sendable(keys))
  PROVE  Numbers(s \o t) = Numbers(s) \o Numbers(t)
<1> DEFINE st == s \o t
           a == [i \in DOMAIN s |-> s[i].id]
           b == [i \in DOMAIN t |-> t[i].id]
           ab == [i \in DOMAIN st |-> st[i].id]
<1>1. /\ st \in Seq(Sendable(keys)) /\ Len(st) = Len(s) + Len(t)
      /\ \A i \in 1..(Len(s) + Len(t)) : st[i] = IF i <= Len(s) THEN s[i] ELSE t[i - Len(s)]
  BY ConcatProperties
<1> HIDE DEF st
<1>2. /\ a \in Seq(Nat) /\ Len(a) = Len(s) /\ \A i \in 1..Len(s) : a[i] = s[i].id
      /\ b \in Seq(Nat) /\ Len(b) = Len(t) /\ \A i \in 1..Len(t) : b[i] = t[i].id
      /\ ab \in Seq(Nat) /\ Len(ab) = Len(st) /\ \A i \in 1..Len(st) : ab[i] = st[i].id
  BY <1>1, NumbersKept
<1>3. /\ Numbers(st) = Selected(ab, Nat \ {0}) /\ Numbers(s) = Selected(a, Nat \ {0})
      /\ Numbers(t) = Selected(b, Nat \ {0})
  BY DEF Numbers
<1> HIDE DEF a, b, ab
<1> DEFINE m == Len(s)
           n == Len(t)
           c == a \o b
<1>m. m \in Nat /\ n \in Nat
  OBVIOUS
<1>c. c \in Seq(Nat) /\ Len(c) = m + n /\ \A i \in 1..(m + n) : c[i] = IF i <= m THEN a[i] ELSE b[i - m]
  <2> DEFINE S == Nat
  <2>1. a \in Seq(S) /\ b \in Seq(S) /\ Len(a) = m /\ Len(b) = n
    BY <1>2
  <2> HIDE DEF S, m, n
  <2>2. /\ c \in Seq(S) /\ Len(c) = Len(a) + Len(b)
        /\ \A i \in 1..(Len(a) + Len(b)) : c[i] = IF i <= Len(a) THEN a[i] ELSE b[i - Len(a)]
    BY ONLY <2>1, ConcatProperties
  <2>3. /\ c \in Seq(S) /\ Len(c) = m + n
        /\ \A i \in 1..(m + n) : c[i] = IF i <= m THEN a[i] ELSE b[i - m]
    BY ONLY <2>1, <2>2
  <2> QED
    BY <2>3 DEF S
<1>e. /\ Len(st) = m + n /\ Len(a) = m /\ Len(b) = n /\ Len(ab) = m + n
      /\ \A i \in 1..m : a[i] = s[i].id
      /\ \A i \in 1..n : b[i] = t[i].id
      /\ \A i \in 1..(m + n) : ab[i] = st[i].id
      /\ \A i \in 1..(m + n) : st[i] = IF i <= m THEN s[i] ELSE t[i - m]
  BY <1>1, <1>2
<1> HIDE DEF c, m, n
<1>4. ab = c
  <2>1. ASSUME NEW i \in 1..(m + n) PROVE ab[i] = c[i]
    <3>1. CASE i <= m
      <4>1. i \in 1..m
        BY ONLY <1>m, <3>1, i \in 1..(m + n)
      <4>2. ab[i] = st[i].id /\ st[i] = s[i] /\ c[i] = a[i] /\ a[i] = s[i].id
        BY ONLY <1>c, <1>e, <3>1, <4>1, i \in 1..(m + n)
      <4> QED
        BY ONLY <4>2
    <3>2. CASE ~(i <= m)
      <4>1. i - m \in 1..n
        BY ONLY <1>m, <3>2, i \in 1..(m + n)
      <4>2. c[i] = b[i - m] /\ st[i] = t[i - m] /\ ab[i] = st[i].id
        BY ONLY <1>c, <1>e, <3>2, i \in 1..(m + n)
      <4>3. b[i - m] = t[i - m].id
        BY ONLY <1>e, <4>1
      <4> QED
        BY ONLY <4>2, <4>3
    <3> QED
      BY ONLY <3>1, <3>2
  <2> QED
    BY <1>2, <1>c, <1>e, <2>1, SeqEqual
<1>5. Selected(a \o b, Nat \ {0}) = Selected(a, Nat \ {0}) \o Selected(b, Nat \ {0})
  BY <1>2, SelectedConcat
<1> QED
  BY <1>3, <1>4, <1>5 DEF st, c

(* What comes after the members of a sequence in a longer one. *)
LEMMA AddedBehind ==
  ASSUME NEW S, NEW s \in Seq(S), NEW x \in Seq(S)
  PROVE  IsPrefix(s, s \o x) /\ SubSeq(s \o x, Len(s) + 1, Len(s \o x)) = x
<1> DEFINE t == s \o x
<1>1. /\ Len(s) \in Nat /\ Len(x) \in Nat /\ t \in Seq(S) /\ Len(t) = Len(s) + Len(x)
      /\ \A i \in 1..Len(s) : t[i] = s[i]
      /\ \A i \in 1..Len(x) : t[Len(s) + i] = x[i]
  OBVIOUS
<1> HIDE DEF t
<1>2. Len(s) <= Len(t) /\ Len(s) \in 0..Len(t) /\ Len(t) - Len(s) = Len(x)
  BY <1>1
<1>3. SubSeq(t, 1, Len(s)) = SubSeq(s, 1, Len(s))
  <2>1. SubSeq(s, 1, Len(s)) = [i \in 1..Len(s) |-> s[i]]
    BY <1>1
  <2>2. SubSeq(t, 1, Len(s)) = [i \in 1..Len(s) |-> t[i]]
    BY <1>1, <1>2
  <2> QED
    BY <1>1, <2>1, <2>2
<1>4. SubSeq(t, Len(s) + 1, Len(t)) = x
  <2> DEFINE y == SubSeq(t, Len(s) + 1, Len(t))
  <2>1. /\ y \in Seq(S) /\ DOMAIN y = 1..Len(x)
        /\ \A i \in 1..Len(x) : y[i] = t[Len(s) + i]
    BY <1>1, <1>2, SuffixMembers
  <2> HIDE DEF y
  <2>2. y = [i \in 1..Len(x) |-> y[i]] /\ x = [i \in 1..Len(x) |-> x[i]]
    BY <2>1
  <2> QED
    BY <1>1, <2>1, <2>2 DEF y
<1> QED
  BY <1>2, <1>3, <1>4 DEF IsPrefix, t

-------------------------------------------------------------------------------
(* What a step does with the edges, in the terms of KeyCustody. *)
LEMMA CustodyStep ==
  ASSUME Custodial, Kind PROVE Custody!Next
<1> DEFINE A == Received(sys)
           B == Received(sys')
           E == sys.ended
           F == sys'.ended
           n == env.typed
           m == env'.typed
<1>0. /\ Books(sys, 1..n) /\ Books(sys', 1..m) /\ n \in Nat /\ m \in {n, n + 1}
      /\ Handed(sys, sys', AskedFor)
  BY DEF Kind, Custodial, Frame, Good
<1>1. PICK x \in Seq(Sendable(Keys)) :
        /\ sys'.app = sys.app \o x
        /\ \A i, j \in DOMAIN x : x[i].id = x[j].id /\ x[i].id # 0 => i = j
        /\ (Ids(x) \ {0}) \cap (A \cup E) \subseteq AskedFor
  BY <1>0 DEF Handed
<1> DEFINE N == Ids(x) \ {0}
<1>2. sys.app \in Seq(Sendable(Keys))
  BY <1>0 DEF Books, InOrder
<1>3. B = A \cup N
  BY <1>1, <1>2, ReceivedGrows
<1>4. Delivered = Numbers(sys.app) /\ Delivered' = Numbers(sys.app) \o Numbers(x)
  <2>1. Numbers(sys'.app) = Numbers(sys.app) \o Numbers(x)
    BY <1>1, <1>2, NumbersOfConcat
  <2> QED
    BY <2>1 DEF Delivered, Numbers
<1>5. Numbers(sys.app) \in Seq(Nat) /\ Numbers(x) \in Seq(Nat)
  BY <1>2, NumbersOf
<1>6. IsPrefix(Delivered, Delivered') /\ SubSeq(Delivered', Len(Delivered) + 1, Len(Delivered')) = Numbers(x)
  <2> DEFINE S == Nat
  <2> HIDE DEF S
  <2>1. Numbers(sys.app) \in Seq(S) /\ Numbers(x) \in Seq(S)
    BY <1>5 DEF S
  <2> QED
    BY ONLY <1>4, <2>1, AddedBehind
<1>7. IsInjective(Numbers(x)) /\ Range(Numbers(x)) = N
  BY <1>1, NumbersSent DEF Numbers
<1>8. Swallowed \cup A \cup E = 1..n /\ Swallowed' \cup B \cup F = 1..m
  <2>1. Swallowed = Ids(sys.gate.held) \cup InTransit(sys) \cup Ids(sys.releases) \cup Ids(sys.replay)
                      \cup AtHook(sys) \cup Kept(sys)
    BY DEF Swallowed, InFlight, InTransit, AtHook, Kept
  <2>2. Swallowed' = Ids(sys'.gate.held) \cup InTransit(sys') \cup Ids(sys'.releases) \cup Ids(sys'.replay)
                       \cup AtHook(sys') \cup Kept(sys')
    BY DEF Swallowed, InFlight, InTransit, AtHook, Kept
  <2>3. Ids(sys.gate.held) \cup InTransit(sys) \cup AtHook(sys) \cup Ids(sys.releases)
          \cup Ids(sys.replay) \cup Kept(sys) \cup A \cup E = 1..n
    BY <1>0 DEF Books, Accounted
  <2>4. Ids(sys'.gate.held) \cup InTransit(sys') \cup AtHook(sys') \cup Ids(sys'.releases)
          \cup Ids(sys'.replay) \cup Kept(sys') \cup B \cup F = 1..m
    BY <1>0 DEF Books, Accounted
  <2> QED
    BY <2>1, <2>2, <2>3, <2>4
<1>9. E \subseteq F /\ 0 \notin 1..n /\ 0 \notin 1..m /\ 1..n \subseteq 1..m
      /\ 1..m = (1..n) \cup ((n + 1)..m) /\ (1..n) \cap ((n + 1)..m) = {}
  BY <1>0 DEF Handed
<1>10. Ids(sys.app) \ {0} = A /\ Ids(sys'.app) \ {0} = B
  BY DEF Received
<1> DEFINE had == (Swallowed \ (Ids(sys.app) \cup E)) \cup ((n + 1)..m)
<1> HIDE DEF A, B, E, F, N, n, m
<1>11. had = 1..m \ (A \cup E)
  BY <1>8, <1>9, <1>10
<1>12. /\ E \ Ids(sys.app) = E \ A /\ F \ Ids(sys'.app) = F \ B
       /\ Swallowed' \ (Ids(sys'.app) \cup F) = 1..m \ (B \cup F)
  BY <1>8, <1>9, <1>10
<1> HIDE DEF had
<1>13. /\ N \subseteq had \cup AskedFor
       /\ E \ A \subseteq (F \ B) \cup N
       /\ F \ B \subseteq (E \ A) \cup had
       /\ 1..m \ (B \cup F) = had \ (N \cup (F \ B))
  <2>1. N \cap (A \cup E) \subseteq AskedFor
    BY <1>1 DEF N
  <2>2. N \subseteq 1..m /\ F \subseteq 1..m
    BY <1>3, <1>8
  <2> QED
    BY <1>3, <1>9, <1>11, <2>1, <2>2
<1>14. AskedFor \subseteq (IF worker.pc = "replay" /\ worker.event.event.explicit
                           THEN Ids(worker.record.events) ELSE {})
                          \cup (IF "drain" \in Shortfalls THEN Ids(sys.releases) ELSE {})
  BY DEF AskedFor
<1>15. /\ Custody!IsPrefix(Delivered, Delivered')
       /\ Custody!IsInjective(Numbers(x)) /\ Custody!Range(Numbers(x)) = N
  BY <1>6, <1>7 DEF Custody!IsPrefix, IsPrefix, Custody!IsInjective, IsInjective, Custody!Range, Range
<1> QED
  BY <1>0, <1>6, <1>12, <1>13, <1>14, <1>15 DEF Custody!Next, had, E, F, n, m

(* At the beginning there is nothing to account for. *)
LEMMA CustodyBegins ==
  ASSUME Init PROVE Custody!Init
<1>1. /\ sys.hook = None /\ sys.flight = None /\ sys.gate.held = <<>> /\ sys.releases = <<>>
      /\ sys.replay = <<>> /\ sys.retained = None /\ sys.app = <<>> /\ sys.ended = {}
  BY DEF Init, ClosedGate
<1>2. env.typed = 0 /\ worker.pc = "idle"
  BY DEF Init
<1>3. Ids(<<>>) = {}
  BY EmptyOnce
<1>4. Swallowed = {}
  BY <1>1, <1>3 DEF Swallowed, InFlight
<1>5. Delivered = <<>>
  <2>1. sys.app \in Seq(Sendable(Keys))
    BY <1>1
  <2>2. Numbers(sys.app) \in Seq(Nat) /\ Range(Numbers(sys.app)) = {}
    BY <1>1, <1>3, <2>1, NumbersOf
  <2>3. Numbers(sys.app) = <<>>
    <3> DEFINE q == Numbers(sys.app)
    <3> HIDE DEF q
    <3>1. q \in Seq(Nat) /\ Range(q) = {}
      BY <2>2 DEF q
    <3>2. DOMAIN q = 1..Len(q) /\ Len(q) \in Nat
      BY <3>1
    <3>3. Len(q) = 0
      <4>1. 1 \in DOMAIN q => q[1] \in Range(q)
        BY DEF Range
      <4> QED
        BY <3>1, <3>2, <4>1
    <3> QED
      BY <3>1, <3>3, EmptySeq DEF q
  <2> QED
    BY <2>3 DEF Delivered, Numbers
<1>6. ~("drain" \in Shortfalls) \/ Ids(sys.releases) = {}
  BY <1>1, <1>3
<1> QED
  BY <1>1, <1>2, <1>4, <1>5, <1>6 DEF Custody!Init

(* For every set of keys, targets and limits, whatever the hooks of other programs, the drains,
   the recoveries, the timer, the user and the worker do and in whichever order: no key the
   agent swallows is lost, typed twice, or typed after it was deleted, unless the user asks for
   a record again (keyboard_hook_body, break_correction_gate, send_pending_held_keys,
   recover_retained_input). The worlds it is about are those in which SendInput takes a drain
   and a hand-back whole, and the worker sends a record within its grace.                     *)
THEOREM CustodyAlwaysKept ==
  ASSUME \A world \in Worlds : Dependable(world)
  PROVE  Spec => CustodyKept
<1>1. Init => Custodial
  BY InitCustodial
<1>2. Custodial /\ [Next]_vars => Custodial'
  BY NextKind DEF Kind
<1>3. Custodial /\ [Next]_vars => [Custody!Next]_(Custody!vars)
  BY NextKind, CustodyStep
<1>4. Init => Custody!Init
  BY CustodyBegins
<1> QED
  BY <1>1, <1>2, <1>3, <1>4, PTL DEF Spec, CustodyKept, Custody!Spec

(* In the same worlds a record that does not say that some of it was typed holds nothing that
   was, unless it is being sent, and a record ends in one piece: all of it typed or on its way,
   or deleted (retain_held_input, finish_retained_recovery, expire_retained_input).            *)
THEOREM RecordAlwaysSound ==
  ASSUME \A world \in Worlds : Dependable(world)
  PROVE  Spec => RecordSound
<1>1. Init => Custodial
  BY InitCustodial
<1>2. Custodial /\ [Next]_vars => Custodial'
  BY NextKind DEF Kind
<1>3. Custodial => CertainlyUntyped
  <2> SUFFICES ASSUME Custodial, sys.retained # None, ~sys.retained.uncertain, ~sys.retained.recovering
               PROVE  Ids(sys.retained.events) \cap Ids(sys.app) = {}
    BY DEF CertainlyUntyped
  <2>1. Kept(sys) = Ids(sys.retained.events) /\ Kept(sys) \cap Received(sys) = {}
    BY DEF Custodial, Good, Untyped, Kept
  <2>2. 0 \notin Ids(sys.retained.events)
    <3>1. sys.retained.events \in Seq(Typed(Keys))
      BY DEF Custodial, Good, Books, InOrder, OnceEach
    <3>2. \A e \in Typed(Keys) : e.id # 0
      BY DEF Typed
    <3>3. \A i \in DOMAIN sys.retained.events : sys.retained.events[i] \in Typed(Keys)
      BY <3>1
    <3> QED
      BY <3>2, <3>3 DEF Ids
  <2> QED
    BY <2>1, <2>2 DEF Received
<1>4. Custodial /\ [Next]_vars
        => [ sys.retained # None /\ sys'.retained = None /\ sys'.ended = sys.ended
             => Ids(sys.retained.events) \subseteq Ids(sys'.app) \cup Ids(sys'.replay) ]_vars
  <2> SUFFICES ASSUME Custodial, [Next]_vars,
                      sys.retained # None, sys'.retained = None, sys'.ended = sys.ended
               PROVE  Ids(sys.retained.events) \subseteq Ids(sys'.app) \cup Ids(sys'.replay)
    OBVIOUS
  <2>1. Kept(sys) \subseteq Kept(sys') \cup Leaving(sys')
    BY NextKind DEF Kind, Handed
  <2>2. Kept(sys') = {} /\ Kept(sys) = Ids(sys.retained.events)
    BY DEF Kept
  <2>3. Kept(sys) \cap sys.ended = {}
    BY DEF Custodial, Good, Books, Apart
  <2> QED
    BY <2>1, <2>2, <2>3 DEF Leaving, Received
<1> QED
  BY <1>1, <1>2, <1>3, <1>4, PTL DEF Spec, RecordSound, RecordLeavesWhole
===============================================================================
