---- MODULE BoundedProbe ----
(***************************************************************************)
(* The probe that asks a slow provider on a thread of its own: one request at a time, one more in the *)
(* queue, a bounded wait for the answer, and a fresh thread when the provider seems hung. The worker  *)
(* asks it whether the focused field may be followed; the provider looks at the foreground window,    *)
(* inspects the focused field, and looks again.                                            *)
(*                                                                           *)
(* Ages count ticks: Wait < MaxAge <= StuckAfter. A reply channel is the "live" mark of its request:  *)
(* when the worker drops the receiver, nobody will read the answer.                            *)
(***************************************************************************)
EXTENDS Naturals, FiniteSets

CONSTANTS
  None,
  Places,       \* windows the focus may be in
  Generations,  \* bound: inputs after which the field may be another one
  Wait,         \* how long one query waits
  MaxAge,       \* how old an answer may get
  StuckAfter,   \* how long the queue may stay busy before the provider counts as stuck
  MaxRespawns   \* threads the worker may start after the first

ProbeAssumption ==
  /\ Wait \in Nat \ {0} /\ MaxAge \in Nat /\ StuckAfter \in Nat /\ MaxRespawns \in Nat
  /\ Wait < MaxAge /\ MaxAge <= StuckAfter

VARIABLES
  at,        \* the window with the focus, and how often its field may have changed
  threads,   \* the provider threads: their queue, the request at work, whether they hang
  probe,     \* BoundedProbe: the current thread, the pending request, since when it is busy
  asking,    \* the query under way: its key and how long it may wait
  answered   \* history: what the last query took for an answer

pvars == <<at, threads, probe, asking, answered>>

Threads == 0..MaxRespawns
Key == [window |-> at.window, generation |-> at.generation]
NoThread == [up |-> FALSE, queue |-> None, work |-> None, hung |-> FALSE]
FreshThread == [NoThread EXCEPT !.up = TRUE]
Request(key) == [key |-> key, live |-> TRUE, seen |-> None, before |-> None]

(* Dropping the pending request drops its receiver. *)
Dead(r) == IF r = None THEN None ELSE [r EXCEPT !.live = FALSE]
Forgotten(t) == [n \in Threads |-> [t[n] EXCEPT !.queue = Dead(@), !.work = Dead(@)]]

(*                        query_result                        *)
Outdated(key) == probe.pending # None /\ (probe.pending.key # key \/ probe.pending.age >= MaxAge)

Submitted(t, n, key) == [t EXCEPT ![n].queue = Request(key)]
NewPending(key) == [key |-> key, age |-> 0, answer |-> None]

(* replace_if_stuck: the first refusal starts the count; a new thread is a thread with a new queue. *)
Stuck == probe.busy # None /\ probe.busy >= StuckAfter /\ probe.thread < MaxRespawns
Refused == [probe EXCEPT !.pending = None, !.busy = IF @ = None THEN 0 ELSE @]

Query ==
  /\ asking = None
  /\ LET t == IF Outdated(Key) THEN Forgotten(threads) ELSE threads
         begun == [key |-> Key, left |-> Wait]
     IN  \/ /\ probe.pending # None /\ ~Outdated(Key)
            /\ asking' = begun /\ UNCHANGED <<threads, probe>>
         \/ /\ probe.pending = None \/ Outdated(Key)
            /\ \/ /\ threads[probe.thread].up /\ t[probe.thread].queue = None
                  /\ threads' = Submitted(t, probe.thread, Key)
                  /\ probe' = [probe EXCEPT !.pending = NewPending(Key), !.busy = None]
                  /\ asking' = begun
               \/ /\ threads[probe.thread].up /\ t[probe.thread].queue # None /\ Stuck
                  /\ threads' = Submitted([t EXCEPT ![probe.thread + 1] = FreshThread], probe.thread + 1, Key)
                  /\ probe' = [probe EXCEPT !.thread = @ + 1, !.pending = NewPending(Key), !.busy = None]
                  /\ asking' = begun
               \/ /\ threads[probe.thread].up /\ t[probe.thread].queue # None /\ ~Stuck
                  /\ threads' = t /\ probe' = Refused /\ UNCHANGED asking
               \/ /\ ~threads[probe.thread].up
                  /\ threads' = t /\ probe' = [probe EXCEPT !.pending = None] /\ UNCHANGED asking
  /\ answered' = None
  /\ UNCHANGED at

(* The answer arrived: it is taken while it is fresh, and shows in any case that the provider lives.  *)
Receive ==
  /\ asking # None /\ probe.pending # None /\ probe.pending.answer # None
  /\ answered' = IF probe.pending.age < MaxAge
                   THEN [question |-> asking.key, request |-> probe.pending.key,
                         answer |-> probe.pending.answer, age |-> probe.pending.age] ELSE None
  /\ probe' = [probe EXCEPT !.pending = None, !.busy = None]
  /\ asking' = None
  /\ UNCHANGED <<at, threads>>

(* The wait ends: the request stays pending for the next query with the same key. *)
TimeOut ==
  /\ asking # None /\ (asking.left = 0 \/ probe.pending.age >= MaxAge) /\ probe.pending.answer = None
  /\ asking' = None /\ answered' = None
  /\ UNCHANGED <<at, threads, probe>>

(* The provider ended without an answer: its thread is gone, and so is the request. *)
Disconnected ==
  /\ asking # None /\ ~threads[probe.thread].up /\ probe.pending.answer = None
  /\ probe' = [probe EXCEPT !.pending = None] /\ asking' = None /\ answered' = None
  /\ UNCHANGED <<at, threads>>

(*                        the provider                        *)
Works(n) == threads[n].up /\ threads[n].work # None /\ ~threads[n].hung
Take(n) ==
  /\ threads[n].up /\ threads[n].work = None /\ threads[n].queue # None
  /\ threads' = [threads EXCEPT ![n].work = threads[n].queue, ![n].queue = None]
  /\ UNCHANGED <<at, probe, asking, answered>>

(* The foreground window first, then the focused field of whatever window has the focus by then. *)
LookBefore(n) ==
  /\ Works(n) /\ threads[n].work.before = None
  /\ threads' = [threads EXCEPT ![n].work.before = (at.window = threads[n].work.key.window)]
  /\ UNCHANGED <<at, probe, asking, answered>>
Inspect(n) ==
  /\ Works(n) /\ threads[n].work.before = TRUE /\ threads[n].work.seen = None
  /\ threads' = [threads EXCEPT ![n].work.seen = Key]
  /\ UNCHANGED <<at, probe, asking, answered>>

(* The window once more, and the answer to whoever still waits for it: the field that was seen, or    *)
(* "unavailable".                                                             *)
Reply(n) ==
  /\ Works(n) /\ (threads[n].work.before = FALSE \/ threads[n].work.seen # None)
  /\ LET work == threads[n].work
         answer == IF work.before /\ at.window = work.key.window /\ work.seen.window = work.key.window
                     THEN work.seen ELSE [window |-> "unavailable", generation |-> 0]
     IN  probe' = IF work.live THEN [probe EXCEPT !.pending.answer = answer] ELSE probe
  /\ threads' = [threads EXCEPT ![n].work = None]
  /\ UNCHANGED <<at, asking, answered>>

(* A call of the provider may never return, or return after all, or its thread may panic. *)
Hang(n) ==
  /\ Works(n) /\ threads' = [threads EXCEPT ![n].hung = TRUE]
  /\ UNCHANGED <<at, probe, asking, answered>>
Wake(n) ==
  /\ threads[n].hung /\ threads' = [threads EXCEPT ![n].hung = FALSE]
  /\ UNCHANGED <<at, probe, asking, answered>>
Panics(n) ==
  /\ Works(n) /\ n = MaxRespawns /\ threads' = [threads EXCEPT ![n] = NoThread]
  /\ UNCHANGED <<at, probe, asking, answered>>

(*                        the world                        *)
FocusMoves ==
  /\ \/ \E w \in Places \ {at.window} : at' = [at EXCEPT !.window = w]
     \/ /\ at.generation < Generations /\ asking = None
        /\ at' = [at EXCEPT !.generation = @ + 1]
  /\ UNCHANGED <<threads, probe, asking, answered>>

Older(age, cap) == IF age < cap THEN age + 1 ELSE cap
PTick ==
  /\ asking # None => asking.left > 0 /\ probe.pending.answer = None
  /\ asking' = IF asking = None THEN None ELSE [asking EXCEPT !.left = @ - 1]
  /\ probe' = [probe EXCEPT !.pending = IF @ = None THEN None ELSE [@ EXCEPT !.age = Older(@, MaxAge)],
                            !.busy = IF @ = None THEN None ELSE Older(@, StuckAfter)]
  /\ UNCHANGED <<at, threads, answered>>

PInit ==
  /\ at \in [window : Places, generation : {0}]
  /\ threads = [n \in Threads |-> IF n = 0 THEN FreshThread ELSE NoThread]
  /\ probe = [thread |-> 0, pending |-> None, busy |-> None]
  /\ asking = None /\ answered = None

PNext ==
  \/ Query \/ Receive \/ TimeOut \/ Disconnected \/ FocusMoves \/ PTick
  \/ \E n \in Threads : Take(n) \/ LookBefore(n) \/ Inspect(n) \/ Reply(n) \/ Hang(n) \/ Wake(n) \/ Panics(n)

(*                        properties                        *)
(* An answer the worker takes belongs to the question it asks: it is the answer to a request with    *)
(* that very key, no older than allowed, and the provider saw a field of that window no earlier than  *)
(* the last input after which it may be another one; a late answer for a window that lost the focus,  *)
(* or of a thread given up, is never taken.                                                *)
AnswersFitTheQuestion ==
  answered # None =>
    /\ answered.request = answered.question /\ answered.age < MaxAge
    /\ answered.answer.window # "unavailable" =>
         /\ answered.answer.window = answered.question.window
         /\ answered.answer.generation >= answered.question.generation

(* A provider that hangs for good is replaced while threads are left: the worker does not keep asking *)
(* a queue nobody reads.                                                        *)
HungIsReplaced ==
  \A n \in 0..MaxRespawns - 1 : (probe.thread = n) ~> (probe.thread # n \/ ~threads[n].hung)
====
