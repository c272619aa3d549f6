------------------------ MODULE ProtectedPasteProofs ------------------------
(***************************************************************************)
(* PasteAccounted and OthersCopyKept, for any number of pastes, copies,     *)
(* attempts and panics.  The invariant follows one clipboard through three  *)
(* hands: at most one broker is active, and it is lingering or the          *)
(* worker's; while it lends the clipboard, the clipboard is its own or      *)
(* holds what a program copied since; and whenever the newest copy is not   *)
(* there, either the broker that saved it has the clipboard, or a loss was  *)
(* counted or is about to be.                                               *)
(***************************************************************************)
EXTENDS ProtectedPaste, TLAPS

Commands == {"none", "restore", "defer", "abandon", "closed"}
Responses == {"none", "failed", "installed", "notRestored", "restored", "kept"}
Outcomes == {"none", "cancelled", "unsupported", "failed", "selectionLeft", "panic", "applied",
             "appliedNotRestored"}

(* The worker before it has a broker, and while it waits for one. *)
Selecting == {"select", "confirm", "refused", "begin"}
Holding == {"install", "ready", "sent", "restoring"}
WorkerPcs == {"idle", "collapse", "switch"} \cup Selecting \cup Holding

Brokers ==
    [pc : BrokerPcs, before : Nat, saved : Items, attempts : 1..InstallAttempts, seq : Nat,
     cancelled : BOOLEAN, end : Ends, command : Commands, response : Responses,
     noted : BOOLEAN, renders : BOOLEAN]

Workers ==
    [pc : WorkerPcs, paste : 0..MaxPastes, attempts : Nat, tries : Nat, guard : BOOLEAN,
     submitted : BOOLEAN, then : {"none", "abandon", "switch", "unwind"}, outcome : Outcomes]

Clips == [item : Items, owner : 0..MaxPastes, seq : Nat, rendered : BOOLEAN]

Typed ==
    /\ clip \in Clips
    /\ newest \in 0..MaxCopies
    /\ broker \in [Pastes -> Brokers]
    /\ worker \in Workers
    /\ worker.pc # "idle" => worker.paste \in Pastes
    /\ lingering \subseteq Pastes /\ pending \subseteq Pastes
    /\ otherRead \subseteq Pastes /\ panicked \subseteq Pastes
    /\ field \in Fields
    /\ got \in [Pastes -> Items \cup {NotYet}]
    /\ counted \in [Pastes -> Nat]

-----------------------------------------------------------------------------
(* The selection: from its confirmation to the end of the attempt the field *)
(* shows it or has replaced it.                                             *)
Shown == {"begin", "switch"} \cup Holding

NotSubmitted(p) ==
    \/ p > worker.paste
    \/ p = worker.paste /\ worker.pc \in Selecting \cup {"install", "ready"}

Committing ==
    worker.pc = "switch" \/ (worker.pc = "restoring" /\ worker.then \notin {"abandon", "unwind"})

SelectionInv ==
    /\ worker.pc \in Shown => field \in {"selected", "clear"}
    /\ worker.pc \in Shown /\ Shows(worker.paste) => field = "clear"
    /\ Committing => Shows(worker.paste)
    /\ \A p \in Pastes : NotSubmitted(p) \/ p \in pending => got[p] = NotYet
    /\ \A p \in Pastes : NotSubmitted(p) => p \notin pending
    /\ worker.pc = "sent" => worker.submitted
    /\ SelectionAccounted

-----------------------------------------------------------------------------
(* Who is responsible for a broker. *)
Active(p) == broker[p].pc \notin {"none", "over"}

Owned(p) == p = worker.paste /\ worker.pc \in Holding

Unstarted(p) == p > worker.paste \/ (p = worker.paste /\ worker.pc \in Selecting)

OneActive ==
    \A p \in Pastes : Active(p) =>
        /\ p \in lingering \/ Owned(p)
        /\ \A q \in Pastes \ {p} : ~Active(q)
        /\ \A q \in Pastes : q > p => broker[q].pc = "none"

Responsible ==
    \A p \in Pastes :
        /\ p \in lingering => ~Owned(p) /\ p <= worker.paste
        /\ p \in lingering \/ Owned(p) => broker[p].pc # "none"
        /\ Unstarted(p) => broker[p].pc = "none"

(* What a broker says at its end, and what it still says to the worker. *)
Working == BrokerPcs \ {"none", "closing", "over"}
Delivered == {"wait", "reading", "restore"}
Ended(b) == b.pc \in {"closing", "over"}

SaysEnd(b) == b.response = IF b.end = "unread" THEN "notRestored" ELSE b.end

Answers(b) ==
    /\ b.end = "running" <=> ~Ended(b)
    /\ b.pc \in Delivered => b.response = "installed"
    /\ ~Ended(b) /\ b.pc \notin Delivered => b.response = "none"
    /\ Ended(b) => b.response \in {"none", "failed"} \/ SaysEnd(b)

Told(p) ==
    /\ worker.pc \in {"ready", "sent"} /\ p = worker.paste => broker[p].pc = "wait"
    /\ worker.pc \in Holding \ {"install"} /\ p = worker.paste =>
          broker[p].response \notin {"none", "failed"}
    /\ worker.pc \in Holding \ {"restoring"} /\ p = worker.paste =>
          broker[p].command = "none"
    /\ broker[p].command = "closed" => broker[p].pc \in {"reading", "restore", "closing"}
    /\ broker[p].pc \in {"reading", "restore"} => broker[p].command = "closed"
    /\ broker[p].command \in {"abandon", "defer"} =>
          broker[p].pc \in Delivered \cup {"closing", "over"}
    /\ Unstarted(p) => broker[p].command = "none"

CountedWell(p) ==
    \/ counted[p] = 0
    \/ /\ counted[p] = 1 /\ Over(p) /\ p \notin lingering /\ ~Owned(p)
       /\ broker[p].end \in {"notRestored", "unread", "kept"}

BrokerInv ==
    /\ OneActive
    /\ Responsible
    /\ \A p \in Pastes : Answers(broker[p]) /\ Told(p) /\ CountedWell(p)
    /\ worker.pc = "restoring" /\ worker.then = "unwind" => worker.paste \in panicked

-----------------------------------------------------------------------------
(* Where the items are. *)
Lending == {"fill", "filled", "emptied", "undo", "wait", "reading", "restore"}

(* The replacement of p is nowhere. *)
Gone(p) ==
    \/ broker[p].pc \in {"none", "start", "copy", "snapshot", "install", "fill", "emptied", "undo"}
    \/ Ended(broker[p]) /\ broker[p].end \in {"untouched", "restored", "kept"}

Lent(p) ==
    broker[p].pc \in Lending =>
        \/ /\ clip.owner = p
           /\ clip.item = IF broker[p].pc \in {"fill", "emptied", "undo"} THEN Nothing ELSE Text(p)
           /\ broker[p].command # "abandon"
           /\ broker[p].pc \in {"undo", "wait", "reading", "restore"} => clip.seq = broker[p].seq
        \/ /\ clip.owner # p
           /\ clip.item = Copied(newest)
           /\ broker[p].pc # "fill"
           /\ broker[p].saved # Copied(newest)

Fresh(p) ==
    /\ broker[p].pc \in {"snapshot", "install"} => broker[p].before <= clip.seq
    /\ broker[p].pc = "install" /\ clip.seq = broker[p].before => broker[p].saved = clip.item

KnownCopy(item) == item.kind = "copied" => item.n <= newest

Pending(p) == Ended(broker[p]) /\ Lost(p) /\ (p \in lingering \/ Owned(p))

Accounted == \E p \in Pastes : counted[p] = 1 \/ p \in panicked \/ Pending(p)

InGoodHands(p) ==
    broker[p].pc \in Lending /\ clip.owner = p /\ broker[p].saved = Copied(newest)

(* Only what was lent can be pasted, and read.                              *)
Pasted(p) ==
    /\ p \in pending \/ got[p] # NotYet => broker[p].pc \in Delivered \cup {"closing", "over"}
    /\ broker[p].noted /\ p \notin otherRead => got[p] # NotYet
    /\ broker[p].pc = "none" => broker[p].saved = Nothing

(* What a paste still to come must not find: it is restored only after a    *)
(* reader, and nothing brings the user's own item back before it.           *)
Late(p) ==
    p \in pending =>
        /\ broker[p].pc = "wait" => broker[p].command # "restore"
        /\ p \notin otherRead =>
              /\ broker[p].pc # "restore"
              /\ broker[p].saved.kind = "copied" =>
                    /\ clip.item # broker[p].saved
                    /\ \A q \in Pastes : q > p => broker[q].saved # broker[p].saved

ItemInv ==
    /\ \A p \in Pastes : Gone(p) => clip.item # Text(p)
    /\ \A p, q \in Pastes : broker[q].saved = Text(p) =>
           Over(p) /\ broker[p].end \in {"unread", "notRestored"}
    /\ \A p \in Pastes : Lent(p) /\ Fresh(p) /\ Pasted(p) /\ Late(p)
    /\ ~clip.rendered => clip.item = Text(clip.owner)
    /\ clip.item = Copied(newest) \/ Accounted \/ \E p \in Pastes : InGoodHands(p)
    /\ KnownCopy(clip.item) /\ \A p \in Pastes : KnownCopy(broker[p].saved)
    /\ LatePasteNeverUsersOwn

PasteInv == Typed /\ SelectionInv /\ BrokerInv /\ ItemInv

-----------------------------------------------------------------------------
(* Items are told apart by their kind and number. *)
LEMMA ItemFacts ==
    /\ Nothing \in Items /\ Part \in Items
    /\ \A n \in 0..MaxCopies : Copied(n) \in Items
    /\ \A p \in Pastes : Text(p) \in Items
    /\ \A n, m : Copied(n) = Copied(m) <=> n = m
    /\ \A n, m : Text(n) = Text(m) <=> n = m
    /\ \A n, m : Copied(n) # Text(m)
    /\ \A n : Copied(n) \notin {Nothing, Part, NotYet} /\ Text(n) \notin {Nothing, Part, NotYet}
    /\ Nothing # Part
    /\ \A n : Copied(n).kind = "copied" /\ Copied(n).n = n
    /\ \A n : Text(n).kind = "text" /\ Text(n).n = n
    /\ Nothing.kind = "nothing" /\ Part.kind = "part" /\ NotYet.kind = "notYet"
BY DEF Items, Nothing, Part, NotYet, Copied, Text

LEMMA ItemKinds ==
    ASSUME NEW item \in Items
    PROVE  /\ item.kind = "text" => item.n \in Pastes /\ item = Text(item.n)
           /\ item.kind = "copied" => item.n \in 0..MaxCopies /\ item = Copied(item.n)
BY DEF Items, Nothing, Part, Copied, Text

(* What of a job a step leaves alone. *)
Answering(b) == <<b.end, b.response>>
Serving(b) == <<b.command, b.noted>>

(* The job of one broker changes. *)
LEMMA OneBroker ==
    ASSUME broker \in [Pastes -> Brokers], NEW p \in Pastes, NEW job \in Brokers,
           broker' = [broker EXCEPT ![p] = job]
    PROVE  /\ broker' \in [Pastes -> Brokers]
           /\ broker'[p] = job
           /\ \A q \in Pastes \ {p} : broker'[q] = broker[q]
OBVIOUS

LEMMA IdleTyped == BrokerIdle \in Brokers /\ WorkerIdle \in Workers
BY ItemFacts, PasteAssumption DEF BrokerIdle, WorkerIdle, Brokers, Workers, BrokerPcs, Ends,
   Commands, Responses, WorkerPcs, Outcomes, NoPaste

Alone(p) ==
    /\ broker' \in [Pastes -> Brokers]
    /\ \A q \in Pastes \ {p} : broker'[q] = broker[q]

(* The forms that a broker's step has. *)
LEMMA Goes ==
    ASSUME broker \in [Pastes -> Brokers], NEW p \in Pastes, NEW pc \in BrokerPcs, BrokerGoes(p, pc)
    PROVE  /\ Alone(p) /\ broker'[p].pc = pc
           /\ broker'[p].saved = broker[p].saved
           /\ broker'[p].before = broker[p].before /\ broker'[p].seq = broker[p].seq
           /\ Answering(broker'[p]) = Answering(broker[p])
           /\ Serving(broker'[p]) = Serving(broker[p])
<1> DEFINE job == [broker[p] EXCEPT !.pc = pc]
<1>1. /\ job \in Brokers /\ job.pc = pc
      /\ job.saved = broker[p].saved /\ job.before = broker[p].before /\ job.seq = broker[p].seq
      /\ job.end = broker[p].end /\ job.response = broker[p].response
      /\ job.command = broker[p].command /\ job.noted = broker[p].noted
    BY DEF Brokers
<1>2. broker' = [broker EXCEPT ![p] = job]
    BY DEF BrokerGoes
<1> HIDE DEF job
<1> QED
    BY <1>1, <1>2, OneBroker DEF Alone, Answering, Serving

LEMMA EndsSo ==
    ASSUME broker \in [Pastes -> Brokers], NEW p \in Pastes, NEW end \in Ends,
           NEW response \in Responses, BrokerEnds(p, end, response)
    PROVE  /\ Alone(p) /\ broker'[p].pc = "closing"
           /\ broker'[p].end = end /\ broker'[p].response = response
           /\ broker'[p].saved = broker[p].saved
           /\ Serving(broker'[p]) = Serving(broker[p])
<1> DEFINE job == [broker[p] EXCEPT !.pc = "closing", !.end = end, !.response = response]
<1>1. /\ job \in Brokers /\ job.pc = "closing" /\ job.end = end /\ job.response = response
      /\ job.saved = broker[p].saved
      /\ job.command = broker[p].command /\ job.noted = broker[p].noted
    <2>1. broker[p] \in Brokers /\ "closing" \in BrokerPcs
        BY DEF BrokerPcs
    <2>2. job \in Brokers
        BY <2>1 DEF Brokers
    <2>3. /\ job.pc = "closing" /\ job.end = end /\ job.response = response
          /\ job.saved = broker[p].saved
          /\ job.command = broker[p].command /\ job.noted = broker[p].noted
        BY <2>1 DEF Brokers
    <2> QED
        BY <2>2, <2>3
<1>2. broker' = [broker EXCEPT ![p] = job]
    BY DEF BrokerEnds
<1> HIDE DEF job
<1> QED
    BY <1>1, <1>2, OneBroker DEF Alone, Serving

LEMMA ClosesSo ==
    ASSUME broker \in [Pastes -> Brokers], NEW p \in Pastes, NEW end \in {"restored", "notRestored"},
           Closes(p, end)
    PROVE  /\ Alone(p) /\ broker'[p].pc = "closing"
           /\ broker'[p].end = end /\ broker'[p].response = Answer(p, end)
           /\ broker'[p].saved = broker[p].saved
           /\ Serving(broker'[p]) = Serving(broker[p])
<1> DEFINE response == Answer(p, end)
           job == [broker[p] EXCEPT !.pc = "closing", !.end = end, !.renders = FALSE,
                                    !.response = response]
<1>0. end \in Ends /\ response \in Responses
    BY DEF Answer, Ends, Responses
<1>1. broker' = [broker EXCEPT ![p] = job]
    BY DEF Closes
<1> HIDE DEF response
<1>2. /\ job \in Brokers /\ job.pc = "closing" /\ job.end = end /\ job.response = response
      /\ job.saved = broker[p].saved
      /\ job.command = broker[p].command /\ job.noted = broker[p].noted
    <2>1. broker[p] \in Brokers /\ "closing" \in BrokerPcs
        BY DEF BrokerPcs
    <2>2. job \in Brokers
        BY <1>0, <2>1 DEF Brokers
    <2>3. /\ job.pc = "closing" /\ job.end = end /\ job.response = response
          /\ job.saved = broker[p].saved
          /\ job.command = broker[p].command /\ job.noted = broker[p].noted
        BY <2>1 DEF Brokers
    <2> QED
        BY <2>2, <2>3
<1> HIDE DEF job
<1> QED
    BY <1>1, <1>2, OneBroker DEF Alone, Serving, response

LEMMA Refused ==
    ASSUME broker \in [Pastes -> Brokers], NEW p \in Pastes, NEW transient \in BOOLEAN,
           RefusedFor(p, transient)
    PROVE  /\ Alone(p) /\ broker'[p].saved = broker[p].saved
           /\ Serving(broker'[p]) = Serving(broker[p])
           /\ \/ broker'[p].pc = "copy" /\ Answering(broker'[p]) = Answering(broker[p])
              \/ /\ broker'[p].pc = "closing" /\ broker'[p].end = "untouched"
                 /\ broker'[p].response = "failed"
<1>1. CASE BrokerEnds(p, "untouched", "failed")
    BY <1>1, EndsSo DEF Ends, Responses
<1>2. CASE ~BrokerEnds(p, "untouched", "failed")
    <2> DEFINE job == [broker[p] EXCEPT !.pc = "copy", !.attempts = broker[p].attempts + 1]
    <2>1. broker[p].attempts < InstallAttempts /\ broker' = [broker EXCEPT ![p] = job]
        BY <1>2 DEF RefusedFor
    <2>2. broker[p].attempts \in 1..InstallAttempts /\ broker[p] \in Brokers
        BY DEF Brokers
    <2>3. broker[p].attempts + 1 \in 1..InstallAttempts
        BY <2>1, <2>2, PasteAssumption
    <2>4. /\ job \in Brokers /\ job.pc = "copy"
          /\ job.end = broker[p].end /\ job.response = broker[p].response
          /\ job.saved = broker[p].saved
          /\ job.command = broker[p].command /\ job.noted = broker[p].noted
        BY <2>2, <2>3 DEF Brokers, BrokerPcs
    <2> HIDE DEF job
    <2> QED
        BY <2>1, <2>4, OneBroker DEF Alone, Serving, Answering
<1> QED
    BY <1>1, <1>2

LEMMA Reads ==
    ASSUME Typed, NEW p \in Pastes, ReadBefore(p) \/ ReadSequence(p)
    PROVE  /\ Alone(p) /\ broker'[p].saved = broker[p].saved
           /\ broker'[p].end = broker[p].end
           /\ Serving(broker'[p]) = Serving(broker[p])
           /\ \/ /\ broker[p].pc = "copy" /\ broker'[p].pc = "snapshot"
                 /\ broker'[p].before = clip.seq /\ broker'[p].response = broker[p].response
              \/ /\ broker[p].pc = "filled" /\ broker'[p].pc = "wait"
                 /\ broker'[p].seq = clip.seq /\ broker'[p].response = "installed"
              \/ /\ broker[p].pc = "emptied" /\ broker'[p].pc = "undo"
                 /\ broker'[p].seq = clip.seq /\ broker'[p].response = broker[p].response
<1>1. broker \in [Pastes -> Brokers] /\ broker[p] \in Brokers /\ clip.seq \in Nat
    BY DEF Typed, Clips
<1>2. CASE ReadBefore(p)
    <2> DEFINE job == [broker[p] EXCEPT !.pc = "snapshot", !.before = clip.seq]
    <2>1. /\ job \in Brokers /\ job.pc = "snapshot" /\ job.before = clip.seq
          /\ job.end = broker[p].end /\ job.response = broker[p].response
          /\ job.saved = broker[p].saved
          /\ job.command = broker[p].command /\ job.noted = broker[p].noted
        BY <1>1 DEF Brokers, BrokerPcs
    <2>2. broker[p].pc = "copy" /\ broker' = [broker EXCEPT ![p] = job]
        BY <1>2 DEF ReadBefore
    <2> HIDE DEF job
    <2> QED
        BY <1>1, <2>1, <2>2, OneBroker DEF Alone, Serving
<1>3. CASE ReadSequence(p) /\ broker[p].pc = "filled"
    <2> DEFINE job == [broker[p] EXCEPT !.pc = "wait", !.seq = clip.seq, !.response = "installed"]
    <2>1. /\ job \in Brokers /\ job.pc = "wait" /\ job.seq = clip.seq
          /\ job.end = broker[p].end /\ job.response = "installed"
          /\ job.saved = broker[p].saved
          /\ job.command = broker[p].command /\ job.noted = broker[p].noted
        BY <1>1 DEF Brokers, BrokerPcs, Responses
    <2>2. broker' = [broker EXCEPT ![p] = job]
        BY <1>3 DEF ReadSequence
    <2> HIDE DEF job
    <2> QED
        BY <1>1, <1>3, <2>1, <2>2, OneBroker DEF Alone, Serving
<1>4. CASE ReadSequence(p) /\ broker[p].pc # "filled"
    <2> DEFINE job == [broker[p] EXCEPT !.pc = "undo", !.seq = clip.seq]
    <2>1. /\ job \in Brokers /\ job.pc = "undo" /\ job.seq = clip.seq
          /\ job.end = broker[p].end /\ job.response = broker[p].response
          /\ job.saved = broker[p].saved
          /\ job.command = broker[p].command /\ job.noted = broker[p].noted
        BY <1>1 DEF Brokers, BrokerPcs
    <2>2. broker[p].pc = "emptied" /\ broker' = [broker EXCEPT ![p] = job]
        BY <1>4 DEF ReadSequence
    <2> HIDE DEF job
    <2> QED
        BY <1>1, <2>1, <2>2, OneBroker DEF Alone, Serving
<1> QED
    BY <1>2, <1>3, <1>4

LEMMA Snapshots ==
    ASSUME Typed, NEW p \in Pastes,
           broker' = [broker EXCEPT ![p] = [@ EXCEPT !.pc = "install", !.saved = clip.item]]
    PROVE  /\ Alone(p) /\ broker'[p].pc = "install" /\ broker'[p].saved = clip.item
           /\ broker'[p].before = broker[p].before
           /\ Answering(broker'[p]) = Answering(broker[p])
           /\ Serving(broker'[p]) = Serving(broker[p])
<1> DEFINE job == [broker[p] EXCEPT !.pc = "install", !.saved = clip.item]
<1>1. broker \in [Pastes -> Brokers] /\ broker[p] \in Brokers /\ clip.item \in Items
    BY DEF Typed, Clips
<1>2. /\ job \in Brokers /\ job.pc = "install" /\ job.saved = clip.item
      /\ job.before = broker[p].before
      /\ job.end = broker[p].end /\ job.response = broker[p].response
      /\ job.command = broker[p].command /\ job.noted = broker[p].noted
    BY <1>1 DEF Brokers, BrokerPcs
<1> HIDE DEF job
<1> QED
    BY <1>1, <1>2, OneBroker DEF Alone, Serving, Answering, job

LEMMA Installs ==
    ASSUME Typed, NEW p \in Pastes,
           broker' = [broker EXCEPT ![p] = [@ EXCEPT !.pc = "fill", !.before = 0, !.attempts = 1,
                                                     !.renders = TRUE]]
    PROVE  /\ Alone(p) /\ broker'[p].pc = "fill" /\ broker'[p].saved = broker[p].saved
           /\ Answering(broker'[p]) = Answering(broker[p])
           /\ Serving(broker'[p]) = Serving(broker[p])
<1> DEFINE job == [broker[p] EXCEPT !.pc = "fill", !.before = 0, !.attempts = 1, !.renders = TRUE]
<1>1. broker \in [Pastes -> Brokers] /\ broker[p] \in Brokers
    BY DEF Typed
<1>2. 0 \in Nat /\ 1 \in 1..InstallAttempts
    BY PasteAssumption
<1>3. /\ job \in Brokers /\ job.pc = "fill" /\ job.saved = broker[p].saved
      /\ job.end = broker[p].end /\ job.response = broker[p].response
      /\ job.command = broker[p].command /\ job.noted = broker[p].noted
    BY <1>1, <1>2 DEF Brokers, BrokerPcs
<1> HIDE DEF job
<1> QED
    BY <1>1, <1>3, OneBroker DEF Alone, Serving, Answering, job

LEMMA Takes ==
    ASSUME broker \in [Pastes -> Brokers], NEW p \in Pastes, NEW pc \in {"restore", "reading"},
           broker' = [broker EXCEPT ![p] = [@ EXCEPT !.pc = pc, !.command = "closed"]]
    PROVE  /\ Alone(p) /\ broker'[p].pc = pc /\ broker'[p].saved = broker[p].saved
           /\ broker'[p].seq = broker[p].seq
           /\ Answering(broker'[p]) = Answering(broker[p])
           /\ broker'[p].command = "closed" /\ broker'[p].noted = broker[p].noted
<1> DEFINE job == [broker[p] EXCEPT !.pc = pc, !.command = "closed"]
<1>1. broker[p] \in Brokers
    OBVIOUS
<1>2. /\ job \in Brokers /\ job.pc = pc /\ job.saved = broker[p].saved /\ job.seq = broker[p].seq
      /\ job.end = broker[p].end /\ job.response = broker[p].response
      /\ job.command = "closed" /\ job.noted = broker[p].noted
    BY <1>1 DEF Brokers, BrokerPcs, Commands
<1> HIDE DEF job
<1> QED
    BY <1>2, OneBroker DEF Alone, Answering, job

LEMMA Commanded ==
    ASSUME broker \in [Pastes -> Brokers], NEW p \in Pastes, NEW command \in Commands,
           \/ broker' = [broker EXCEPT ![p] = [@ EXCEPT !.command = command]]
           \/ broker' = [broker EXCEPT ![p] = [@ EXCEPT !.cancelled = TRUE, !.command = command]]
    PROVE  /\ Alone(p) /\ broker'[p].pc = broker[p].pc /\ broker'[p].saved = broker[p].saved
           /\ broker'[p].before = broker[p].before /\ broker'[p].seq = broker[p].seq
           /\ Answering(broker'[p]) = Answering(broker[p])
           /\ broker'[p].command = command /\ broker'[p].noted = broker[p].noted
<1>1. PICK job \in {[broker[p] EXCEPT !.command = command],
                    [broker[p] EXCEPT !.cancelled = TRUE, !.command = command]} :
          broker' = [broker EXCEPT ![p] = job]
    OBVIOUS
<1>2. broker[p] \in Brokers
    OBVIOUS
<1>3. /\ job \in Brokers /\ job.pc = broker[p].pc /\ job.saved = broker[p].saved
      /\ job.before = broker[p].before /\ job.seq = broker[p].seq
      /\ job.end = broker[p].end /\ job.response = broker[p].response
      /\ job.command = command /\ job.noted = broker[p].noted
    BY <1>1, <1>2 DEF Brokers
<1> QED
    BY <1>1, <1>3, OneBroker DEF Alone, Answering

LEMMA Noted ==
    ASSUME broker \in [Pastes -> Brokers], NEW p \in Pastes, NEW noted \in BOOLEAN,
           broker' = [broker EXCEPT ![p] = [@ EXCEPT !.noted = noted]]
    PROVE  /\ Alone(p) /\ broker'[p].pc = broker[p].pc /\ broker'[p].saved = broker[p].saved
           /\ broker'[p].before = broker[p].before /\ broker'[p].seq = broker[p].seq
           /\ Answering(broker'[p]) = Answering(broker[p])
           /\ broker'[p].command = broker[p].command /\ broker'[p].noted = noted
<1> DEFINE job == [broker[p] EXCEPT !.noted = noted]
<1>1. broker[p] \in Brokers
    OBVIOUS
<1>2. /\ job \in Brokers /\ job.pc = broker[p].pc /\ job.saved = broker[p].saved
      /\ job.before = broker[p].before /\ job.seq = broker[p].seq
      /\ job.end = broker[p].end /\ job.response = broker[p].response
      /\ job.command = broker[p].command /\ job.noted = noted
    BY <1>1 DEF Brokers
<1> HIDE DEF job
<1> QED
    BY <1>2, OneBroker DEF Alone, Answering, job

LEMMA WindowCloses ==
    ASSUME broker \in [Pastes -> Brokers], NEW p \in Pastes, CloseWindow(p)
    PROVE  /\ Alone(p) /\ broker[p].pc = "closing" /\ broker'[p].pc = "over"
           /\ broker'[p].saved = broker[p].saved /\ broker'[p].end = broker[p].end
           /\ broker'[p].response = IF p \in lingering THEN "none" ELSE broker[p].response
           /\ broker'[p].command = "none" /\ ~broker'[p].noted
<1> DEFINE b == broker[p]
           response == IF p \in lingering THEN "none" ELSE b.response
           job == [BrokerIdle EXCEPT !.pc = "over", !.end = b.end, !.saved = b.saved,
                                     !.response = response]
<1>1. b \in Brokers
    OBVIOUS
<1>2. response \in Responses
    BY <1>1 DEF Brokers, Responses
<1>3. b.pc = "closing" /\ broker' = [broker EXCEPT ![p] = job]
    BY DEF CloseWindow
<1> HIDE DEF response
<1>4. /\ job \in Brokers /\ job.pc = "over" /\ job.saved = b.saved /\ job.end = b.end
      /\ job.response = response /\ job.command = "none" /\ ~job.noted
    BY <1>1, <1>2, IdleTyped DEF Brokers, BrokerPcs, BrokerIdle
<1> HIDE DEF job
<1> QED
    BY <1>3, <1>4, OneBroker DEF Alone, response

-----------------------------------------------------------------------------
(* Types. *)
LEMMA BrokerAlone ==
    ASSUME Typed, NEW p \in Pastes, Broker(p)
    PROVE  Alone(p)
<1> USE DEF Typed
<1>1. CASE BrokerSetup(p) \/ Fill(p)
    <2>1. "copy" \in BrokerPcs /\ "filled" \in BrokerPcs /\ "emptied" \in BrokerPcs
          /\ "untouched" \in Ends /\ "failed" \in Responses
        BY DEF BrokerPcs, Ends, Responses
    <2> QED
        BY <1>1, <2>1, Goes, EndsSo DEF BrokerSetup, Fill
<1>2. CASE ReadBefore(p) \/ ReadSequence(p)
    BY <1>2, Reads
<1>3. CASE Snapshot(p)
    BY <1>3, Snapshots, Refused DEF Snapshot
<1>4. CASE Install(p)
    BY <1>4, Installs, Refused DEF Install
<1>5. CASE Undo(p) \/ Restore(p)
    <2>1. ASSUME BrokerEnds(p, "notRestored", Answer(p, "notRestored")) PROVE Alone(p)
        BY <2>1, EndsSo DEF Answer, Ends, Responses
    <2> QED
        BY <1>5, <2>1, ClosesSo DEF Undo, Restore, PutBack
<1>6. CASE TakeCommand(p) \/ AwaitReader(p)
    <2>1. "restore" \in BrokerPcs /\ {"kept", "notRestored", "unread"} \subseteq Ends
          /\ {"kept", "notRestored"} \subseteq Responses
        BY DEF BrokerPcs, Ends, Responses
    <2> QED
        BY <1>6, <2>1, Goes, EndsSo, Takes DEF TakeCommand, AwaitReader
<1>7. CASE CloseWindow(p)
    BY <1>7, WindowCloses
<1> QED
    BY <1>1, <1>2, <1>3, <1>4, <1>5, <1>6, <1>7 DEF Broker

LEMMA BrokerTyped ==
    ASSUME Typed, NEW p \in Pastes, Broker(p)
    PROVE  Typed' /\ UNCHANGED <<newest, worker, lingering, target, ledger>>
<1>1. Alone(p)
    BY BrokerAlone
<1>2. UNCHANGED <<newest, worker, lingering, target, ledger>>
    BY DEF Broker, BrokerSetup, ReadBefore, Snapshot, Install, Fill, ReadSequence, Undo, Restore,
       TakeCommand, AwaitReader, CloseWindow, clipboard
<1>3. clip' \in Clips
    <2>1. /\ clip \in Clips /\ broker[p].saved \in Items /\ Text(p) \in Items
          /\ p \in 0..MaxPastes /\ NoPaste \in 0..MaxPastes
          /\ Nothing \in Items /\ Part \in Items
        BY ItemFacts, PasteAssumption DEF Typed, Pastes, NoPaste, Brokers
    <2>2. \A item \in Items :
              [item |-> item, owner |-> p, seq |-> clip.seq + 1, rendered |-> TRUE] \in Clips
        BY <2>1 DEF Clips
    <2>3. CASE Install(p)
        BY <2>1, <2>2, <2>3 DEF Install
    <2>4. CASE Fill(p)
        BY <2>1, <2>4 DEF Fill, Clips
    <2>5. CASE Undo(p) \/ Restore(p)
        BY <2>1, <2>2, <2>5 DEF Undo, Restore, PutBack
    <2>6. CASE CloseWindow(p)
        <3>1. CASE clip.owner = p
            <4>1. PICK item \in Items :
                      clip' = [clip EXCEPT !.owner = NoPaste, !.item = item, !.rendered = TRUE]
                BY <2>1, <2>6, <3>1 DEF CloseWindow, Clips
            <4> QED
                BY <2>1, <4>1 DEF Clips
        <3>2. CASE clip.owner # p
            BY <2>1, <2>6, <3>2 DEF CloseWindow
        <3> QED
            BY <3>1, <3>2
    <2>7. CASE clip' = clip
        BY <2>1, <2>7
    <2> QED
        BY <2>3, <2>4, <2>5, <2>6, <2>7 DEF Broker, BrokerSetup, ReadBefore, Snapshot, ReadSequence,
           TakeCommand, AwaitReader, clipboard
<1> QED
    BY <1>1, <1>2, <1>3 DEF Typed, Alone, target, ledger

(* The forms that a worker's step has. *)
SamePaste == worker'.paste = worker.paste /\ worker'.submitted = worker.submitted

LEMMA Finishes ==
    ASSUME worker \in Workers, NEW outcome \in Outcomes, Finish(outcome)
    PROVE  /\ worker' \in Workers /\ worker'.pc = "idle" /\ SamePaste
           /\ worker'.outcome = outcome /\ worker'.then = "none"
<1>1. worker' = [WorkerIdle EXCEPT !.paste = worker.paste, !.submitted = worker.submitted,
                                   !.outcome = outcome]
    BY DEF Finish, Current
<1>2. WorkerIdle \in Workers /\ WorkerIdle.pc = "idle" /\ WorkerIdle.then = "none"
    BY IdleTyped DEF WorkerIdle
<1> QED
    BY <1>1, <1>2 DEF Workers, SamePaste

LEMMA Abandons ==
    ASSUME worker \in Workers, NEW outcome \in Outcomes, Abandon(outcome)
    PROVE  /\ worker' \in Workers /\ worker'.pc = "collapse" /\ SamePaste
           /\ worker'.outcome = outcome /\ worker'.then = worker.then
BY DEF Abandon, Workers, WorkerPcs, SamePaste

LEMMA WorkerWent ==
    ASSUME worker \in Workers, NEW pc \in WorkerPcs, WorkerGoes(pc)
    PROVE  /\ worker' \in Workers /\ worker'.pc = pc /\ SamePaste
           /\ worker'.outcome = worker.outcome /\ worker'.then = worker.then
BY DEF WorkerGoes, Workers, SamePaste

(* Selecting, and collapsing a selection, ends with the selection gone, or  *)
(* reported as left.                                                        *)
LEMMA SelectingStep ==
    ASSUME Typed,
           \/ EndSelection \/ SelectRead \/ SelectCall \/ FailedCall \/ Confirmed \/ NotConfirmed
    PROVE  /\ UNCHANGED <<clipboard, broker, lingering, pending, got, otherRead, ledger>>
           /\ worker' \in Workers /\ SamePaste /\ field' \in Fields
           /\ worker'.pc \in Selecting \cup {"idle"}
           /\ \/ worker.pc \in Selecting \ {"begin"}
              \/ worker.pc = "collapse" /\ worker'.pc = "idle"
           /\ worker'.pc = "begin" => field' = "selected"
           /\ worker'.pc = "idle" => field' # "selected" \/ worker'.outcome = "selectionLeft"
<1>1. worker \in Workers /\ field \in Fields /\ worker.outcome \in Outcomes /\ worker.tries \in Nat
    BY DEF Typed, Workers
<1>2. {"cancelled", "unsupported", "failed", "selectionLeft"} \subseteq Outcomes
    BY DEF Outcomes
<1>3. /\ {"select", "confirm", "refused", "begin"} \subseteq Selecting \cap WorkerPcs
      /\ {"select", "confirm", "refused"} \subseteq Selecting \ {"begin"}
    BY DEF Selecting, WorkerPcs
<1> DEFINE Settled ==
               /\ worker' \in Workers /\ SamePaste /\ field' \in Fields
               /\ worker'.pc = "idle" /\ (field' # "selected" \/ worker'.outcome = "selectionLeft")
<1>4. ASSUME NEW outcome \in Outcomes, Collapsed(Finish(outcome), Finish("selectionLeft"))
      PROVE  Settled
    <2>1. field' \in Fields
        BY <1>1, <1>4 DEF Collapsed, Fields
    <2>2. Finish("selectionLeft") \/ (Finish(outcome) /\ field' # "selected")
        BY <1>4 DEF Collapsed
    <2> QED
        BY <1>1, <1>2, <2>1, <2>2, Finishes
<1>5. CASE EndSelection
    <2>1. Settled
        BY <1>1, <1>2, <1>4, <1>5, Finishes DEF EndSelection
    <2> QED
        BY <1>5, <2>1 DEF EndSelection
<1>6. CASE SelectRead
    <2>1. CASE /\ \E status \in {"cancelled", "unsupported"} : Finish(status)
               /\ field' = IF field = "selected" THEN "stray" ELSE field
        <3>1. field' \in Fields \ {"selected"}
            BY <1>1, <2>1 DEF Fields
        <3> QED
            BY <1>1, <1>2, <1>3, <1>6, <2>1, <3>1, Finishes DEF SelectRead
    <2> QED
        BY <1>2, <1>3, <1>4, <1>6, <2>1 DEF SelectRead
<1>7. CASE SelectCall
    <2>1. PICK returned \in {"confirm", "refused"} :
              worker' = [worker EXCEPT !.pc = returned, !.tries = worker.tries + 1]
        BY <1>7 DEF SelectCall
    <2>2. worker.tries + 1 \in Nat /\ returned \in WorkerPcs
        BY <1>1, <1>3
    <2>3. worker' \in Workers /\ worker'.pc = returned /\ SamePaste
        BY <1>1, <2>1, <2>2 DEF Workers, SamePaste
    <2> QED
        BY <1>3, <1>7, <2>3 DEF SelectCall, Fields
<1>8. CASE FailedCall
    BY <1>2, <1>3, <1>4, <1>8 DEF FailedCall
<1>9. CASE Confirmed
    <2>1. worker' \in Workers /\ worker'.pc = "begin" /\ SamePaste
        BY <1>1, <1>3, <1>9 DEF Confirmed, Workers, SamePaste
    <2> QED
        BY <1>1, <1>3, <1>9, <2>1 DEF Confirmed, clipboard, target, ledger
<1>10. CASE NotConfirmed
    <2>1. /\ worker.pc = "confirm"
          /\ UNCHANGED <<clipboard, broker, lingering, pending, got, otherRead, ledger>>
          /\ field' \in {field, "clear"}
          /\ \/ WorkerGoes("select")
             \/ Finish("selectionLeft")
             \/ field' # "selected" /\ (Finish("cancelled") \/ Finish("unsupported"))
        BY <1>10 DEF NotConfirmed, Collapsed
    <2>2. CASE WorkerGoes("select")
        BY <1>1, <1>3, <2>1, <2>2, WorkerWent DEF Fields
    <2>3. CASE ~WorkerGoes("select")
        <3>1. field' \in Fields
            BY <1>1, <2>1 DEF Fields
        <3>2. Settled
            BY <1>1, <1>2, <2>1, <2>3, <3>1, Finishes
        <3> QED
            BY <1>3, <2>1, <3>2
    <2> QED
        BY <2>2, <2>3
<1> QED
    BY <1>5, <1>6, <1>7, <1>8, <1>9, <1>10

(* A command reaches the broker of the worker's paste and nothing else. *)
GetsCommand(p, command) ==
    /\ Alone(p) /\ broker'[p].pc = broker[p].pc /\ broker'[p].saved = broker[p].saved
    /\ broker'[p].before = broker[p].before /\ broker'[p].seq = broker[p].seq
    /\ Answering(broker'[p]) = Answering(broker[p])
    /\ broker'[p].command = command /\ broker'[p].noted = broker[p].noted

(* The worker waits for its broker, gives up on it, or has it restore.      *)
LEMMA HoldingStep ==
    ASSUME Typed, worker.pc \in Holding,
           \/ Installed \/ NotInstalled \/ Cancel \/ Submit \/ NotCommitted \/ Committed \/ Unwind
    PROVE  LET p == worker.paste IN
           /\ UNCHANGED <<clipboard, field, got, otherRead, counted>>
           /\ worker' \in Workers /\ worker'.paste = p
           /\ \/ /\ worker.pc = "install" /\ worker'.pc = "ready"
                 /\ broker[p].response = "installed" /\ worker'.submitted = worker.submitted
                 /\ UNCHANGED <<broker, lingering, pending, panicked>>
              \/ /\ worker.pc = "install" /\ worker'.pc = "collapse"
                 /\ broker' = broker \/ (~Over(p) /\ GetsCommand(p, "restore"))
                 /\ lingering' = lingering \cup {p}
                 /\ UNCHANGED <<pending, panicked>>
              \/ /\ worker.pc = "ready" /\ worker'.pc = "sent" /\ worker'.submitted
                 /\ pending' \in {pending \cup {p}, pending} /\ MaySubmit
                 /\ UNCHANGED <<broker, lingering, panicked>>
              \/ /\ worker.pc \in {"ready", "sent"} /\ worker'.pc = "restoring"
                 /\ GetsCommand(p, IF IsCurrent THEN "restore" ELSE "abandon")
                 /\ \/ worker'.then = "abandon" /\ worker.pc = "ready" /\ panicked' = panicked
                    \/ worker'.then = "switch" /\ worker.pc = "sent" /\ Shows(p) /\ panicked' = panicked
                    \/ /\ worker'.then = "unwind" /\ ~worker.submitted
                       /\ panicked' = panicked \cup {p}
                 /\ UNCHANGED <<lingering, pending>>
              \/ /\ worker.pc \in {"ready", "sent"} /\ worker'.pc \in {"collapse", "idle"}
                 /\ worker.pc = "ready" => worker.submitted
                 /\ worker'.pc = "idle" => worker'.outcome = "panic"
                 /\ GetsCommand(p, "defer")
                 /\ lingering' = lingering \cup {p}
                 /\ panicked' \in {panicked, panicked \cup {p}} /\ UNCHANGED pending
<1> DEFINE p == worker.paste
<1>1. /\ worker \in Workers /\ broker \in [Pastes -> Brokers] /\ p \in Pastes
      /\ {"ready", "sent", "restoring", "collapse"} \subseteq WorkerPcs
      /\ {"cancelled", "failed", "panic"} \subseteq Outcomes
      /\ {"restore", "abandon", "defer"} \subseteq Commands
    BY DEF Typed, Holding, WorkerPcs, Outcomes, Commands
<1>2. ASSUME NEW command \in {"restore", "abandon", "defer"}, Command(p, command)
      PROVE  GetsCommand(p, command)
    BY <1>1, <1>2, Commanded DEF Command, GetsCommand
<1>3. ASSUME NEW then \in {"abandon", "switch", "unwind"}, RestoreThen(then)
      PROVE  /\ worker' \in Workers /\ worker'.pc = "restoring" /\ SamePaste /\ worker'.then = then
             /\ GetsCommand(p, IF IsCurrent THEN "restore" ELSE "abandon")
    <2>1. worker' = [worker EXCEPT !.pc = "restoring", !.then = then]
        BY <1>3 DEF RestoreThen
    <2>2. worker' \in Workers /\ worker'.pc = "restoring" /\ SamePaste /\ worker'.then = then
        BY <1>1, <2>1 DEF Workers, SamePaste
    <2> QED
        BY <1>2, <1>3, <2>2 DEF RestoreThen, Current
<1>4. CASE Installed
    BY <1>1, <1>4, WorkerWent DEF Installed, SamePaste, Current, target, ledger
<1>5. CASE NotInstalled
    <2>1. /\ worker' \in Workers /\ worker'.pc = "collapse" /\ worker'.paste = p
        BY <1>1, <1>5, Abandons DEF NotInstalled, SamePaste
    <2>2. ASSUME GiveUpInstall(p) PROVE GetsCommand(p, "restore")
        BY <1>1, <2>2, Commanded DEF GiveUpInstall, GetsCommand
    <2> QED
        BY <1>5, <2>1, <2>2 DEF NotInstalled, Current, target, ledger
<1>6. CASE Cancel
    BY <1>3, <1>6 DEF Cancel, SamePaste, clipboard, target, ledger
<1>7. CASE Submit
    <2>1. worker' = [worker EXCEPT !.pc = "sent", !.submitted = TRUE]
        BY <1>7 DEF Submit
    <2>2. worker' \in Workers /\ worker'.pc = "sent" /\ worker'.submitted /\ worker'.paste = p
        BY <1>1, <2>1 DEF Workers
    <2> QED
        BY <1>7, <2>2 DEF Submit, Current, clipboard, ledger
<1>8. CASE NotCommitted
    <2>1. worker' \in Workers /\ worker'.pc = "collapse" /\ worker'.paste = p
        BY <1>1, <1>8, Abandons DEF NotCommitted, SamePaste
    <2> QED
        BY <1>2, <1>8, <2>1 DEF NotCommitted, Defer, Unconfirmed, Current, target, ledger
<1>9. CASE Committed
    BY <1>3, <1>9 DEF Committed, SamePaste, Current, clipboard, target, ledger
<1>10. CASE Unwind /\ worker.submitted
    <2>1. worker' \in Workers /\ worker'.pc = "idle" /\ worker'.paste = p /\ worker'.outcome = "panic"
        BY <1>1, <1>10, Finishes DEF Unwind, SamePaste
    <2> QED
        BY <1>2, <1>10, <2>1 DEF Unwind, Defer, Unconfirmed, Current, clipboard, target
<1>11. CASE Unwind /\ ~worker.submitted
    BY <1>3, <1>11 DEF Unwind, SamePaste, Current, clipboard, target
<1> QED
    BY <1>4, <1>5, <1>6, <1>7, <1>8, <1>9, <1>10, <1>11

(* The worker starts a paste, or only reaps the brokers that are over. *)
Reaps ==
    /\ lingering' = {p \in lingering : ~Over(p)}
    /\ counted' \in [Pastes -> Nat]
    /\ \A p \in Pastes : counted'[p] = counted[p] + IF p \in lingering /\ Over(p) /\ Lost(p) THEN 1 ELSE 0

LEMMA StartingStep ==
    ASSUME Typed, NextEvent \/ StartPaste
    PROVE  /\ worker.pc = "idle" /\ Reaps
           /\ UNCHANGED <<clipboard, broker, pending, got, otherRead, panicked>>
           /\ \/ worker' = worker /\ field' = field
              \/ /\ worker' \in Workers /\ worker'.pc = "select"
                 /\ worker'.paste = worker.paste + 1 /\ worker'.paste \in Pastes
                 /\ field' = "clear"
<1>1. worker \in Workers /\ counted \in [Pastes -> Nat] /\ lingering \subseteq Pastes
    BY DEF Typed
<1>2. Reap
    BY DEF NextEvent, StartPaste
<1>3. Reaps
    BY <1>1, <1>2 DEF Reap, Reaps
<1>4. CASE NextEvent
    BY <1>3, <1>4 DEF NextEvent, target
<1>5. CASE StartPaste
    <2>1. PICK n \in {1, SelectAttempts} :
              worker' = [WorkerIdle EXCEPT !.pc = "select", !.paste = worker.paste + 1, !.attempts = n]
        BY <1>5 DEF StartPaste, Current
    <2>2. n \in Nat /\ worker.paste \in 0..MaxPastes /\ worker.paste < MaxPastes
        BY <1>1, <1>5, PasteAssumption DEF Workers, StartPaste
    <2>3. worker.paste + 1 \in Pastes /\ worker.paste + 1 \in 0..MaxPastes
        BY <2>2, PasteAssumption DEF Pastes
    <2>4. worker' \in Workers /\ worker'.pc = "select" /\ worker'.paste = worker.paste + 1
        BY <2>1, <2>2, <2>3, IdleTyped DEF Workers, WorkerPcs, Selecting
    <2> QED
        BY <1>3, <1>5, <2>3, <2>4 DEF StartPaste
<1> QED
    BY <1>4, <1>5

LEMMA BeginningStep ==
    ASSUME Typed, Begin
    PROVE  /\ UNCHANGED <<clipboard, lingering, target, ledger>>
           /\ worker.pc = "begin" /\ worker' \in Workers /\ SamePaste
           /\ \/ worker'.pc = "collapse" /\ broker' = broker
              \/ worker'.pc = "install" /\ ~Busy /\ BrokerGoes(worker.paste, "start")
<1>1. worker \in Workers /\ "cancelled" \in Outcomes /\ "install" \in WorkerPcs
    BY DEF Typed, Outcomes, WorkerPcs, Holding
<1>2. CASE Abandon("cancelled") /\ UNCHANGED broker
    BY <1>1, <1>2, Abandons DEF Begin
<1>3. CASE ~Busy /\ BrokerGoes(worker.paste, "start") /\ WorkerGoes("install")
    BY <1>1, <1>3, WorkerWent DEF Begin
<1> QED
    BY <1>2, <1>3 DEF Begin, Current

LEMMA RestoringStep ==
    ASSUME Typed, RestoreAnswered \/ RestoreLate \/ SwitchLayout
    PROVE  LET p == worker.paste IN
           /\ UNCHANGED <<clipboard, broker, target, panicked>>
           /\ worker' \in Workers /\ SamePaste
           /\ \/ /\ worker.pc = "restoring"
                 /\ \/ worker'.pc = "idle" /\ worker.then = "unwind" /\ worker'.outcome = "panic"
                    \/ worker'.pc = "collapse"
                    \/ worker'.pc = "switch" /\ worker.then \notin {"abandon", "unwind"}
                 /\ \/ lingering' = lingering \cup {p} /\ counted' = counted
                    \/ /\ Over(p) /\ lingering' = lingering /\ counted' \in [Pastes -> Nat]
                       /\ broker[p].response \notin {"none", "installed"} /\ p \notin lingering
                       /\ \A q \in Pastes \ {p} : counted'[q] = counted[q]
                       /\ counted'[p] = counted[p] + IF broker[p].response = "restored"
                                                        \/ worker.then = "unwind" THEN 0 ELSE 1
              \/ worker.pc = "switch" /\ worker'.pc = "idle" /\ UNCHANGED <<lingering, counted>>
<1> DEFINE p == worker.paste
<1>1. /\ worker \in Workers /\ counted \in [Pastes -> Nat]
      /\ worker.pc # "idle" => p \in Pastes
      /\ {"panic", "cancelled", "failed", "applied", "appliedNotRestored"} \subseteq Outcomes
      /\ worker.outcome \in Outcomes
    BY DEF Typed, Outcomes, Workers
<1>2. ASSUME NEW restored \in BOOLEAN, AfterRestore(restored)
      PROVE  /\ worker' \in Workers /\ SamePaste
             /\ \/ worker'.pc = "collapse"
                \/ worker'.pc = "switch" /\ worker.then # "abandon"
    <2>1. CASE worker.then = "abandon"
        BY <1>1, <1>2, <2>1, Abandons DEF AfterRestore
    <2>2. CASE worker.then # "abandon"
        <3>1. PICK outcome \in Outcomes : worker' = [worker EXCEPT !.pc = "switch", !.outcome = outcome]
            BY <1>1, <1>2, <2>2 DEF AfterRestore
        <3>2. worker' \in Workers /\ worker'.pc = "switch" /\ SamePaste
            BY <1>1, <3>1 DEF Workers, WorkerPcs, SamePaste
        <3> QED
            BY <2>2, <3>2
    <2> QED
        BY <2>1, <2>2
<1>3. CASE RestoreAnswered
    <2>1. /\ worker' \in Workers /\ SamePaste
          /\ \/ worker'.pc = "idle" /\ worker.then = "unwind" /\ worker'.outcome = "panic"
             \/ worker'.pc = "collapse"
             \/ worker'.pc = "switch" /\ worker.then \notin {"abandon", "unwind"}
        BY <1>1, <1>2, <1>3, Finishes DEF RestoreAnswered
    <2>2. counted' = [counted EXCEPT ![p] = counted[p] +
                         IF broker[p].response = "restored" \/ worker.then = "unwind" THEN 0 ELSE 1]
        BY <1>3 DEF RestoreAnswered, Current
    <2> DEFINE more == IF broker[p].response = "restored" \/ worker.then = "unwind" THEN 0 ELSE 1
    <2>3. p \in Pastes
        BY <1>1, <1>3 DEF RestoreAnswered
    <2>4. more \in Nat /\ counted[p] \in Nat /\ counted' = [counted EXCEPT ![p] = counted[p] + more]
        BY <1>1, <2>2, <2>3
    <2> HIDE DEF more
    <2>5. /\ counted' \in [Pastes -> Nat]
          /\ \A q \in Pastes \ {p} : counted'[q] = counted[q]
          /\ counted'[p] = counted[p] + more
        BY <1>1, <2>3, <2>4
    <2> QED
        BY <1>3, <2>1, <2>5 DEF RestoreAnswered, Answered, Current, more
<1>4. CASE RestoreLate
    <2>1. /\ worker' \in Workers /\ SamePaste
          /\ \/ worker'.pc = "idle" /\ worker.then = "unwind" /\ worker'.outcome = "panic"
             \/ worker'.pc = "collapse"
             \/ worker'.pc = "switch" /\ worker.then \notin {"abandon", "unwind"}
        BY <1>1, <1>2, <1>4, Finishes DEF RestoreLate
    <2> QED
        BY <1>4, <2>1 DEF RestoreLate, Current, ledger
<1>5. CASE SwitchLayout
    <2>1. PICK outcome \in Outcomes : Finish(outcome)
        BY <1>1, <1>5 DEF SwitchLayout
    <2> QED
        BY <1>1, <1>5, <2>1, Finishes DEF SwitchLayout, ledger
<1> QED
    BY <1>3, <1>4, <1>5

LEMMA WorldTyped ==
    ASSUME Typed, World
    PROVE  Typed'
<1>1. /\ clip \in Clips /\ clip.item \in Items
      /\ got \in [Pastes -> Items \cup {NotYet}] /\ pending \subseteq Pastes
      /\ field \in Fields /\ newest \in 0..MaxCopies /\ worker \in Workers
    BY DEF Typed, Clips
<1>2. ASSUME NEW p \in Pastes, NEW who, Render(p, who)
      PROVE  Alone(p) /\ clip' \in Clips
    <2>1. CountsAsRead(p, who) \in BOOLEAN
        BY DEF CountsAsRead
    <2> QED
        BY <1>1, <1>2, <2>1, Noted DEF Render, Clips, Typed
<1>3. CASE TargetPastes
    <2>1. PICK p \in pending :
              /\ pending' = pending \ {p}
              /\ got' = [got EXCEPT ![p] = clip.item]
              /\ IF Unrendered
                 THEN /\ \E who \in {"target", "windowless"} : Render(clip.item.n, who)
                      /\ otherRead' = IF clip.item.n = p THEN otherRead
                                      ELSE otherRead \cup {clip.item.n}
                 ELSE UNCHANGED <<clip, broker, otherRead>>
              /\ field' \in {"clear", field}
              /\ UNCHANGED <<newest, worker, lingering, ledger>>
        BY <1>3 DEF TargetPastes
    <2>2. got' \in [Pastes -> Items \cup {NotYet}] /\ pending' \subseteq Pastes /\ field' \in Fields
        BY <1>1, <2>1 DEF Fields
    <2>3. CASE Unrendered
        <3>1. clip.item.n \in Pastes
            BY <1>1, <2>3, ItemKinds DEF Unrendered
        <3> QED
            BY <1>2, <2>1, <2>2, <2>3, <3>1 DEF Typed, Alone, ledger
    <2>4. CASE ~Unrendered
        BY <2>1, <2>2, <2>4 DEF Typed, ledger
    <2> QED
        BY <2>3, <2>4
<1>4. CASE OtherReads
    <2>1. clip.item.n \in Pastes
        BY <1>1, <1>4, ItemKinds DEF OtherReads, Unrendered
    <2> QED
        BY <1>2, <1>4, <2>1 DEF OtherReads, Typed, Alone, ledger
<1>5. CASE Copy
    <2>1. newest' \in 0..MaxCopies
        BY <1>1, <1>5, PasteAssumption DEF Copy
    <2>2. Copied(newest') \in Items /\ NoPaste \in 0..MaxPastes
        BY <2>1, ItemFacts, PasteAssumption DEF NoPaste
    <2>3. clip' \in Clips
        BY <1>1, <1>5, <2>2 DEF Copy, Clips
    <2> QED
        BY <1>5, <2>1, <2>3 DEF Copy, Typed, target, ledger
<1>6. CASE UserActs
    <2>1. worker' \in Workers /\ worker'.pc = worker.pc /\ worker'.paste = worker.paste
        BY <1>1, <1>6 DEF UserActs, Workers
    <2> QED
        BY <1>6, <2>1 DEF UserActs, Typed, clipboard, target, ledger
<1>7. CASE FieldShows
    BY <1>7 DEF FieldShows, Typed, Fields, clipboard, ledger
<1> QED
    BY <1>3, <1>4, <1>5, <1>6, <1>7 DEF World

LEMMA InitTyped == Init => Typed
<1> SUFFICES ASSUME Init PROVE Typed
    OBVIOUS
<1>1. /\ Copied(0) \in Items /\ NoPaste \in 0..MaxPastes /\ 0 \in 0..MaxCopies
      /\ BrokerIdle \in Brokers /\ WorkerIdle \in Workers /\ WorkerIdle.pc = "idle"
    BY ItemFacts, IdleTyped, PasteAssumption DEF NoPaste, WorkerIdle
<1> QED
    BY <1>1 DEF Init, Typed, Clips, Fields

LEMMA StepTyped == Typed /\ [Next]_vars => Typed'
<1> SUFFICES ASSUME Typed, [Next]_vars PROVE Typed'
    OBVIOUS
<1>1. CASE UNCHANGED vars
    BY <1>1 DEF vars, Typed
<1>2. CASE \E p \in Pastes : Broker(p)
    BY <1>2, BrokerTyped
<1>3. CASE World
    BY <1>3, WorldTyped
<1>4. CASE NextEvent \/ StartPaste
    BY <1>4, StartingStep DEF Typed, Reaps, Fields, clipboard
<1>5. CASE EndSelection \/ SelectRead \/ SelectCall \/ FailedCall \/ Confirmed \/ NotConfirmed
    <2>1. worker.pc # "idle"
        BY <1>5, SelectingStep DEF Selecting
    <2> QED
        BY <1>5, <2>1, SelectingStep DEF Typed, SamePaste, clipboard, ledger
<1>6. CASE Begin
    <2>1. "start" \in BrokerPcs /\ worker.paste \in Pastes /\ broker \in [Pastes -> Brokers]
        BY <1>6 DEF Begin, Typed, BrokerPcs
    <2>2. broker' \in [Pastes -> Brokers]
        BY <1>6, <2>1, BeginningStep, Goes DEF Alone
    <2> QED
        BY <1>6, <2>1, <2>2, BeginningStep DEF Typed, SamePaste, clipboard, target, ledger
<1>7. CASE \/ Installed \/ NotInstalled \/ Cancel \/ Submit \/ NotCommitted \/ Committed
           \/ Unwind
    <2>1. worker.pc \in Holding
        BY <1>7 DEF Installed, NotInstalled, Cancel, Submit, NotCommitted, Committed, Unwind, Holding
    <2>2. worker.paste \in Pastes
        BY <2>1 DEF Holding, Typed
    <2>3. /\ UNCHANGED <<clipboard, field, got, otherRead, counted>>
          /\ worker' \in Workers /\ worker'.paste = worker.paste
          /\ lingering' \in {lingering, lingering \cup {worker.paste}}
          /\ pending' \in {pending, pending \cup {worker.paste}}
          /\ panicked' \in {panicked, panicked \cup {worker.paste}}
          /\ broker' \in [Pastes -> Brokers]
        BY <1>7, <2>1, HoldingStep DEF GetsCommand, Alone, Typed
    <2> QED
        BY <2>2, <2>3 DEF Typed, clipboard
<1>8. CASE RestoreAnswered \/ RestoreLate \/ SwitchLayout
    <2>1. worker.paste \in Pastes
        BY <1>8 DEF Typed, RestoreAnswered, RestoreLate, SwitchLayout
    <2>2. /\ UNCHANGED <<clipboard, broker, target, panicked>>
          /\ worker' \in Workers /\ worker'.paste = worker.paste
          /\ lingering' \in {lingering, lingering \cup {worker.paste}}
          /\ counted' \in [Pastes -> Nat]
        BY <1>8, RestoringStep DEF SamePaste, Typed
    <2> QED
        BY <2>1, <2>2 DEF Typed, clipboard, target
<1> QED
    BY <1>1, <1>2, <1>3, <1>4, <1>5, <1>6, <1>7, <1>8 DEF Next, WorkerStep

-----------------------------------------------------------------------------
(* The selection. *)
SameWork ==
    /\ SamePaste /\ worker'.pc = worker.pc /\ worker'.then = worker.then
    /\ worker'.outcome = worker.outcome

LEMMA WorldWorks ==
    ASSUME Typed, World
    PROVE  SameWork /\ UNCHANGED <<lingering, counted, panicked>>
<1>1. CASE UserActs
    BY <1>1 DEF UserActs, Typed, Workers, SameWork, SamePaste, ledger
<1>2. CASE worker' = worker
    BY <1>2 DEF World, TargetPastes, OtherReads, Copy, UserActs, FieldShows, SameWork, SamePaste, ledger
<1> QED
    BY <1>1, <1>2 DEF World, TargetPastes, OtherReads, Copy, FieldShows

(* What the world does to the field and the pastes. *)
LEMMA WorldPastes ==
    ASSUME Typed, World
    PROVE  \/ /\ field' = field \/ (field = "late" /\ field' = IF worker.pc = "idle" THEN "stray"
                                                               ELSE "selected")
              /\ UNCHANGED <<pending, got>>
           \/ \E p \in pending :
                /\ pending' = pending \ {p}
                /\ got'[p] = clip.item /\ \A q \in Pastes \ {p} : got'[q] = got[q]
                /\ field' = IF field = "selected" /\ p = worker.paste /\ clip.item # Nothing
                            THEN "clear" ELSE field
<1>1. CASE TargetPastes
    BY <1>1 DEF TargetPastes, Typed, Current
<1>2. CASE ~TargetPastes
    BY <1>2 DEF World, OtherReads, Copy, UserActs, FieldShows, target
<1> QED
    BY <1>1, <1>2

LEMMA NotSubmittedStays ==
    ASSUME NEW p \in Pastes, SamePaste, NotSubmitted(p)',
           worker'.pc \in Selecting \cup {"install", "ready"}
              => worker.pc \in Selecting \cup {"install", "ready"}
    PROVE  NotSubmitted(p)
BY DEF SamePaste, NotSubmitted

(* A step of the worker that sends nothing and does not change the field. *)
LEMMA SelectionKept ==
    ASSUME SelectionInv, worker' \in Workers, SamePaste, UNCHANGED <<field, got, pending>>,
           worker'.pc \in Shown => worker.pc \in Shown,
           worker'.pc \in Selecting \cup {"install", "ready"}
              => worker.pc \in Selecting \cup {"install", "ready"},
           Committing' => Shows(worker.paste),
           worker'.pc # "sent",
           worker'.pc = "idle" /\ field = "selected" => worker'.outcome \in {"selectionLeft", "panic"}
    PROVE  SelectionInv'
<1>1. Shows(worker.paste)' <=> Shows(worker.paste)
    BY DEF Shows, SamePaste
<1>2. \A p \in Pastes : NotSubmitted(p)' => NotSubmitted(p)
    BY NotSubmittedStays
<1> QED
    BY <1>1, <1>2 DEF SelectionInv, SelectionAccounted, SamePaste, Shows

LEMMA SelectionStep ==
    ASSUME Typed, SelectionInv, [Next]_vars
    PROVE  SelectionInv'
<1>0. /\ worker \in Workers /\ worker' \in Workers
      /\ worker.pc # "idle" => worker.paste \in Pastes
    BY StepTyped DEF Typed
<1>1. CASE UNCHANGED vars \/ \E p \in Pastes : Broker(p)
    <2>1. UNCHANGED <<worker, field, got, pending>>
        BY <1>1, BrokerTyped DEF vars, target
    <2> QED
        BY <2>1 DEF SelectionInv, SelectionAccounted, NotSubmitted, Shows, Committing
<1>2. CASE World
    <2>1. SameWork
        BY <1>2, WorldWorks
    <2>2. \A p \in Pastes : NotSubmitted(p)' => NotSubmitted(p)
        BY <2>1, NotSubmittedStays DEF SameWork
    <2>3. CASE /\ field' = field \/ (field = "late" /\ field' = IF worker.pc = "idle" THEN "stray"
                                                                ELSE "selected")
               /\ UNCHANGED <<pending, got>>
        BY <2>1, <2>2, <2>3 DEF SameWork, SamePaste, SelectionInv, SelectionAccounted, Committing, Shows
    <2>4. CASE \E p \in pending :
                /\ pending' = pending \ {p}
                /\ got'[p] = clip.item /\ \A q \in Pastes \ {p} : got'[q] = got[q]
                /\ field' = IF field = "selected" /\ p = worker.paste /\ clip.item # Nothing
                            THEN "clear" ELSE field
        <3>1. PICK p \in pending :
                /\ pending' = pending \ {p}
                /\ got'[p] = clip.item /\ \A q \in Pastes \ {p} : got'[q] = got[q]
                /\ field' = IF field = "selected" /\ p = worker.paste /\ clip.item # Nothing
                            THEN "clear" ELSE field
            BY <2>4
        <3>2. /\ p \in Pastes /\ got[p] = NotYet /\ ~NotSubmitted(p)
              /\ ~Shows(p) /\ Text(p) # Nothing
            BY <3>1, ItemFacts DEF Typed, SelectionInv, Shows
        <3>4. \A q \in Pastes : Shows(q) => Shows(q)'
            BY <3>1, <3>2 DEF Shows
        <3>5. worker.pc \in Shown => worker.paste \in Pastes
            BY <1>0 DEF Shown, Holding
        <3>6. worker.pc \in Shown => field' \in {"selected", "clear"}
            BY <3>1 DEF SelectionInv
        <3>7. worker.pc \in Shown /\ Shows(worker.paste)' => field' = "clear"
            BY <2>1, <3>1, <3>2, <3>5 DEF SelectionInv, Shows, SameWork, SamePaste
        <3>8. Committing => Shows(worker.paste)'
            BY <2>1, <3>4, <3>5 DEF SelectionInv, Committing, Shown, Holding, Shows, SameWork, SamePaste
        <3>9. \A q \in Pastes : /\ NotSubmitted(q)' \/ q \in pending' => got'[q] = NotYet
                                /\ NotSubmitted(q)' => q \notin pending'
            BY <2>2, <3>1, <3>2 DEF SelectionInv
        <3> QED
            BY <2>1, <3>1, <3>6, <3>7, <3>8, <3>9
            DEF SameWork, SamePaste, SelectionInv, SelectionAccounted, Committing, Shows
    <2> QED
        BY <1>2, <2>3, <2>4, WorldPastes
<1>3. CASE NextEvent \/ StartPaste
    <2>1. CASE worker' = worker /\ field' = field
        BY <1>3, <2>1, StartingStep DEF SelectionInv, SelectionAccounted, NotSubmitted, Shows, Committing
    <2>2. CASE worker'.pc = "select" /\ worker'.paste = worker.paste + 1 /\ field' = "clear"
        <3>1. worker.paste \in Nat
            BY <1>0, PasteAssumption DEF Workers
        <3>2. \A p \in Pastes : NotSubmitted(p)' => NotSubmitted(p)
            BY <2>2, <3>1 DEF NotSubmitted, Pastes
        <3> QED
            BY <1>3, <2>2, <3>2, StartingStep
            DEF SelectionInv, SelectionAccounted, Committing, Shown, Holding
    <2> QED
        BY <1>3, <2>1, <2>2, StartingStep
<1>4. CASE EndSelection \/ SelectRead \/ SelectCall \/ FailedCall \/ Confirmed \/ NotConfirmed
    <2>1. /\ UNCHANGED <<pending, got>> /\ SamePaste
          /\ worker'.pc \in Selecting \cup {"idle"}
          /\ \/ worker.pc \in Selecting \ {"begin"}
             \/ worker.pc = "collapse" /\ worker'.pc = "idle"
          /\ worker'.pc = "begin" => field' = "selected"
          /\ worker'.pc = "idle" => field' # "selected" \/ worker'.outcome = "selectionLeft"
        BY <1>4, SelectingStep
    <2>2. \A p \in Pastes : NotSubmitted(p)' => NotSubmitted(p)
        BY <2>1, NotSubmittedStays DEF Selecting
    <2>3. worker'.pc = "begin" => ~Shows(worker.paste)'
        <3>1. worker'.pc = "begin" => worker.paste \in Pastes /\ NotSubmitted(worker.paste)
            BY <1>0, <2>1 DEF NotSubmitted, Selecting
        <3> QED
            BY <2>1, <3>1, ItemFacts DEF SelectionInv, Shows, SamePaste
    <2> QED
        BY <2>1, <2>2, <2>3
        DEF SelectionInv, SelectionAccounted, Committing, Shown, Holding, Selecting, SamePaste, Shows
<1>5. CASE Begin
    BY <1>0, <1>5, BeginningStep, SelectionKept DEF target, Shown, Holding, Selecting, Committing
<1>6. CASE \/ Installed \/ NotInstalled \/ Cancel \/ Submit \/ NotCommitted \/ Committed
           \/ Unwind
    <2>1. worker.pc \in Holding
        BY <1>6 DEF Installed, NotInstalled, Cancel, Submit, NotCommitted, Committed, Unwind, Holding
    <2> DEFINE p == worker.paste
    <2>2. p \in Pastes
        BY <1>0, <2>1 DEF Holding
    <2>3. CASE /\ worker.pc = "ready" /\ worker'.pc = "sent" /\ worker'.submitted
               /\ worker'.paste = p
               /\ pending' \in {pending \cup {p}, pending} /\ UNCHANGED <<field, got>>
        <3>1. \A q \in Pastes : NotSubmitted(q)' => NotSubmitted(q) /\ q # p
            BY <2>3, <1>0, PasteAssumption DEF NotSubmitted, Selecting, Pastes, Workers
        <3>2. NotSubmitted(p) /\ got[p] = NotYet
            BY <2>2, <2>3 DEF NotSubmitted, SelectionInv
        <3> QED
            BY <2>3, <3>1, <3>2 DEF SelectionInv, SelectionAccounted, Committing, Shown, Holding, Shows
    <2>4. CASE ~(worker.pc = "ready" /\ worker'.pc = "sent")
        <3>1. /\ UNCHANGED <<field, got, pending>>
              /\ worker'.paste = p
              /\ worker'.pc \in Shown => worker.pc \in Shown
              /\ worker'.pc \in Selecting \cup {"install", "ready"}
                   => worker.pc \in Selecting \cup {"install", "ready"}
              /\ Committing' => Shows(p)
              /\ worker'.pc # "sent"
              /\ worker'.pc = "idle" => worker'.outcome = "panic"
            BY <1>6, <2>1, <2>4, HoldingStep DEF Shown, Holding, Selecting, Committing
        <3>2. \A q \in Pastes : NotSubmitted(q)' => NotSubmitted(q)
            BY <3>1 DEF NotSubmitted
        <3> QED
            BY <3>1, <3>2 DEF SelectionInv, SelectionAccounted, Shows
    <2> QED
        BY <1>6, <2>1, <2>3, <2>4, HoldingStep
<1>7. CASE RestoreAnswered \/ RestoreLate \/ SwitchLayout
    <2>1. UNCHANGED <<field, got, pending>> /\ SamePaste
        BY <1>7, RestoringStep DEF target
    <2>2. /\ worker.pc \in {"restoring", "switch"} /\ worker'.pc \in {"idle", "collapse", "switch"}
          /\ worker'.pc = "switch" => worker.pc = "restoring" /\ worker.then \notin {"abandon", "unwind"}
          /\ worker.pc = "restoring" /\ worker'.pc = "idle" => worker'.outcome = "panic"
        BY <1>7, RestoringStep
    <2>3. Committing' => Shows(worker.paste)
        BY <2>2 DEF Committing, SelectionInv
    <2>4. worker.pc = "switch" => field = "clear"
        BY DEF SelectionInv, Committing, Shown
    <2> QED
        BY <1>0, <2>1, <2>2, <2>3, <2>4, SelectionKept DEF Shown, Holding, Selecting
<1> QED
    BY <1>1, <1>2, <1>3, <1>4, <1>5, <1>6, <1>7 DEF Next, WorkerStep

-----------------------------------------------------------------------------
(* The brokers.  A broker goes on, ends, or is over. *)
LEMMA BrokerMoves ==
    ASSUME Typed, NEW p \in Pastes, Broker(p)
    PROVE  LET b == broker[p]
               c == broker'[p]
           IN
           \/ /\ b.pc \in Working /\ c.pc \in Working /\ c.end = b.end
              /\ c.response = IF c.pc = "wait" THEN "installed" ELSE b.response
              /\ c.pc \in Delivered <=> b.pc \in Delivered \cup {"filled"}
              /\ b.pc = "filled" => c.pc = "wait"
              /\ b.pc \in {"reading", "restore"} => c.pc \in {"reading", "restore"}
              /\ \/ c.command = b.command /\ c.pc # "reading" /\ b.pc # "wait"
                 \/ c.command = "closed" /\ c.pc \in {"reading", "restore"} /\ b.command # "none"
           \/ /\ b.pc \in Working /\ c.pc = "closing" /\ c.end # "running"
              /\ b.pc = "wait" => b.command # "none"
              /\ \/ c.response = "failed" /\ b.pc \notin Delivered
                 \/ SaysEnd(c)
              /\ c.command = b.command
           \/ /\ b.pc = "closing" /\ c.pc = "over" /\ c.end = b.end
              /\ c.response = IF p \in lingering THEN "none" ELSE b.response
              /\ c.command = "none"
<1> DEFINE b == broker[p]
           c == broker'[p]
           On == /\ b.pc \in Working /\ c.pc \in Working /\ c.end = b.end
                 /\ c.response = IF c.pc = "wait" THEN "installed" ELSE b.response
                 /\ c.pc \in Delivered <=> b.pc \in Delivered \cup {"filled"}
                 /\ b.pc = "filled" => c.pc = "wait"
                 /\ b.pc \in {"reading", "restore"} => c.pc \in {"reading", "restore"}
                 /\ \/ c.command = b.command /\ c.pc # "reading" /\ b.pc # "wait"
                    \/ c.command = "closed" /\ c.pc \in {"reading", "restore"} /\ b.command # "none"
           End == /\ b.pc \in Working /\ c.pc = "closing" /\ c.end # "running"
                  /\ b.pc = "wait" => b.command # "none"
                  /\ \/ c.response = "failed" /\ b.pc \notin Delivered
                     \/ SaysEnd(c)
                  /\ c.command = b.command
<1> SUFFICES On \/ End \/ CloseWindow(p)
    BY WindowCloses DEF Typed
<1>1. broker \in [Pastes -> Brokers]
    BY DEF Typed
<1>2. CASE BrokerSetup(p)
    <2>1. b.pc = "start" /\ (BrokerGoes(p, "copy") \/ BrokerEnds(p, "untouched", "failed"))
        BY <1>2 DEF BrokerSetup
    <2>2. CASE BrokerGoes(p, "copy")
        BY <1>1, <2>1, <2>2, Goes DEF BrokerPcs, Working, Delivered, Answering, Serving
    <2>3. CASE BrokerEnds(p, "untouched", "failed")
        BY <1>1, <2>1, <2>3, EndsSo DEF BrokerPcs, Working, Delivered, Ends, Responses, Serving
    <2> QED
        BY <2>1, <2>2, <2>3
<1>3. CASE ReadBefore(p) \/ ReadSequence(p)
    BY <1>3, Reads DEF BrokerPcs, Working, Delivered, Serving
<1>4. CASE Snapshot(p) \/ Install(p)
    <2>1. b.pc \in {"snapshot", "install"}
        BY <1>4 DEF Snapshot, Install
    <2>2. ASSUME NEW transient \in BOOLEAN, RefusedFor(p, transient) PROVE On \/ End
        BY <1>1, <2>1, <2>2, Refused DEF BrokerPcs, Working, Delivered, Answering, Serving
    <2>3. CASE broker' = [broker EXCEPT ![p] = [@ EXCEPT !.pc = "install", !.saved = clip.item]]
        BY <1>4, <2>1, <2>3, Snapshots DEF BrokerPcs, Working, Delivered, Answering, Serving
    <2>4. CASE broker' = [broker EXCEPT ![p] = [@ EXCEPT !.pc = "fill", !.before = 0, !.attempts = 1,
                                                         !.renders = TRUE]]
        BY <1>4, <2>1, <2>4, Installs DEF BrokerPcs, Working, Delivered, Answering, Serving
    <2> QED
        BY <1>4, <2>2, <2>3, <2>4 DEF Snapshot, Install
<1>5. CASE Fill(p)
    <2>1. PICK pc \in {"filled", "emptied"} : BrokerGoes(p, pc) /\ b.pc = "fill"
        BY <1>5 DEF Fill
    <2> QED
        BY <1>1, <2>1, Goes DEF BrokerPcs, Working, Delivered, Answering, Serving
<1>6. CASE Undo(p) \/ Restore(p)
    <2>1. b.pc \in {"undo", "restore"}
        BY <1>6 DEF Undo, Restore
    <2>2. PICK end \in {"restored", "notRestored"} :
              BrokerEnds(p, end, Answer(p, end)) \/ Closes(p, end)
        BY <1>6 DEF Undo, Restore, PutBack
    <2>3. /\ Answer(p, end) \in Responses /\ end \in Ends
          /\ Answer(p, end) = IF b.pc = "undo" THEN "failed" ELSE end
        BY DEF Answer, Responses, Ends
    <2>4. c.pc = "closing" /\ c.end = end /\ c.response = Answer(p, end) /\ c.command = b.command
        BY <1>1, <2>2, <2>3, EndsSo, ClosesSo DEF Serving
    <2> QED
        BY <2>1, <2>3, <2>4 DEF SaysEnd, BrokerPcs, Working, Delivered
<1>7. CASE TakeCommand(p) \/ AwaitReader(p)
    <2>1. b.pc \in {"wait", "reading"}
        BY <1>7 DEF TakeCommand, AwaitReader
    <2>2. CASE BrokerEnds(p, "kept", "kept") /\ b.command # "none"
        BY <1>1, <2>1, <2>2, EndsSo DEF SaysEnd, BrokerPcs, Working, Delivered, Ends, Responses, Serving
    <2>3. CASE /\ \/ BrokerEnds(p, "unread", "notRestored")
                  \/ BrokerEnds(p, "notRestored", "notRestored")
               /\ b.pc = "reading"
        BY <1>1, <2>1, <2>3, EndsSo DEF SaysEnd, BrokerPcs, Working, Delivered, Ends, Responses, Serving
    <2>4. CASE BrokerGoes(p, "restore") /\ b.pc = "reading"
        BY <1>1, <2>1, <2>4, Goes DEF BrokerPcs, Working, Delivered, Answering, Serving
    <2>5. CASE /\ b.command \in {"restore", "defer"}
               /\ \E pc \in {"restore", "reading"} :
                     broker' = [broker EXCEPT ![p] = [@ EXCEPT !.pc = pc, !.command = "closed"]]
        BY <1>1, <2>1, <2>5, Takes DEF BrokerPcs, Working, Delivered, Answering
    <2> QED
        BY <1>7, <2>2, <2>3, <2>4, <2>5 DEF TakeCommand, AwaitReader
<1> QED
    BY <1>2, <1>3, <1>4, <1>5, <1>6, <1>7 DEF Broker

(* What the invariant says of one broker, for the steps that leave it alone *)
(* and those that change what it is told.                                   *)
SameJob(p) ==
    /\ broker'[p].pc = broker[p].pc /\ Answering(broker'[p]) = Answering(broker[p])
    /\ broker'[p].command = broker[p].command

LEMMA WorldBrokers ==
    ASSUME Typed, World
    PROVE  \A p \in Pastes :
              /\ SameJob(p) /\ broker'[p].saved = broker[p].saved
              /\ broker'[p].before = broker[p].before /\ broker'[p].seq = broker[p].seq
<1>1. ASSUME NEW p \in Pastes, NEW who, Render(p, who)
      PROVE  \A q \in Pastes :
                /\ SameJob(q) /\ broker'[q].saved = broker[q].saved
                /\ broker'[q].before = broker[q].before /\ broker'[q].seq = broker[q].seq
    <2>1. CountsAsRead(p, who) \in BOOLEAN /\ broker \in [Pastes -> Brokers]
        BY DEF CountsAsRead, Typed
    <2> QED
        BY <1>1, <2>1, Noted DEF Render, Alone, SameJob
<1>2. Unrendered => clip.item.n \in Pastes
    BY ItemKinds DEF Unrendered, Typed, Clips
<1>3. CASE broker' = broker
    BY <1>3 DEF SameJob
<1>4. CASE broker' # broker
    BY <1>1, <1>2, <1>4 DEF World, TargetPastes, OtherReads, Copy, UserActs, FieldShows
<1> QED
    BY <1>3, <1>4

LEMMA BrokerInvInBroker ==
    ASSUME Typed, BrokerInv, NEW p \in Pastes, Broker(p)
    PROVE  BrokerInv'
<1> DEFINE b == broker[p]
           c == broker'[p]
<1>1. /\ UNCHANGED <<worker, lingering, counted, panicked>>
      /\ \A q \in Pastes \ {p} : broker'[q] = broker[q]
    BY BrokerTyped, BrokerAlone DEF ledger, Alone
<1>2. /\ b.pc \in Working \cup {"closing"} /\ c.pc \in BrokerPcs \ {"none"}
      /\ Active(p) /\ ~Over(p) /\ (Over(p)' <=> c.pc = "over")
      /\ b.pc # "none" /\ c.pc # "none"
    BY BrokerMoves DEF Active, Over, Working, BrokerPcs
<1>3. \A q \in Pastes : Owned(q)' = Owned(q) /\ Unstarted(q)' = Unstarted(q)
    BY <1>1 DEF Owned, Unstarted
<1>4. OneActive'
    BY <1>1, <1>2, <1>3 DEF BrokerInv, OneActive, Active
<1>5. Responsible'
    BY <1>1, <1>2, <1>3 DEF BrokerInv, Responsible
<1>6. ASSUME NEW q \in Pastes \ {p} PROVE (Answers(broker[q]) /\ Told(q) /\ CountedWell(q))'
    BY <1>1, <1>3 DEF BrokerInv, Answers, SaysEnd, Ended, Told, CountedWell, Over
<1>7. Answers(broker[p])'
    BY <1>2, BrokerMoves DEF BrokerInv, Answers, SaysEnd, Ended, Working, Delivered
<1>8. Told(p)'
    <2>1. Told(p) /\ Answers(b) /\ (Owned(p) => p \notin lingering) /\ ~Unstarted(p)
        BY <1>2 DEF BrokerInv, Responsible
    <2>2. b.response \notin {"none", "failed"} /\ b.pc \in Working => b.pc \in Delivered
        BY <2>1 DEF Answers, Working, Ended
    <2>3. worker.pc \in Holding \ {"install"} /\ p = worker.paste => c.response \notin {"none", "failed"}
        <3>1. c \in Brokers /\ "none" \notin Ends /\ "failed" \notin Ends
            BY BrokerTyped DEF Typed, Ends
        <3> QED
            BY <2>1, <2>2, <3>1, BrokerMoves DEF Told, Owned, SaysEnd, Brokers
    <2>4. worker.pc \in Holding \ {"restoring"} /\ p = worker.paste => c.command = "none"
        BY <2>1, BrokerMoves DEF Told
    <2>5. /\ c.command = "closed" => c.pc \in {"reading", "restore", "closing"}
          /\ c.pc \in {"reading", "restore"} => c.command = "closed"
          /\ c.command \in {"abandon", "defer"} => c.pc \in Delivered \cup {"closing", "over"}
        BY <2>1, BrokerMoves DEF Told, Working, Delivered
    <2>6. ~(worker.pc \in {"ready", "sent"} /\ p = worker.paste)
        BY <2>1, BrokerMoves DEF Told, Holding
    <2> QED
        BY <1>1, <1>3, <2>1, <2>3, <2>4, <2>5, <2>6 DEF Told
<1>9. CountedWell(p)'
    BY <1>1, <1>2 DEF BrokerInv, CountedWell
<1> QED
    BY <1>1, <1>4, <1>5, <1>6, <1>7, <1>8, <1>9 DEF BrokerInv

(* A step that leaves every broker's work and the worker's hold as they are. *)
LEMMA BrokerInvKept ==
    ASSUME BrokerInv, UNCHANGED <<lingering, counted>>, SamePaste,
           \A p \in Pastes : SameJob(p),
           \/ worker'.pc = worker.pc
           \/ /\ worker.pc \notin Holding /\ worker'.pc \notin Holding
              /\ worker'.pc \in Selecting => worker.pc \in Selecting,
           worker'.pc = "restoring" /\ worker'.then = "unwind" =>
              worker.pc = "restoring" /\ worker.then = "unwind" /\ panicked' = panicked
    PROVE  BrokerInv'
<1>1. ASSUME NEW p \in Pastes
      PROVE  /\ Active(p)' = Active(p) /\ Over(p)' = Over(p) /\ Owned(p)' = Owned(p)
             /\ Unstarted(p)' => Unstarted(p)
             /\ (broker[p].pc)' = broker[p].pc /\ (broker[p].end)' = broker[p].end
             /\ (broker[p].response)' = broker[p].response
             /\ (broker[p].command)' = broker[p].command
    BY DEF SameJob, Answering, SamePaste, Active, Over, Owned, Unstarted
<1>2. OneActive'
    BY <1>1 DEF BrokerInv, OneActive
<1>3. Responsible'
    BY <1>1 DEF BrokerInv, Responsible, SamePaste
<1>4. ASSUME NEW p \in Pastes PROVE (Answers(broker[p]) /\ Told(p) /\ CountedWell(p))'
    <2>1. (worker.pc \in Holding)' => worker'.pc = worker.pc
        OBVIOUS
    <2>2. worker'.pc \in {"ready", "sent"} => worker'.pc = worker.pc
        BY DEF Holding
    <2>3. Told(p)'
        BY <1>1, <2>1, <2>2 DEF BrokerInv, Told, SamePaste
    <2> QED
        BY <1>1, <2>3 DEF BrokerInv, Answers, SaysEnd, Ended, CountedWell
<1> QED
    BY <1>2, <1>3, <1>4 DEF BrokerInv, SamePaste

LEMMA BrokerInvStarting ==
    ASSUME Typed, BrokerInv, NextEvent \/ StartPaste
    PROVE  BrokerInv'
<1>1. /\ worker.pc = "idle" /\ Reaps /\ UNCHANGED <<broker, panicked>>
      /\ \/ worker' = worker
         \/ worker'.pc = "select" /\ worker'.paste = worker.paste + 1
      /\ worker.paste \in Nat /\ \A p \in Pastes : p \in Nat /\ counted[p] \in Nat
    BY StartingStep, PasteAssumption DEF Typed, Workers, Pastes
<1>2. ASSUME NEW p \in Pastes
      PROVE  /\ Active(p)' = Active(p) /\ Over(p)' = Over(p) /\ ~Owned(p) /\ ~Owned(p)'
             /\ Unstarted(p)' => Unstarted(p)
             /\ p \in lingering' <=> p \in lingering /\ ~Over(p)
             /\ p <= worker.paste => p <= worker'.paste
    BY <1>1 DEF Active, Over, Owned, Unstarted, Holding, Selecting, Reaps
<1>3. OneActive'
    BY <1>1, <1>2 DEF BrokerInv, OneActive, Active, Over
<1>4. Responsible'
    BY <1>1, <1>2 DEF BrokerInv, Responsible
<1>5. ASSUME NEW p \in Pastes PROVE (Answers(broker[p]) /\ Told(p))'
    BY <1>1, <1>2 DEF BrokerInv, Answers, SaysEnd, Ended, Told, Holding
<1>6. ASSUME NEW p \in Pastes PROVE CountedWell(p)'
    <2>1. CASE p \in lingering /\ Over(p) /\ Lost(p)
        BY <1>1, <1>2, <2>1 DEF BrokerInv, CountedWell, Reaps, Lost
    <2>2. CASE ~(p \in lingering /\ Over(p) /\ Lost(p))
        BY <1>1, <1>2, <2>2 DEF BrokerInv, CountedWell, Reaps
    <2> QED
        BY <2>1, <2>2
<1> QED
    BY <1>1, <1>3, <1>4, <1>5, <1>6 DEF BrokerInv

LEMMA BrokerInvBeginning ==
    ASSUME Typed, BrokerInv, Begin
    PROVE  BrokerInv'
<1>0. PICK p \in Pastes : p = worker.paste
    BY BeginningStep DEF Typed
<1>1. /\ UNCHANGED <<lingering, counted, panicked>> /\ worker.pc = "begin" /\ SamePaste
      /\ p \in Pastes /\ broker \in [Pastes -> Brokers] /\ "start" \in BrokerPcs
      /\ \A q \in Pastes : q \in Nat
    BY <1>0, BeginningStep DEF ledger, Typed, Pastes, BrokerPcs
<1>2. CASE worker'.pc = "collapse" /\ broker' = broker
    BY <1>1, <1>2, BrokerInvKept DEF SameJob, Holding, Selecting
<1>3. CASE worker'.pc = "install" /\ ~Busy /\ BrokerGoes(p, "start")
    <2>1. /\ Alone(p) /\ broker'[p].pc = "start" /\ Answering(broker'[p]) = Answering(broker[p])
          /\ broker'[p].command = broker[p].command
        BY <1>1, <1>3, Goes DEF Serving
    <2>2. /\ Unstarted(p) /\ broker[p].pc = "none" /\ broker[p].command = "none"
          /\ \A q \in Pastes : q > p => Unstarted(q) /\ broker[q].pc = "none"
        BY <1>0, <1>1 DEF Unstarted, Selecting, BrokerInv, Responsible, Told
    <2>3. \A q \in Pastes : ~Active(q)
        BY <1>1, <1>3 DEF BrokerInv, OneActive, Active, Busy, Over, Owned, Holding
    <2>4. \A q \in Pastes : /\ ~Owned(q) /\ (Owned(q)' <=> q = p)
                            /\ Unstarted(q)' <=> q > p
        BY <1>0, <1>1, <1>3 DEF Owned, Unstarted, Holding, Selecting, SamePaste
    <2>5. OneActive'
        BY <1>1, <2>1, <2>2, <2>3, <2>4 DEF OneActive, Active, Alone
    <2>6. Responsible'
        BY <1>0, <1>1, <2>1, <2>2, <2>4 DEF BrokerInv, Responsible, Alone, SamePaste
    <2>7. ASSUME NEW q \in Pastes PROVE (Answers(broker[q]) /\ Told(q) /\ CountedWell(q))'
        <3>1. CASE q = p
            <4>1. Answers(broker[p])'
                BY <1>1, <2>1, <2>2 DEF BrokerInv, Answers, SaysEnd, Ended, Delivered, Answering
            <4>2. Told(p)'
                BY <1>0, <1>1, <1>3, <2>1, <2>2, <2>4 DEF Told, SamePaste
            <4>3. counted[p] = 0
                BY <1>1, <2>2 DEF BrokerInv, CountedWell, Over
            <4> QED
                BY <1>1, <3>1, <4>1, <4>2, <4>3 DEF CountedWell
        <3>2. CASE q # p
            <4>1. broker'[q] = broker[q] /\ Answers(broker[q]) /\ Told(q) /\ CountedWell(q)
                BY <2>1, <3>2 DEF Alone, BrokerInv
            <4>2. Told(q)'
                BY <1>0, <1>1, <2>2, <2>4, <3>2, <4>1 DEF Told, SamePaste
            <4> QED
                BY <1>1, <2>4, <3>2, <4>1, <4>2 DEF Answers, SaysEnd, Ended, CountedWell, Over
        <3> QED
            BY <3>1, <3>2
    <2> QED
        BY <1>3, <2>5, <2>6, <2>7 DEF BrokerInv
<1> QED
    BY <1>0, <1>2, <1>3, BeginningStep

LEMMA BrokerInvHolding ==
    ASSUME Typed, BrokerInv, worker.pc \in Holding,
           \/ Installed \/ NotInstalled \/ Cancel \/ Submit \/ NotCommitted \/ Committed \/ Unwind
    PROVE  BrokerInv'
<1>0. PICK p \in Pastes : p = worker.paste
    BY DEF Typed, Holding
<1>1. /\ UNCHANGED counted /\ worker'.paste = p
      /\ \A q \in Pastes : q \in Nat
      /\ \/ broker' = broker \/ GetsCommand(p, "restore")
         \/ /\ worker.pc \in {"ready", "sent"}
            /\ GetsCommand(p, "defer") \/ GetsCommand(p, "abandon")
      /\ \/ /\ worker.pc = "install" /\ worker'.pc = "ready" /\ broker[p].response = "installed"
            /\ lingering' = lingering /\ broker' = broker
         \/ worker.pc = "ready" /\ worker'.pc = "sent" /\ lingering' = lingering /\ broker' = broker
         \/ worker.pc \in {"ready", "sent"} /\ worker'.pc = "restoring" /\ lingering' = lingering
         \/ worker'.pc \in {"collapse", "idle"} /\ lingering' = lingering \cup {p}
      /\ worker'.pc = "restoring" /\ worker'.then = "unwind" => p \in panicked'
      /\ worker.pc # "restoring"
    BY <1>0, HoldingStep DEF Pastes
<1>2. ASSUME NEW q \in Pastes
      PROVE  /\ (broker[q].pc)' = broker[q].pc /\ (broker[q].end)' = broker[q].end
             /\ (broker[q].response)' = broker[q].response
             /\ Active(q)' = Active(q) /\ Over(q)' = Over(q)
             /\ q # p => broker'[q] = broker[q] /\ ~Owned(q) /\ ~Owned(q)'
    BY <1>0, <1>1 DEF GetsCommand, Alone, Answering, Active, Over, Owned
<1>3. /\ Owned(p) /\ p \notin lingering
      /\ \/ Owned(p)' /\ lingering' = lingering
         \/ ~Owned(p)' /\ lingering' = lingering \cup {p}
    BY <1>0, <1>1 DEF Owned, Holding, BrokerInv, Responsible
<1>4. \A q \in Pastes : Unstarted(q)' => Unstarted(q) /\ q # p
    BY <1>0, <1>1 DEF Unstarted, Selecting
<1>5. OneActive'
    BY <1>2, <1>3 DEF BrokerInv, OneActive
<1>6. Responsible'
    BY <1>0, <1>1, <1>2, <1>3, <1>4 DEF BrokerInv, Responsible
<1>7. ASSUME NEW q \in Pastes PROVE (Answers(broker[q]) /\ CountedWell(q))'
    BY <1>1, <1>2, <1>3 DEF BrokerInv, Answers, SaysEnd, Ended, CountedWell
<1>8. ASSUME NEW q \in Pastes PROVE Told(q)'
    <2>1. CASE q = p
        <3>1. /\ worker.pc \in Holding \ {"install"} => broker[p].response \notin {"none", "failed"}
              /\ broker[p].command = "none"
              /\ broker[p].pc \notin {"reading", "restore"}
              /\ worker.pc \in {"ready", "sent"} => broker[p].pc = "wait"
            BY <1>0, <1>1 DEF BrokerInv, Told, Holding
        <3>2. worker'.pc \in Holding \ {"install"} => broker'[p].response \notin {"none", "failed"}
            BY <1>1, <1>2, <3>1 DEF Holding
        <3>3. worker'.pc \in Holding \ {"restoring"} => broker'[p].command = "none"
            BY <1>1, <3>1 DEF Holding
        <3>4. broker'[p].command # "closed"
            BY <1>1, <3>1 DEF GetsCommand
        <3>5. broker'[p].command \in {"abandon", "defer"} => broker'[p].pc = "wait"
            BY <1>1, <1>2, <3>1 DEF GetsCommand
        <3>6. worker'.pc \in {"ready", "sent"} => broker'[p].pc = "wait"
            <4>1. /\ broker[p].response = "installed" => broker[p].pc \in Delivered
                  /\ broker[p].pc \in Delivered => broker[p].pc = "wait"
                BY <3>1 DEF BrokerInv, Answers, SaysEnd, Ended, Delivered, Typed, Brokers, Ends
            <4> QED
                BY <1>1, <1>2, <3>1, <4>1
        <3> QED
            BY <1>1, <1>2, <1>4, <2>1, <3>1, <3>2, <3>3, <3>4, <3>5, <3>6 DEF Told, Delivered
    <2>2. CASE q # p
        BY <1>0, <1>1, <1>2, <1>4, <2>2 DEF BrokerInv, Told
    <2> QED
        BY <2>1, <2>2
<1> QED
    BY <1>1, <1>5, <1>6, <1>7, <1>8 DEF BrokerInv

LEMMA BrokerInvRestoring ==
    ASSUME Typed, BrokerInv, RestoreAnswered \/ RestoreLate \/ SwitchLayout
    PROVE  BrokerInv'
<1>0. PICK p \in Pastes : p = worker.paste
    BY DEF Typed, RestoreAnswered, RestoreLate, SwitchLayout
<1>1. /\ UNCHANGED <<broker, panicked>> /\ SamePaste /\ \A q \in Pastes : q \in Nat
    BY RestoringStep DEF Pastes
<1>2. CASE worker.pc = "switch" /\ worker'.pc = "idle" /\ UNCHANGED <<lingering, counted>>
    BY <1>1, <1>2, BrokerInvKept DEF SameJob, Holding, Selecting
<1>3. CASE worker.pc = "restoring" /\ worker'.pc \in {"idle", "collapse", "switch"}
    <2>1. /\ Owned(p) /\ p \notin lingering /\ counted[p] = 0
          /\ \A q \in Pastes : ~Owned(q)' /\ (q # p => ~Owned(q))
          /\ \A q \in Pastes : Unstarted(q)' => Unstarted(q)
        BY <1>0, <1>1, <1>3 DEF Owned, Unstarted, Holding, Selecting, SamePaste, BrokerInv, Responsible,
           CountedWell
    <2>2. lingering' = lingering \cup {p} \/ (Over(p) /\ lingering' = lingering)
        BY <1>0, <1>3, RestoringStep
    <2>3. OneActive'
        BY <1>1, <2>1, <2>2 DEF BrokerInv, OneActive, Active, Over
    <2>4. Responsible'
        BY <1>0, <1>1, <2>1, <2>2 DEF BrokerInv, Responsible, SamePaste
    <2>5. ASSUME NEW q \in Pastes PROVE (Answers(broker[q]) /\ Told(q))'
        BY <1>1, <1>3, <2>1 DEF BrokerInv, Answers, SaysEnd, Ended, Told, Holding
    <2>6. ASSUME NEW q \in Pastes PROVE CountedWell(q)'
        <3>1. CASE q # p
            <4>1. counted'[q] = counted[q] /\ (q \in lingering' <=> q \in lingering)
                BY <1>0, <1>3, <3>1, RestoringStep
            <4> QED
                BY <1>1, <2>1, <3>1, <4>1 DEF BrokerInv, CountedWell, Over
        <3>2. CASE q = p /\ counted' = counted
            BY <2>1, <3>2 DEF CountedWell
        <3>3. CASE q = p /\ counted' # counted
            <4>1. /\ Over(p) /\ lingering' = lingering
                  /\ broker[p].response \notin {"none", "installed"}
                  /\ counted'[p] = 0 \/ (counted'[p] = 1 /\ broker[p].response # "restored")
                BY <1>0, <1>3, <2>1, <3>3, RestoringStep
            <4>2. broker[p].response # "failed" /\ Answers(broker[p]) /\ broker[p] \in Brokers
                BY <1>0, <1>3 DEF BrokerInv, Told, Holding, Typed
            <4>3. broker[p].end \in Ends /\ broker[p].end # "running" /\ SaysEnd(broker[p])
                BY <4>1, <4>2 DEF Answers, Ended, Over, Brokers
            <4>4. broker[p].end # "untouched"
                BY <4>2, <4>3 DEF SaysEnd, Brokers, Responses
            <4> QED
                BY <1>1, <2>1, <3>3, <4>1, <4>3, <4>4 DEF CountedWell, Over, Ends, SaysEnd
        <3> QED
            BY <3>1, <3>2, <3>3
    <2> QED
        BY <1>1, <1>3, <2>3, <2>4, <2>5, <2>6 DEF BrokerInv
<1> QED
    BY <1>2, <1>3, RestoringStep

LEMMA BrokerInvStep ==
    ASSUME Typed, BrokerInv, [Next]_vars
    PROVE  BrokerInv'
<1>1. CASE UNCHANGED vars
    BY <1>1 DEF vars, BrokerInv, OneActive, Responsible, Active, Owned, Unstarted, Answers, SaysEnd,
       Ended, Told, CountedWell, Over
<1>2. CASE World
    BY <1>2, WorldWorks, WorldBrokers, BrokerInvKept DEF SameWork
<1>3. CASE EndSelection \/ SelectRead \/ SelectCall \/ FailedCall \/ Confirmed \/ NotConfirmed
    <2>1. worker.pc \notin Holding /\ worker'.pc \notin Holding
        BY <1>3, SelectingStep DEF Selecting, Holding
    <2> QED
        BY <1>3, <2>1, SelectingStep, BrokerInvKept DEF SameJob, ledger, Selecting, Holding
<1>4. CASE \/ Installed \/ NotInstalled \/ Cancel \/ Submit \/ NotCommitted \/ Committed \/ Unwind
    <2>1. worker.pc \in Holding
        BY <1>4 DEF Installed, NotInstalled, Cancel, Submit, NotCommitted, Committed, Unwind, Holding
    <2> QED
        BY <1>4, <2>1, BrokerInvHolding
<1> QED
    BY <1>1, <1>2, <1>3, <1>4, BrokerInvInBroker, BrokerInvStarting, BrokerInvBeginning,
       BrokerInvRestoring DEF Next, WorkerStep

-----------------------------------------------------------------------------
(* The items.  A broker that does not change the clipboard goes on, or ends *)
(* with what it leaves there.                                               *)
QuietMove(p) ==
    LET b == broker[p]
        c == broker'[p]
    IN  /\ clip' = clip /\ c.saved = b.saved /\ c.noted = b.noted
        /\ c.command \in {b.command, "closed"}
        /\ \/ b.pc \in {"start", "snapshot", "install"} /\ c.pc = "copy"
           \/ b.pc = "copy" /\ c.pc = "snapshot" /\ c.before = clip.seq
           \/ b.pc = "fill" /\ c.pc = "emptied"
           \/ b.pc = "filled" /\ c.pc = "wait" /\ c.seq = clip.seq
           \/ b.pc = "emptied" /\ c.pc = "undo" /\ c.seq = clip.seq
           \/ /\ b.pc = "wait" /\ c.pc \in {"restore", "reading"} /\ c.seq = b.seq
              /\ c.pc = "restore" => b.command = "restore"
           \/ /\ b.pc = "reading" /\ c.pc \in {"restore", "reading"} /\ c.seq = b.seq
              /\ b.noted \/ b.command # "closed"
           \/ c.pc = "closing" /\ c.end = "untouched" /\ b.pc \in {"start", "snapshot", "install"}
           \/ /\ c.pc = "closing" /\ c.end = "kept" /\ b.pc \in {"wait", "reading"}
              /\ b.command = "abandon" \/ (b.command = "closed" /\ b.pc = "wait")
           \/ /\ c.pc = "closing" /\ c.end \in {"notRestored", "unread"}
              /\ b.pc \in {"undo", "restore", "reading"}

LEMMA QuietMoves ==
    ASSUME Typed, NEW p \in Pastes, clip' = clip,
           \/ BrokerSetup(p) \/ ReadBefore(p) \/ ReadSequence(p) \/ TakeCommand(p) \/ AwaitReader(p)
           \/ (Snapshot(p) \/ Install(p)) /\ \E transient \in BOOLEAN : RefusedFor(p, transient)
           \/ Fill(p) /\ BrokerGoes(p, "emptied")
           \/ /\ Undo(p) \/ Restore(p)
              /\ \/ BrokerEnds(p, "notRestored", Answer(p, "notRestored"))
                 \/ Closes(p, "notRestored")
    PROVE  QuietMove(p)
<1> DEFINE b == broker[p]
           c == broker'[p]
<1>1. broker \in [Pastes -> Brokers] /\ clip \in Clips
    BY DEF Typed
<1>2. CASE BrokerSetup(p)
    <2>1. b.pc = "start" /\ (BrokerGoes(p, "copy") \/ BrokerEnds(p, "untouched", "failed"))
        BY <1>2 DEF BrokerSetup
    <2>2. "copy" \in BrokerPcs /\ "untouched" \in Ends /\ "failed" \in Responses
        BY DEF BrokerPcs, Ends, Responses
    <2> QED
        BY <1>1, <2>1, <2>2, Goes, EndsSo DEF QuietMove, Serving
<1>3. CASE ReadBefore(p) \/ ReadSequence(p)
    BY <1>3, Reads DEF QuietMove, Serving
<1>4. CASE (Snapshot(p) \/ Install(p)) /\ \E transient \in BOOLEAN : RefusedFor(p, transient)
    <2>1. b.pc \in {"snapshot", "install"}
        BY <1>4 DEF Snapshot, Install
    <2> QED
        BY <1>1, <1>4, <2>1, Refused DEF QuietMove, Serving
<1>5. CASE Fill(p) /\ BrokerGoes(p, "emptied")
    <2>1. b.pc = "fill" /\ "emptied" \in BrokerPcs
        BY <1>5 DEF Fill, BrokerPcs
    <2> QED
        BY <1>1, <1>5, <2>1, Goes DEF QuietMove, Serving
<1>6. CASE /\ Undo(p) \/ Restore(p)
           /\ \/ BrokerEnds(p, "notRestored", Answer(p, "notRestored"))
              \/ Closes(p, "notRestored")
    <2>1. b.pc \in {"undo", "restore"} /\ Answer(p, "notRestored") \in Responses
          /\ "notRestored" \in Ends
        BY <1>6 DEF Undo, Restore, Answer, Responses, Ends
    <2> QED
        BY <1>1, <1>6, <2>1, EndsSo, ClosesSo DEF QuietMove, Serving
<1>7. CASE TakeCommand(p)
    <2>1. b.pc \in {"wait", "reading"}
        BY <1>7 DEF TakeCommand
    <2>2. CASE /\ BrokerEnds(p, "kept", "kept")
               /\ b.command = "abandon" \/ (b.command = "closed" /\ b.pc = "wait")
        <3>1. "kept" \in Ends /\ "kept" \in Responses
            BY DEF Ends, Responses
        <3> QED
            BY <1>1, <2>1, <2>2, <3>1, EndsSo DEF QuietMove, Serving
    <2>3. CASE \E pc \in {"restore", "reading"} :
                  /\ broker' = [broker EXCEPT ![p] = [@ EXCEPT !.pc = pc, !.command = "closed"]]
                  /\ b.command = IF pc = "restore" THEN "restore" ELSE "defer"
        BY <1>1, <2>1, <2>3, Takes DEF QuietMove
    <2> QED
        BY <1>7, <2>2, <2>3 DEF TakeCommand
<1>8. CASE AwaitReader(p)
    <2>1. b.pc = "reading"
        BY <1>8 DEF AwaitReader
    <2>2. CASE BrokerGoes(p, "restore") /\ b.noted
        BY <1>1, <2>1, <2>2, Goes DEF BrokerPcs, QuietMove, Serving
    <2>3. CASE \E end \in {"notRestored", "unread"} : BrokerEnds(p, end, "notRestored")
        BY <1>1, <2>1, <2>3, EndsSo DEF Ends, Responses, QuietMove, Serving
    <2> QED
        BY <1>8, <2>2, <2>3 DEF AwaitReader
<1> QED
    BY <1>2, <1>3, <1>4, <1>5, <1>6, <1>7, <1>8

(* While a broker is active every other one rests, and losses stay known.   *)
LEMMA OthersRest ==
    ASSUME Typed, BrokerInv, NEW p \in Pastes, Broker(p)
    PROVE  /\ UNCHANGED <<newest, worker, lingering, field, pending, got, otherRead, counted, panicked>>
           /\ Active(p) /\ ~Over(p) /\ (p \in lingering \/ Owned(p)) /\ (p \in lingering \/ Owned(p))'
           /\ \A q \in Pastes \ {p} :
                 /\ broker'[q] = broker[q] /\ broker[q].pc \in {"none", "over"}
                 /\ (Lent(q) /\ Fresh(q))' /\ ~InGoodHands(q)
                 /\ Gone(q)' = Gone(q) /\ Over(q)' = Over(q) /\ Pasted(q)' = Pasted(q)
           /\ \A q \in Pastes : q > p => broker[q].pc = "none"
           /\ Accounted => Accounted'
<1>1. /\ UNCHANGED <<newest, worker, lingering, field, pending, got, otherRead, counted, panicked>>
      /\ \A q \in Pastes \ {p} : broker'[q] = broker[q]
      /\ broker' \in [Pastes -> Brokers]
    BY BrokerTyped, BrokerAlone DEF Alone, target, ledger
<1>2. Active(p) /\ ~Over(p) /\ (Ended(broker[p]) => Ended(broker'[p]) /\ broker'[p].end = broker[p].end)
    BY BrokerMoves DEF Active, Over, Working, BrokerPcs, Ended
<1>3. /\ p \in lingering \/ Owned(p)
      /\ \A q \in Pastes \ {p} : ~Active(q)
      /\ \A q \in Pastes : q > p => broker[q].pc = "none"
    BY <1>2 DEF BrokerInv, OneActive
<1>4. \A q \in Pastes : (q \in lingering \/ Owned(q))' = (q \in lingering \/ Owned(q))
    BY <1>1 DEF Owned
<1>5. ASSUME NEW q \in Pastes \ {p}
      PROVE  /\ broker[q].pc \in {"none", "over"}
             /\ (Lent(q) /\ Fresh(q))' /\ ~InGoodHands(q)
             /\ Gone(q)' = Gone(q) /\ Over(q)' = Over(q) /\ Pasted(q)' = Pasted(q)
    BY <1>1, <1>3 DEF Active, Lent, Fresh, InGoodHands, Lending, Gone, Ended, Over, Pasted
<1>6. Accounted => Accounted'
    BY <1>1, <1>2, <1>4 DEF Accounted, Pending, Lost
<1> QED
    BY <1>1, <1>2, <1>3, <1>4, <1>5, <1>6

LEMMA ItemsQuiet ==
    ASSUME Typed, SelectionInv, BrokerInv, ItemInv, NEW p \in Pastes, Broker(p), QuietMove(p)
    PROVE  ItemInv'
<1> DEFINE b == broker[p]
           c == broker'[p]
<1>1. /\ clip' = clip /\ c.saved = b.saved /\ c.noted = b.noted
      /\ c.command \in {b.command, "closed"} /\ Told(p) /\ Lent(p)
      /\ b.pc # "none" /\ c.pc # "none"
    BY DEF QuietMove, BrokerInv, ItemInv
<1>2. \A q \in Pastes : broker'[q].saved = broker[q].saved
    BY <1>1, OthersRest
<1>3. Gone(p)' => clip.item # Text(p)
    <2>1. b.pc \in {"start", "snapshot", "install", "copy", "fill", "emptied"} => clip.item # Text(p)
        BY DEF ItemInv, Gone
    <2>2. b.pc = "wait" /\ b.command \in {"abandon", "closed"} => clip.item # Text(p)
        BY <1>1, ItemFacts DEF Told, Lent, Lending
    <2>3. b.pc = "reading" => b.command = "closed"
        BY <1>1 DEF Told
    <2> QED
        BY <2>1, <2>2, <2>3 DEF QuietMove, Gone, Ended
<1>4. Lent(p)'
    BY <1>1, OthersRest DEF QuietMove, Lent, Lending
<1>5. Fresh(p)'
    BY <1>1 DEF QuietMove, Fresh, Typed, Clips
<1>6. Pasted(p)' /\ Late(p)'
    <2>1. p \in pending => b.pc \in {"wait", "reading", "restore"}
        BY DEF QuietMove, ItemInv, Pasted, Delivered
    <2>2. Pasted(p)'
        BY <1>1, OthersRest DEF QuietMove, ItemInv, Pasted, Delivered
    <2>3. p \in pending /\ p \notin otherRead => ~b.noted
        BY DEF SelectionInv, ItemInv, Pasted
    <2> QED
        BY <1>1, <1>2, <2>1, <2>2, <2>3, OthersRest DEF QuietMove, ItemInv, Late, Told
<1>7. ASSUME NEW q \in Pastes \ {p} PROVE Late(q)'
    BY <1>1, <1>2, OthersRest DEF ItemInv, Late
<1>8. (\E q \in Pastes : InGoodHands(q)) => Accounted' \/ InGoodHands(p)'
    <2>1. SUFFICES ASSUME InGoodHands(p) PROVE Accounted' \/ InGoodHands(p)'
        BY OthersRest
    <2>2. c.pc = "closing" => c.end \in {"notRestored", "unread"}
        BY <1>1, <2>1 DEF QuietMove, InGoodHands, Lending, Lent, Told
    <2>3. c.pc = "closing" => Pending(p)'
        BY <2>2, OthersRest DEF Pending, Ended, Lost
    <2>4. c.pc # "closing" => InGoodHands(p)'
        BY <1>1, <2>1, OthersRest DEF QuietMove, InGoodHands, Lending
    <2> QED
        BY <2>3, <2>4 DEF Accounted
<1>9. \A q, r \in Pastes : broker'[r].saved = Text(q) => Over(q)' /\ broker'[q].end \in {"unread", "notRestored"}
    BY <1>2, OthersRest DEF ItemInv
<1>10. LatePasteNeverUsersOwn'
    BY <1>2, OthersRest DEF ItemInv, LatePasteNeverUsersOwn
<1> QED
    BY <1>1, <1>2, <1>3, <1>4, <1>5, <1>6, <1>7, <1>8, <1>9, <1>10, OthersRest
    DEF ItemInv, KnownCopy

(* What a broker saves is nothing that another one still lends, and nothing *)
(* that a paste still to come must not find.                                *)
LEMMA ItemsSnapshot ==
    ASSUME Typed, SelectionInv, BrokerInv, ItemInv, NEW p \in Pastes, Snapshot(p),
           broker' = [broker EXCEPT ![p] = [@ EXCEPT !.pc = "install", !.saved = clip.item]]
    PROVE  ItemInv'
<1> DEFINE b == broker[p]
           c == broker'[p]
<1>1. /\ clip' = clip /\ b.pc = "snapshot" /\ c.pc = "install" /\ c.saved = clip.item
      /\ c.before = b.before /\ c.noted = b.noted /\ Broker(p)
    BY Snapshots DEF Snapshot, clipboard, Serving, Broker
<1>2. /\ p \notin pending /\ got[p] = NotYet
    BY <1>1 DEF ItemInv, Pasted, Delivered
<1>3. ASSUME NEW q \in Pastes, clip.item = Text(q)
      PROVE  Over(q) /\ broker[q].end \in {"unread", "notRestored"} /\ q # p
    <2>1. q # p
        BY <1>1, <1>3 DEF ItemInv, Gone
    <2>2. broker[q].pc = "over" /\ broker[q].end \notin {"untouched", "restored", "kept"}
        BY <1>1, <1>3, <2>1, OthersRest DEF ItemInv, Gone, Ended
    <2>3. broker[q].end \in Ends /\ broker[q].end # "running"
        BY <2>2 DEF BrokerInv, Answers, Ended, Typed, Brokers
    <2> QED
        BY <2>1, <2>2, <2>3 DEF Over, Ends
<1>4. \A q, r \in Pastes : broker'[r].saved = Text(q) => Over(q)' /\ broker'[q].end \in {"unread", "notRestored"}
    BY <1>1, <1>3, OthersRest DEF ItemInv
<1>5. Lent(p)' /\ Fresh(p)' /\ Pasted(p)' /\ Late(p)'
    BY <1>1, <1>2, OthersRest DEF ItemInv, Lent, Lending, Fresh, Pasted, Late
<1>6. ASSUME NEW q \in Pastes \ {p} PROVE Late(q)'
    BY <1>1, <1>6, OthersRest DEF ItemInv, Late
<1>7. LatePasteNeverUsersOwn'
    BY <1>1, <1>2, OthersRest, ItemFacts DEF ItemInv, LatePasteNeverUsersOwn
<1>8. Gone(p) /\ ~(\E q \in Pastes : InGoodHands(q))
    BY <1>1, OthersRest DEF Gone, InGoodHands, Lending
<1> QED
    BY <1>1, <1>4, <1>5, <1>6, <1>7, <1>8, OthersRest DEF ItemInv, KnownCopy

(* The replacement takes the place of exactly what was saved. *)
LEMMA InstallsSaved ==
    ASSUME Typed, ItemInv, NEW p \in Pastes, Install(p), clip' # clip
    PROVE  /\ broker[p].pc = "install" /\ broker[p].saved = clip.item
           /\ clip' = [item |-> Nothing, owner |-> p, seq |-> clip.seq + 1, rendered |-> TRUE]
           /\ broker' = [broker EXCEPT ![p] = [@ EXCEPT !.pc = "fill", !.before = 0, !.attempts = 1,
                                                        !.renders = TRUE]]
BY DEF Install, MayInstall, ItemInv, Fresh

LEMMA ItemsInstall ==
    ASSUME Typed, SelectionInv, BrokerInv, ItemInv, NEW p \in Pastes, Install(p), clip' # clip
    PROVE  ItemInv'
<1> DEFINE b == broker[p]
           c == broker'[p]
<1>1. /\ b.pc = "install" /\ c.pc = "fill" /\ b.saved = clip.item /\ c.saved = b.saved
      /\ c.command = b.command /\ c.noted = b.noted /\ Broker(p)
      /\ clip'.item = Nothing /\ clip'.owner = p /\ clip'.rendered
    <2>1. /\ b.pc = "install" /\ b.saved = clip.item
          /\ clip' = [item |-> Nothing, owner |-> p, seq |-> clip.seq + 1, rendered |-> TRUE]
          /\ broker' = [broker EXCEPT ![p] = [@ EXCEPT !.pc = "fill", !.before = 0, !.attempts = 1,
                                                       !.renders = TRUE]]
        BY InstallsSaved
    <2>2. c.pc = "fill" /\ c.saved = b.saved /\ Serving(c) = Serving(b)
        BY <2>1, Installs
    <2> QED
        BY <2>1, <2>2 DEF Serving, Broker
<1>2. /\ p \notin pending /\ got[p] = NotYet /\ b.command # "abandon"
    BY <1>1 DEF ItemInv, Pasted, Delivered, BrokerInv, Told
<1>3. \A q \in Pastes : broker'[q].saved = broker[q].saved
    BY <1>1, OthersRest
<1>4. \A q, r \in Pastes : broker'[r].saved = Text(q) => Over(q)' /\ broker'[q].end \in {"unread", "notRestored"}
    BY <1>1, <1>3, OthersRest DEF ItemInv
<1>5. Lent(p)' /\ Fresh(p)' /\ Pasted(p)' /\ Late(p)'
    BY <1>1, <1>2, OthersRest DEF ItemInv, Lent, Fresh, Pasted, Late
<1>6. ASSUME NEW q \in Pastes \ {p} PROVE Late(q)'
    BY <1>1, <1>3, OthersRest, ItemFacts DEF ItemInv, Late
<1>7. LatePasteNeverUsersOwn'
    BY <1>3, <1>1, OthersRest DEF ItemInv, LatePasteNeverUsersOwn
<1>8. Accounted' \/ InGoodHands(p)'
    BY <1>1, OthersRest DEF ItemInv, InGoodHands, Lending
<1> QED
    BY <1>1, <1>3, <1>4, <1>5, <1>6, <1>7, <1>8, OthersRest, ItemFacts DEF ItemInv, KnownCopy

LEMMA ItemsFill ==
    ASSUME Typed, SelectionInv, BrokerInv, ItemInv, NEW p \in Pastes, Fill(p),
           clip' = [clip EXCEPT !.item = Text(p), !.rendered = FALSE], BrokerGoes(p, "filled")
    PROVE  ItemInv'
<1> DEFINE b == broker[p]
           c == broker'[p]
<1>1. broker \in [Pastes -> Brokers] /\ clip \in Clips /\ "filled" \in BrokerPcs
    BY DEF Typed, BrokerPcs
<1>2. /\ b.pc = "fill" /\ c.pc = "filled" /\ c.saved = b.saved /\ c.command = b.command
      /\ c.noted = b.noted /\ Broker(p)
      /\ clip'.item = Text(p) /\ clip'.owner = clip.owner
    BY <1>1, Goes DEF Fill, Serving, Broker, Clips
<1>3. clip.owner = p /\ clip.item = Nothing /\ b.command # "abandon"
    BY <1>2 DEF ItemInv, Lent, Lending
<1>4. p \notin pending /\ got[p] = NotYet
    BY <1>2 DEF ItemInv, Pasted, Delivered
<1>5. \A q \in Pastes : broker'[q].saved = broker[q].saved
    BY <1>2, OthersRest
<1>6. \A q, r \in Pastes : broker'[r].saved = Text(q) => Over(q)' /\ broker'[q].end \in {"unread", "notRestored"}
    BY <1>2, <1>5, OthersRest DEF ItemInv
<1>7. Lent(p)' /\ Fresh(p)' /\ Pasted(p)' /\ Late(p)' /\ ~Gone(p)'
    BY <1>2, <1>3, <1>4, OthersRest DEF ItemInv, Lent, Fresh, Pasted, Late, Gone, Ended
<1>8. ASSUME NEW q \in Pastes \ {p} PROVE Late(q)'
    BY <1>2, <1>5, OthersRest, ItemFacts DEF ItemInv, Late
<1>9. LatePasteNeverUsersOwn'
    BY <1>2, <1>5, OthersRest DEF ItemInv, LatePasteNeverUsersOwn
<1>10. Accounted' \/ \E q \in Pastes : InGoodHands(q)'
    <2>1. Accounted \/ InGoodHands(p)
        BY <1>2, <1>3, OthersRest, ItemFacts DEF ItemInv
    <2>2. InGoodHands(p) => InGoodHands(p)'
        BY <1>2, OthersRest DEF InGoodHands, Lending
    <2> QED
        BY <1>2, <2>1, <2>2, OthersRest
<1> QED
    BY <1>2, <1>3, <1>5, <1>6, <1>7, <1>8, <1>9, <1>10, OthersRest, ItemFacts DEF ItemInv, KnownCopy

(* What is put back is the item that was saved, or a part that is reported. *)
LEMMA ItemsPutBack ==
    ASSUME Typed, SelectionInv, BrokerInv, ItemInv, NEW p \in Pastes, Undo(p) \/ Restore(p),
           NEW end \in {"restored", "notRestored"}, Closes(p, end), StillOurs(p),
           clip' = [item |-> IF end = "restored" THEN broker[p].saved ELSE Part,
                    owner |-> p, seq |-> clip.seq + 1, rendered |-> TRUE]
    PROVE  ItemInv'
<1> DEFINE b == broker[p]
           c == broker'[p]
<1>1. broker \in [Pastes -> Brokers]
    BY DEF Typed
<1>2. /\ b.pc \in {"undo", "restore"} /\ c.pc = "closing" /\ c.end = end /\ c.saved = b.saved
      /\ c.noted = b.noted /\ c.command = b.command /\ Broker(p)
      /\ clip'.item = (IF end = "restored" THEN b.saved ELSE Part) /\ clip'.rendered
    BY <1>1, ClosesSo DEF Undo, Restore, Serving, Broker
<1>3. clip.item \in {Nothing, Text(p)}
    BY <1>2 DEF ItemInv, Lent, Lending, StillOurs
<1>4. p \in pending => b.pc = "restore" /\ p \in otherRead
    BY <1>2 DEF ItemInv, Pasted, Late, Delivered
<1>5. \A q \in Pastes : broker'[q].saved = broker[q].saved
    BY <1>2, OthersRest
<1>6. \A q, r \in Pastes : broker'[r].saved = Text(q) => Over(q)' /\ broker'[q].end \in {"unread", "notRestored"}
    BY <1>2, <1>5, OthersRest DEF ItemInv
<1>7. Lent(p)' /\ Fresh(p)' /\ Pasted(p)' /\ Late(p)'
    BY <1>2, <1>4, OthersRest DEF ItemInv, Lent, Lending, Fresh, Pasted, Late
<1>8. ASSUME NEW q \in Pastes \ {p} PROVE Late(q)'
    <2>1. q \in pending => p > q
        <3>1. p \in Nat /\ q \in Nat
            BY DEF Pastes
        <3> QED
            BY <1>2, <3>1, OthersRest DEF ItemInv, Pasted, Delivered
    <2> QED
        BY <1>2, <1>5, <2>1, OthersRest, ItemFacts DEF ItemInv, Late
<1>9. LatePasteNeverUsersOwn'
    BY <1>2, <1>5, OthersRest DEF ItemInv, LatePasteNeverUsersOwn
<1>10. clip'.item = Copied(newest) \/ Accounted'
    <2>1. Accounted \/ InGoodHands(p)
        BY <1>2, <1>3, OthersRest, ItemFacts DEF ItemInv
    <2>2. InGoodHands(p) /\ end = "notRestored" => Pending(p)'
        BY <1>2, OthersRest DEF Pending, Ended, Lost
    <2> QED
        BY <1>2, <2>1, <2>2, OthersRest DEF InGoodHands, Accounted
<1>11. ASSUME NEW q \in Pastes, Gone(q)' PROVE clip'.item # Text(q)
    <2>1. CASE end = "restored"
        <3>1. SUFFICES ASSUME b.saved = Text(q) PROVE FALSE
            BY <1>2, <2>1
        <3>2. q # p /\ Over(q) /\ broker[q].end \in {"unread", "notRestored"}
            BY <1>2, <3>1, OthersRest DEF ItemInv
        <3> QED
            BY <1>2, <1>11, <3>2, OthersRest DEF Gone, Ended, Over
    <2>2. CASE end = "notRestored"
        BY <1>2, <2>2, ItemFacts
    <2> QED
        BY <2>1, <2>2
<1> QED
    BY <1>2, <1>5, <1>6, <1>7, <1>8, <1>9, <1>10, <1>11, OthersRest, ItemFacts DEF ItemInv, KnownCopy

LEMMA ItemsClosing ==
    ASSUME Typed, SelectionInv, BrokerInv, ItemInv, NEW p \in Pastes, CloseWindow(p)
    PROVE  ItemInv'
<1> DEFINE b == broker[p]
           c == broker'[p]
<1>1. broker \in [Pastes -> Brokers] /\ clip \in Clips
    BY DEF Typed
<1>2. /\ b.pc = "closing" /\ c.pc = "over" /\ c.end = b.end /\ c.saved = b.saved /\ ~c.noted
      /\ c.command = "none" /\ Broker(p)
    BY <1>1, WindowCloses DEF Broker
<1>3. \/ clip' = clip
      \/ clip'.item = clip.item /\ clip'.rendered
      \/ clip'.item = Nothing /\ clip'.rendered /\ ~clip.rendered
    BY <1>1 DEF CloseWindow, Clips
<1>4. \A q \in Pastes : broker'[q].saved = broker[q].saved
    BY <1>2, OthersRest
<1>5. \A q, r \in Pastes : broker'[r].saved = Text(q) => Over(q)' /\ broker'[q].end \in {"unread", "notRestored"}
    BY <1>2, <1>4, OthersRest DEF ItemInv
<1>6. Lent(p)' /\ Fresh(p)' /\ Pasted(p)'
    BY <1>2, OthersRest DEF ItemInv, Lent, Lending, Fresh, Pasted, Delivered
<1>7. ASSUME NEW q \in Pastes PROVE Late(q)'
    BY <1>2, <1>3, <1>4, OthersRest, ItemFacts DEF ItemInv, Late
<1>8. LatePasteNeverUsersOwn'
    BY <1>2, <1>4, OthersRest DEF ItemInv, LatePasteNeverUsersOwn
<1>9. clip'.item = Copied(newest) \/ Accounted'
    <2>1. ~InGoodHands(p)
        BY <1>2 DEF InGoodHands, Lending
    <2> QED
        BY <1>2, <1>3, <2>1, OthersRest, ItemFacts DEF ItemInv
<1>10. ASSUME NEW q \in Pastes, Gone(q)' PROVE clip'.item # Text(q)
    <2>1. Gone(q)
        BY <1>2, <1>10, OthersRest DEF Gone, Ended
    <2> QED
        BY <1>3, <2>1, ItemFacts DEF ItemInv
<1> QED
    BY <1>2, <1>3, <1>4, <1>5, <1>6, <1>7, <1>8, <1>9, <1>10, OthersRest, ItemFacts
    DEF ItemInv, KnownCopy

LEMMA ItemsBroker ==
    ASSUME Typed, SelectionInv, BrokerInv, ItemInv, NEW p \in Pastes, Broker(p)
    PROVE  ItemInv'
<1>1. CASE QuietMove(p)
    BY <1>1, ItemsQuiet
<1>2. CASE BrokerSetup(p) \/ ReadBefore(p) \/ ReadSequence(p) \/ TakeCommand(p) \/ AwaitReader(p)
    BY <1>1, <1>2, QuietMoves
    DEF BrokerSetup, ReadBefore, ReadSequence, TakeCommand, AwaitReader, clipboard
<1>3. CASE Snapshot(p)
    BY <1>1, <1>3, QuietMoves, ItemsSnapshot DEF Snapshot, clipboard
<1>4. CASE Install(p)
    <2>1. CASE clip' = clip
        <3>1. clip.seq \in Nat
            BY DEF Typed, Clips
        <3>2. clip' # [item |-> Nothing, owner |-> p, seq |-> clip.seq + 1, rendered |-> TRUE]
            BY <2>1, <3>1
        <3>3. \E transient \in BOOLEAN : RefusedFor(p, transient)
            BY <1>4, <3>2 DEF Install
        <3> QED
            BY <1>1, <1>4, <2>1, <3>3, QuietMoves
    <2> QED
        BY <1>4, <2>1, ItemsInstall
<1>5. CASE Fill(p)
    <2>1. CASE BrokerGoes(p, "emptied") /\ clip' = clip
        BY <1>1, <1>5, <2>1, QuietMoves
    <2> QED
        BY <1>5, <2>1, ItemsFill DEF Fill
<1>6. CASE Undo(p) \/ Restore(p)
    <2>1. CASE /\ clip' = clip
               /\ BrokerEnds(p, "notRestored", Answer(p, "notRestored")) \/ Closes(p, "notRestored")
        BY <1>1, <1>6, <2>1, QuietMoves
    <2> QED
        BY <1>6, <2>1, ItemsPutBack DEF Undo, Restore, PutBack
<1>7. CASE CloseWindow(p)
    BY <1>7, ItemsClosing
<1> QED
    BY <1>2, <1>3, <1>4, <1>5, <1>6, <1>7 DEF Broker

(* A step that changes neither the clipboard nor what the brokers hold.     *)
LEMMA ItemsKept ==
    ASSUME Typed, ItemInv,
           UNCHANGED <<clip, newest, pending, got, otherRead>>,
           \A p \in Pastes :
              /\ broker'[p].saved = broker[p].saved
              /\ broker'[p].before = broker[p].before /\ broker'[p].seq = broker[p].seq
              /\ broker'[p].end = broker[p].end /\ broker'[p].noted = broker[p].noted
              /\ \/ broker'[p].pc = broker[p].pc
                 \/ broker[p].pc = "none" /\ broker'[p].pc = "start"
              /\ broker'[p].command = "abandon" =>
                    broker[p].command = "abandon" \/ (~StillOurs(p) /\ broker[p].pc \in Delivered)
              /\ p \in pending /\ broker'[p].command = "restore" => broker[p].command = "restore",
           Accounted => Accounted'
    PROVE  ItemInv'
<1>1. ASSUME NEW p \in Pastes
      PROVE  /\ Gone(p)' = Gone(p) /\ Over(p)' = Over(p) /\ (InGoodHands(p) => InGoodHands(p)')
             /\ KnownCopy(broker[p].saved)' = KnownCopy(broker[p].saved)
    BY DEF Gone, Ended, Over, InGoodHands, Lending, KnownCopy
<1>2. \A p \in Pastes : Lent(p)'
    BY DEF ItemInv, Lent, Lending, Delivered, StillOurs
<1>3. ASSUME NEW p \in Pastes PROVE Fresh(p)' /\ Pasted(p)' /\ Late(p)'
    BY DEF ItemInv, Fresh, Pasted, Late, Delivered
<1> QED
    BY <1>1, <1>2, <1>3 DEF ItemInv, KnownCopy, LatePasteNeverUsersOwn

LEMMA ItemsStarting ==
    ASSUME Typed, BrokerInv, ItemInv, NextEvent \/ StartPaste
    PROVE  ItemInv'
<1>1. /\ worker.pc = "idle" /\ Reaps
      /\ UNCHANGED <<clip, newest, broker, pending, got, otherRead, panicked>>
    BY StartingStep DEF clipboard
<1>2. ASSUME NEW p \in Pastes, Pending(p)
      PROVE  Pending(p)' \/ counted'[p] = 1
    <2>1. p \in lingering /\ counted[p] = 0
        BY <1>1, <1>2 DEF Pending, Owned, Holding, BrokerInv, CountedWell
    <2> QED
        BY <1>1, <1>2, <2>1 DEF Pending, Reaps, Over, Ended, Lost
<1>3. ASSUME NEW p \in Pastes, counted[p] = 1
      PROVE  counted'[p] = 1
    <2>1. p \notin lingering
        BY <1>3 DEF BrokerInv, CountedWell
    <2> QED
        BY <1>1, <1>3, <2>1 DEF Reaps
<1>4. Accounted => Accounted'
    BY <1>1, <1>2, <1>3 DEF Accounted
<1> QED
    BY <1>1, <1>4, ItemsKept

LEMMA ItemsBeginning ==
    ASSUME Typed, BrokerInv, ItemInv, Begin
    PROVE  ItemInv'
<1>0. PICK p \in Pastes : p = worker.paste
    BY BeginningStep DEF Typed
<1>1. /\ UNCHANGED <<clip, newest, pending, got, otherRead, lingering, counted, panicked>>
      /\ worker.pc = "begin" /\ SamePaste
    BY BeginningStep DEF clipboard, target, ledger
<1>2. \A q \in Pastes : ~Owned(q)
    BY <1>1 DEF Owned, Holding
<1>3. CASE broker' = broker
    <2>1. Accounted => Accounted'
        BY <1>1, <1>2, <1>3 DEF Accounted, Pending, Ended, Lost
    <2> QED
        BY <1>1, <1>3, <2>1, ItemsKept
<1>4. CASE BrokerGoes(p, "start")
    <2>1. broker[p].pc = "none"
        BY <1>0, <1>1 DEF BrokerInv, Responsible, Unstarted, Selecting
    <2>2. broker \in [Pastes -> Brokers] /\ "start" \in BrokerPcs
        BY DEF Typed, BrokerPcs
    <2>3. /\ broker'[p].pc = "start" /\ \A q \in Pastes \ {p} : broker'[q] = broker[q]
          /\ broker'[p].saved = broker[p].saved
          /\ broker'[p].before = broker[p].before /\ broker'[p].seq = broker[p].seq
          /\ broker'[p].end = broker[p].end /\ broker'[p].noted = broker[p].noted
          /\ broker'[p].command = broker[p].command
        BY <1>4, <2>2, Goes DEF Alone, Answering, Serving
    <2>4. Accounted => Accounted'
        BY <1>1, <1>2, <2>1, <2>3 DEF Accounted, Pending, Ended, Lost
    <2> QED
        BY <1>1, <2>1, <2>3, <2>4, ItemsKept
<1> QED
    BY <1>0, <1>3, <1>4, BeginningStep

LEMMA ItemsRestoring ==
    ASSUME Typed, BrokerInv, ItemInv, RestoreAnswered \/ RestoreLate \/ SwitchLayout
    PROVE  ItemInv'
<1>0. PICK p \in Pastes : p = worker.paste
    BY DEF Typed, RestoreAnswered, RestoreLate, SwitchLayout
<1>1. UNCHANGED <<clip, newest, broker, pending, got, otherRead, panicked>>
    BY RestoringStep DEF clipboard, target
<1>2. CASE worker.pc = "switch" /\ UNCHANGED <<lingering, counted>>
    <2>1. Accounted => Accounted'
        BY <1>1, <1>2 DEF Accounted, Pending, Ended, Lost, Owned, Holding
    <2> QED
        BY <1>1, <2>1, ItemsKept
<1>3. CASE worker.pc = "restoring" /\ lingering' = lingering \cup {p} /\ counted' = counted
    <2>1. \A q \in Pastes : Pending(q) => Pending(q)'
        BY <1>0, <1>1, <1>3 DEF Pending, Ended, Lost, Owned
    <2> QED
        BY <1>1, <1>3, <2>1, ItemsKept DEF Accounted
<1>4. CASE /\ worker.pc = "restoring" /\ lingering' = lingering
           /\ Over(p) /\ broker[p].response \notin {"none", "installed"}
           /\ \A q \in Pastes \ {p} : counted'[q] = counted[q]
           /\ counted'[p] = counted[p] + IF broker[p].response = "restored"
                                            \/ worker.then = "unwind" THEN 0 ELSE 1
    <2>1. /\ counted[p] = 0 /\ broker[p].response # "failed"
          /\ worker.then = "unwind" => p \in panicked
          /\ Answers(broker[p])
        BY <1>0, <1>4 DEF BrokerInv, CountedWell, Owned, Told, Holding
    <2>2. Pending(p) => counted'[p] = 1 \/ p \in panicked
        <3>1. Lost(p) => broker[p].response # "restored"
            BY <1>4, <2>1 DEF Answers, SaysEnd, Ended, Over, Lost
        <3> QED
            BY <1>4, <2>1, <3>1 DEF Pending
    <2>3. \A q \in Pastes \ {p} : Pending(q) => Pending(q)'
        BY <1>0, <1>1, <1>4 DEF Pending, Ended, Lost, Owned
    <2>4. Accounted => Accounted'
        BY <1>1, <1>4, <2>1, <2>2, <2>3 DEF Accounted
    <2> QED
        BY <1>1, <2>4, ItemsKept
<1> QED
    BY <1>0, <1>2, <1>3, <1>4, RestoringStep

(* The worker has its broker restore, wait for a reader or leave the        *)
(* clipboard, each only where the paste and the clipboard allow it.         *)
LEMMA ItemsHolding ==
    ASSUME Typed, SelectionInv, BrokerInv, ItemInv, worker.pc \in Holding,
           \/ Installed \/ NotInstalled \/ Cancel \/ NotCommitted \/ Committed \/ Unwind
    PROVE  ItemInv'
<1>0. PICK p \in Pastes : p = worker.paste
    BY DEF Typed, Holding
<1>1. /\ UNCHANGED <<clip, newest, pending, got, otherRead, counted>>
      /\ worker'.paste = p /\ panicked \subseteq panicked'
      /\ lingering' = lingering \cup {p} \/ (lingering' = lingering /\ worker'.pc \in Holding)
      /\ \/ broker' = broker
         \/ GetsCommand(p, "restore") /\ p \notin pending
         \/ GetsCommand(p, "abandon") /\ ~StillOurs(p) /\ broker[p].pc = "wait"
         \/ GetsCommand(p, "defer")
    <2>1. worker.pc \in {"install", "ready"} \/ Shows(p) => p \notin pending
        BY <1>0, ItemFacts DEF SelectionInv, NotSubmitted, Shows
    <2>2. worker.pc \in {"ready", "sent"} => broker[p].pc = "wait"
        BY <1>0 DEF BrokerInv, Told
    <2>3. ~worker.submitted => worker.pc # "sent"
        BY DEF SelectionInv
    <2>4. IsCurrent <=> StillOurs(p)
        BY <1>0 DEF IsCurrent, StillOurs, Current
    <2>5. pending' = pending
        BY DEF Installed, NotInstalled, Cancel, NotCommitted, Committed, Unwind, target
    <2> QED
        BY <1>0, <2>1, <2>2, <2>3, <2>4, <2>5, HoldingStep DEF clipboard, Holding
<1>2. \A q \in Pastes :
         /\ broker'[q].saved = broker[q].saved
         /\ broker'[q].before = broker[q].before /\ broker'[q].seq = broker[q].seq
         /\ broker'[q].end = broker[q].end /\ broker'[q].noted = broker[q].noted
         /\ broker'[q].pc = broker[q].pc
         /\ broker'[q].command = broker[q].command \/ (q = p /\ GetsCommand(p, broker'[p].command))
    BY <1>1 DEF GetsCommand, Alone, Answering
<1>3. Accounted => Accounted'
    <2>1. \A q \in Pastes : Pending(q) => Pending(q)'
        BY <1>0, <1>1, <1>2 DEF Pending, Ended, Lost, Owned
    <2> QED
        BY <1>1, <2>1 DEF Accounted
<1>4. \A q \in Pastes :
         /\ broker'[q].command = "abandon" =>
               broker[q].command = "abandon" \/ (~StillOurs(q) /\ broker[q].pc \in Delivered)
         /\ q \in pending /\ broker'[q].command = "restore" => broker[q].command = "restore"
    BY <1>1 DEF GetsCommand, Alone, Delivered
<1> QED
    BY <1>1, <1>2, <1>3, <1>4, ItemsKept

(* Ctrl+V is sent only while the clipboard is the broker's own. *)
LEMMA ItemsSubmit ==
    ASSUME Typed, SelectionInv, BrokerInv, ItemInv, Submit
    PROVE  ItemInv'
<1>0. PICK p \in Pastes : p = worker.paste
    BY DEF Typed, Submit
<1>1. /\ UNCHANGED <<clip, newest, broker, lingering, got, otherRead, counted, panicked>>
      /\ worker.pc = "ready" /\ worker'.pc = "sent" /\ worker'.paste = p
      /\ pending' \in {pending \cup {p}, pending} /\ StillOurs(p)
    <2>1. worker.pc = "ready" /\ worker' = [worker EXCEPT !.pc = "sent", !.submitted = TRUE]
        BY DEF Submit
    <2>2. worker'.pc = "sent" /\ worker'.paste = p
        BY <1>0, <2>1 DEF Typed, Workers
    <2> QED
        BY <1>0, <2>1, <2>2 DEF Submit, MaySubmit, IsCurrent, StillOurs, Current, clipboard, ledger
<1>2. /\ broker[p].pc = "wait" /\ broker[p].command = "none" /\ got[p] = NotYet
    BY <1>0, <1>1 DEF BrokerInv, Told, Holding, SelectionInv, NotSubmitted
<1>3. clip.item = Text(p)
    BY <1>1, <1>2 DEF ItemInv, Lent, Lending, StillOurs
<1>4. \A q \in Pastes : q > p => broker[q].saved = Nothing
    BY <1>0 DEF BrokerInv, Responsible, Unstarted, ItemInv, Pasted
<1>5. Late(p)'
    BY <1>1, <1>2, <1>3, <1>4, ItemFacts DEF Late
<1>6. ASSUME NEW q \in Pastes PROVE Pasted(q)'
    BY <1>1, <1>2 DEF ItemInv, Pasted, Delivered
<1>7. ASSUME NEW q \in Pastes \ {p} PROVE Late(q)'
    BY <1>1 DEF ItemInv, Late
<1>8. Accounted => Accounted'
    BY <1>0, <1>1 DEF Accounted, Pending, Ended, Lost, Owned, Holding
<1> QED
    BY <1>1, <1>5, <1>6, <1>7, <1>8
    DEF ItemInv, Gone, Ended, Over, Lent, Fresh, InGoodHands, KnownCopy, LatePasteNeverUsersOwn

(* The world: a copy, a paste, another reader. *)
LEMMA ItemsCopy ==
    ASSUME Typed, ItemInv, Copy
    PROVE  ItemInv'
<1>1. /\ newest' = newest + 1 /\ newest \in Nat /\ clip.seq \in Nat
      /\ clip' = [item |-> Copied(newest'), owner |-> NoPaste, seq |-> clip.seq + 1, rendered |-> TRUE]
      /\ UNCHANGED <<broker, worker, lingering, got, pending, otherRead, counted, panicked>>
      /\ \A p \in Pastes : broker[p].pc # "fill" /\ broker[p].before \in Nat /\ p # NoPaste
                           /\ broker[p].saved \in Items
    <2>1. newest \in Nat /\ clip.seq \in Nat
        BY PasteAssumption DEF Typed, Clips
    <2>2. /\ newest' = newest + 1
          /\ clip' = [item |-> Copied(newest'), owner |-> NoPaste, seq |-> clip.seq + 1, rendered |-> TRUE]
          /\ UNCHANGED <<broker, worker, lingering, got, pending, otherRead, counted, panicked>>
        BY DEF Copy, target, ledger
    <2>3. \A p \in Pastes : broker[p].pc # "fill" /\ broker[p] \in Brokers /\ p # NoPaste
        BY PasteAssumption DEF Copy, ClipboardOpen, Typed, Pastes, NoPaste
    <2>4. \A p \in Pastes : broker[p].before \in Nat /\ broker[p].saved \in Items
        BY <2>3 DEF Brokers
    <2> QED
        BY <2>1, <2>2, <2>3, <2>4
<1>2. /\ clip'.item = Copied(newest') /\ clip'.owner = NoPaste /\ clip'.seq = clip.seq + 1
      /\ clip'.rendered
    BY <1>1
<1>3. ASSUME NEW p \in Pastes PROVE broker[p].saved # Copied(newest') /\ KnownCopy(broker[p].saved)'
    <2>1. broker[p].saved.kind = "copied" =>
              /\ broker[p].saved.n <= newest /\ broker[p].saved.n \in Nat
              /\ broker[p].saved = Copied(broker[p].saved.n)
        BY <1>1, ItemKinds, PasteAssumption DEF ItemInv, KnownCopy
    <2> QED
        BY <1>1, <2>1, ItemFacts DEF KnownCopy
<1>4. ASSUME NEW p \in Pastes PROVE Lent(p)'
    BY <1>1, <1>2, <1>3 DEF Lent
<1>5. ASSUME NEW p \in Pastes PROVE Fresh(p)'
    BY <1>1, <1>2 DEF ItemInv, Fresh
<1>6. ASSUME NEW p \in Pastes PROVE Pasted(p)' /\ Late(p)'
    BY <1>1, <1>2, <1>3 DEF ItemInv, Pasted, Late
<1>7. KnownCopy(clip.item)'
    BY <1>1, <1>2, ItemFacts DEF KnownCopy
<1> QED
    BY <1>1, <1>2, <1>3, <1>4, <1>5, <1>6, <1>7, ItemFacts
    DEF ItemInv, Gone, Ended, Over, LatePasteNeverUsersOwn

LEMMA WorldAccounted ==
    ASSUME Typed, World
    PROVE  Accounted => Accounted'
<1>1. \A p \in Pastes : Pending(p)' = Pending(p)
    BY WorldWorks, WorldBrokers
    DEF SameWork, SamePaste, SameJob, Answering, Pending, Ended, Lost, Owned
<1> QED
    BY <1>1, WorldWorks DEF Accounted

LEMMA RenderNotes ==
    ASSUME Typed, NEW p \in Pastes, NEW who, Render(p, who)
    PROVE  /\ \A q \in Pastes \ {p} : broker'[q] = broker[q]
           /\ clip'.item = clip.item /\ clip'.owner = clip.owner /\ clip'.seq = clip.seq
           /\ clip'.rendered
<1>1. CountsAsRead(p, who) \in BOOLEAN
    BY DEF CountsAsRead
<1> QED
    BY <1>1, Noted DEF Render, Typed, Clips, Alone

LEMMA ItemsReading ==
    ASSUME Typed, ItemInv, TargetPastes \/ OtherReads
    PROVE  ItemInv'
<1> DEFINE Reading ==
               /\ newest' = newest /\ pending' \subseteq pending /\ otherRead \subseteq otherRead'
               /\ clip'.item = clip.item /\ clip'.owner = clip.owner /\ clip'.seq = clip.seq
               /\ clip' = clip \/ clip'.rendered
               /\ \A q \in Pastes : got'[q] = got[q] \/ (q \in pending /\ got'[q] = clip.item)
               /\ \A q \in Pastes : \/ broker'[q] = broker[q]
                                    \/ q \in otherRead'
                                    \/ got'[q] = clip.item
<1>1. Unrendered => clip.item.n \in Pastes
    BY ItemKinds DEF Unrendered, Typed, Clips
<1>2. clip.item # NotYet
    BY ItemFacts DEF Typed, Clips, Items
<1>3. Reading
    <2>1. CASE OtherReads
        <3>1. PICK who : Render(clip.item.n, who) /\ otherRead' = otherRead \cup {clip.item.n}
            BY <2>1 DEF OtherReads
        <3>2. clip.item.n \in Pastes /\ UNCHANGED <<newest, pending, got>>
            BY <1>1, <2>1 DEF OtherReads
        <3> QED
            BY <3>1, <3>2, RenderNotes
    <2>2. CASE TargetPastes
        <3>1. PICK p \in pending :
                  /\ pending' = pending \ {p} /\ newest' = newest
                  /\ got' = [got EXCEPT ![p] = clip.item]
                  /\ IF Unrendered
                     THEN /\ \E who \in {"target", "windowless"} : Render(clip.item.n, who)
                          /\ otherRead' = IF clip.item.n = p THEN otherRead
                                          ELSE otherRead \cup {clip.item.n}
                     ELSE UNCHANGED <<clip, broker, otherRead>>
            BY <2>2 DEF TargetPastes
        <3>2. p \in Pastes /\ got'[p] = clip.item /\ \A q \in Pastes \ {p} : got'[q] = got[q]
            BY <3>1 DEF Typed
        <3>3. CASE Unrendered
            BY <1>1, <3>1, <3>2, <3>3, RenderNotes
        <3>4. CASE ~Unrendered
            BY <3>1, <3>2, <3>4
        <3> QED
            BY <3>3, <3>4
    <2> QED
        BY <2>1, <2>2
<1> HIDE DEF Reading
<1>4. \A q \in Pastes :
         /\ broker'[q].pc = broker[q].pc /\ broker'[q].saved = broker[q].saved
         /\ broker'[q].before = broker[q].before /\ broker'[q].seq = broker[q].seq
         /\ broker'[q].end = broker[q].end /\ broker'[q].command = broker[q].command
    BY WorldBrokers DEF World, SameJob, Answering
<1>5. ASSUME NEW q \in Pastes PROVE (Lent(q) /\ Fresh(q) /\ Late(q))'
    BY <1>3, <1>4 DEF Reading, ItemInv, Lent, Fresh, Late
<1>6. ASSUME NEW q \in Pastes PROVE Pasted(q)'
    BY <1>2, <1>3, <1>4 DEF Reading, ItemInv, Pasted
<1>7. ASSUME NEW q \in Pastes PROVE got'[q].kind = "copied" /\ got'[q] = broker'[q].saved => q \in otherRead'
    <2>1. q \in pending /\ q \notin otherRead /\ broker[q].saved.kind = "copied" =>
              clip.item # broker[q].saved
        BY DEF ItemInv, Late
    <2>2. got[q].kind = "copied" /\ got[q] = broker[q].saved => q \in otherRead
        BY DEF ItemInv, LatePasteNeverUsersOwn
    <2> QED
        BY <1>3, <1>4, <2>1, <2>2 DEF Reading
<1>8. Accounted => Accounted'
    BY WorldAccounted DEF World
<1>9. ASSUME NEW q \in Pastes
      PROVE  /\ Gone(q)' = Gone(q) /\ Over(q)' = Over(q) /\ (InGoodHands(q) => InGoodHands(q)')
    BY <1>3, <1>4 DEF Reading, Gone, Ended, Over, InGoodHands
<1> QED
    BY <1>3, <1>4, <1>5, <1>6, <1>7, <1>8, <1>9
    DEF Reading, ItemInv, KnownCopy, LatePasteNeverUsersOwn

LEMMA ItemInvStep ==
    ASSUME Typed, SelectionInv, BrokerInv, ItemInv, [Next]_vars
    PROVE  ItemInv'
<1>1. CASE UNCHANGED vars
    BY <1>1, ItemsKept DEF vars, Accounted, Pending, Ended, Lost, Owned
<1>2. CASE UserActs \/ FieldShows
    BY <1>2, WorldAccounted, ItemsKept DEF World, UserActs, FieldShows, clipboard, target
<1>3. CASE EndSelection \/ SelectRead \/ SelectCall \/ FailedCall \/ Confirmed \/ NotConfirmed
    <2>1. /\ UNCHANGED <<clip, newest, broker, lingering, pending, got, otherRead, counted, panicked>>
          /\ worker.pc \notin Holding /\ SamePaste
        BY <1>3, SelectingStep DEF clipboard, ledger, Selecting, Holding
    <2>2. Accounted => Accounted'
        BY <2>1 DEF Accounted, Pending, Ended, Lost, Owned
    <2> QED
        BY <2>1, <2>2, ItemsKept
<1>4. CASE Installed \/ NotInstalled \/ Cancel \/ NotCommitted \/ Committed \/ Unwind
    <2>1. worker.pc \in Holding
        BY <1>4 DEF Installed, NotInstalled, Cancel, NotCommitted, Committed, Unwind, Holding
    <2> QED
        BY <1>4, <2>1, ItemsHolding
<1> QED
    BY <1>1, <1>2, <1>3, <1>4, ItemsBroker, ItemsStarting, ItemsBeginning, ItemsSubmit,
       ItemsRestoring, ItemsCopy, ItemsReading DEF Next, WorkerStep, World

-----------------------------------------------------------------------------
LEMMA PasteInvInit == Init => PasteInv
<1> SUFFICES ASSUME Init PROVE PasteInv
    OBVIOUS
<1>1. /\ worker.pc = "idle" /\ worker.paste = 0 /\ field = "clear" /\ pending = {} /\ lingering = {}
      /\ newest = 0 /\ clip.item = Copied(0) /\ clip.rendered
      /\ \A p \in Pastes :
            /\ broker[p].pc = "none" /\ broker[p].end = "running" /\ broker[p].response = "none"
            /\ broker[p].command = "none" /\ ~broker[p].noted /\ broker[p].saved = Nothing
            /\ got[p] = NotYet /\ counted[p] = 0 /\ p > 0
    BY DEF Init, BrokerIdle, WorkerIdle, NoPaste, Pastes
<1>2. SelectionInv
    BY <1>1 DEF SelectionInv, SelectionAccounted, Committing, Shown, Holding
<1>3. BrokerInv
    BY <1>1 DEF BrokerInv, OneActive, Responsible, Active, Owned, Unstarted, Holding, Answers, Ended,
       Delivered, Told, CountedWell
<1>4. ItemInv
    BY <1>1, ItemFacts DEF ItemInv, Gone, Lent, Lending, Fresh, Pasted, Late, KnownCopy, Delivered,
       LatePasteNeverUsersOwn
<1> QED
    BY <1>2, <1>3, <1>4, InitTyped DEF PasteInv

LEMMA PasteInvStep == PasteInv /\ [Next]_vars => PasteInv'
BY StepTyped, SelectionStep, BrokerInvStep, ItemInvStep DEF PasteInv

LEMMA PasteInvAlways == Spec => []PasteInv
BY PasteInvInit, PasteInvStep, PTL DEF Spec

LEMMA Accounting == PasteInv => PasteAccounted
<1> SUFFICES ASSUME PasteInv PROVE PasteAccounted
    OBVIOUS
<1>1. Typed /\ SelectionInv /\ BrokerInv /\ ItemInv
    BY DEF PasteInv
<1>2. TypeOK
    BY <1>1 DEF Typed, TypeOK, Clips, Brokers, Workers
<1>3. LossCounted
    <2>1. worker.pc = "idle" /\ lingering = {} => \A p \in Pastes : ~InGoodHands(p) /\ ~Pending(p)
        BY <1>1 DEF BrokerInv, OneActive, Active, Owned, Holding, InGoodHands, Lending, Pending
    <2> QED
        BY <1>1, <2>1 DEF LossCounted, ItemInv, Accounted
<1>4. CountedOnce
    BY <1>1 DEF BrokerInv, CountedWell, CountedOnce
<1>5. ReplacementLeftKnown
    <2>1. ASSUME NEW p \in Pastes, Over(p), clip.item = Text(p)
          PROVE  broker[p].end \in {"unread", "notRestored"}
        <3>1. broker[p].end \in Ends /\ broker[p].end # "running"
            BY <1>1, <2>1 DEF Typed, Brokers, BrokerInv, Answers, Ended, Over
        <3> QED
            BY <1>1, <2>1, <3>1 DEF ItemInv, Gone, Ended, Over, Ends
    <2> QED
        BY <2>1 DEF ReplacementLeftKnown
<1>6. SavesUsersClipboard
    <2>1. ASSUME NEW p \in Pastes, broker[p].saved.kind = "text"
          PROVE  Over(broker[p].saved.n)
        <3>1. broker[p].saved \in Items
            BY <1>1 DEF Typed, Brokers
        <3>2. broker[p].saved.n \in Pastes /\ broker[p].saved = Text(broker[p].saved.n)
            BY <2>1, <3>1, ItemKinds
        <3> QED
            BY <1>1, <3>2 DEF ItemInv
    <2> QED
        BY <2>1 DEF SavesUsersClipboard
<1> QED
    BY <1>1, <1>2, <1>3, <1>4, <1>5, <1>6 DEF PasteAccounted, SelectionInv, ItemInv

(* Whatever a behaviour of pastes, copies, readers, panics and late answers *)
(* does, a clipboard that is not given back is counted once, a replacement  *)
(* stays only where it may still be read, and the selection the agent made  *)
(* is gone or reported (paste_protected_text, collapse_selection).          *)
THEOREM PasteAlwaysAccounted == Spec => []PasteAccounted
BY PasteInvAlways, Accounting, PTL

(* No step but a program's own copy, or the install of a broker that saved  *)
(* exactly that item, takes a copied item off the clipboard (install,       *)
(* restore, WM_RENDERALLFORMATS of the broker window).                      *)
THEOREM OthersCopyAlwaysKept == Spec => OthersCopyKept
<1>1. PasteInv /\ [Next]_vars =>
         [ clip.item.kind = "copied" /\ clip'.item # clip.item /\ newest' = newest
           => \E p \in Pastes : broker[p].pc = "install" /\ broker[p].saved = clip.item ]_vars
    <2> SUFFICES ASSUME PasteInv, [Next]_vars,
                        clip.item.kind = "copied", clip'.item # clip.item, newest' = newest
                 PROVE  \E p \in Pastes : broker[p].pc = "install" /\ broker[p].saved = clip.item
        OBVIOUS
    <2>1. Typed /\ BrokerInv /\ ItemInv
        BY DEF PasteInv
    <2>2. clip \in Clips /\ clip.item \notin {Nothing} /\ \A p \in Pastes : clip.item # Text(p)
        BY <2>1, ItemFacts DEF Typed
    <2>3. PICK p \in Pastes : Broker(p)
        <3>1. ~UNCHANGED clip
            OBVIOUS
        <3>2. ~World
            <4>1. newest \in Nat
                BY <2>1, PasteAssumption DEF Typed
            <4>2. ~Copy
                BY <4>1 DEF Copy
            <4>3. ASSUME NEW q, NEW who, Render(q, who) PROVE FALSE
                BY <2>2, <4>3 DEF Render, Clips
            <4> QED
                BY <3>1, <4>2, <4>3 DEF World, TargetPastes, OtherReads, UserActs, FieldShows, clipboard
        <3> QED
            BY <2>1, <3>1, <3>2 DEF Next, WorkerStep, NextEvent, StartPaste, SelectRead, SelectCall,
               FailedCall, Confirmed, NotConfirmed, EndSelection, Begin, Installed, NotInstalled,
               Cancel, Submit, NotCommitted, Committed, RestoreAnswered, RestoreLate, SwitchLayout,
               Unwind, vars, clipboard
    <2>4. CASE Install(p)
        BY <2>1, <2>4, InstallsSaved
    <2>5. CASE Fill(p)
        <3>1. broker[p].pc = "fill"
            BY <2>5 DEF Fill
        <3> QED
            BY <2>1, <2>2, <3>1, ItemFacts DEF ItemInv, Lent, Lending
    <2>6. CASE Undo(p) \/ Restore(p)
        <3>1. broker[p].pc \in {"undo", "restore"} /\ StillOurs(p)
            BY <2>6 DEF Undo, Restore, PutBack
        <3> QED
            BY <2>1, <2>2, <3>1 DEF ItemInv, Lent, Lending, StillOurs
    <2>7. CASE CloseWindow(p)
        <3>1. ~clip.rendered /\ clip.owner = p
            BY <2>2, <2>7 DEF CloseWindow, Clips
        <3> QED
            BY <2>1, <2>2, <3>1 DEF ItemInv
    <2> QED
        BY <2>3, <2>4, <2>5, <2>6, <2>7 DEF Broker, BrokerSetup, ReadBefore, Snapshot, ReadSequence,
           TakeCommand, AwaitReader, clipboard
<1> QED
    BY <1>1, PasteInvAlways, PTL DEF Spec, OthersCopyKept

=============================================================================
