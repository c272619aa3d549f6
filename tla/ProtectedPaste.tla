--------------------------- MODULE ProtectedPaste ---------------------------
(***************************************************************************)
(* A protected paste of the input worker (windows_agent.rs): the word is    *)
(* selected through UI Automation, a broker thread saves the user's         *)
(* clipboard and lends it to the replacement, Ctrl+V is sent, and the       *)
(* clipboard is given back.  The actors are the worker, one broker thread   *)
(* per paste, the target of the paste, and the other programs, which may    *)
(* copy, read and hold the clipboard open at any moment.                    *)
(*                                                                          *)
(* Abstracted: texts and formats (an item of the clipboard is a name), the  *)
(* clock (a wait ends when its event comes or at any moment before), the    *)
(* reports and the log.                                                     *)
(***************************************************************************)
EXTENDS Naturals, FiniteSets, FiniteSetsExt

CONSTANTS
  MaxPastes,       \* bound: pastes of a behaviour
  MaxCopies,       \* bound: items other programs copy
  InstallAttempts, \* CLIPBOARD_INSTALL_ATTEMPTS
  SelectAttempts,  \* UIA_MANUAL_SELECTION_ATTEMPTS
  MaxPanics        \* bound: contained panics of the worker

ASSUME PasteAssumption ==
  /\ MaxPastes \in Nat \ {0} /\ MaxCopies \in Nat /\ MaxPanics \in Nat
  /\ InstallAttempts \in Nat \ {0} /\ SelectAttempts \in Nat \ {0}

Pastes == 1..MaxPastes
NoPaste == 0

(* Items of the clipboard: what a program copied, the replacement of a     *)
(* paste, a half restored item, nothing.                                    *)
Copied(n) == [kind |-> "copied", n |-> n]
Text(p) == [kind |-> "text", n |-> p]
Part == [kind |-> "part", n |-> 0]
Nothing == [kind |-> "nothing", n |-> 0]
NotYet == [kind |-> "notYet", n |-> 0]
Items == {Copied(n) : n \in 0..MaxCopies} \cup {Text(p) : p \in Pastes} \cup {Part, Nothing}

VARIABLES
  clip,      \* the system clipboard: item, owning broker, sequence, rendered
  newest,    \* the last item a program copied
  broker,    \* broker[p]: the thread of paste p with what it shares with the worker
  worker,    \* the worker's paste
  lingering, \* brokers the worker stopped waiting for
  field,     \* the word in the target's field: clear, late, selected, stray
  pending,   \* pastes whose Ctrl+V the target has not handled
  got,       \* got[p]: what the target pasted for p
  otherRead, \* pastes whose replacement was read by something taken for the paste
  counted,   \* counted[p]: how often p's clipboard was counted as not restored
  panicked   \* pastes that a contained panic ended

clipboard == <<clip, newest>>
target == <<field, pending, got, otherRead>>
ledger == <<counted, panicked>>
vars == <<clip, newest, broker, worker, lingering, field, pending, got, otherRead, counted, panicked>>

BrokerIdle == [pc |-> "none", before |-> 0, saved |-> Nothing, attempts |-> 1, seq |-> 0,
               cancelled |-> FALSE, end |-> "running", command |-> "none", response |-> "none",
               noted |-> FALSE, renders |-> FALSE]
WorkerIdle == [pc |-> "idle", paste |-> NoPaste, attempts |-> 1, tries |-> 0, guard |-> TRUE,
               submitted |-> FALSE, then |-> "none", outcome |-> "none"]

Init ==
  /\ clip = [item |-> Copied(0), owner |-> NoPaste, seq |-> 0, rendered |-> TRUE]
  /\ newest = 0
  /\ broker = [p \in Pastes |-> BrokerIdle]
  /\ worker = WorkerIdle
  /\ lingering = {} /\ field = "clear" /\ pending = {} /\ otherRead = {} /\ panicked = {}
  /\ got = [p \in Pastes |-> NotYet]
  /\ counted = [p \in Pastes |-> 0]

BrokerGoes(p, pc) == broker' = [broker EXCEPT ![p] = [@ EXCEPT !.pc = pc]]
WorkerGoes(pc) == worker' = [worker EXCEPT !.pc = pc]

(* A broker holds the clipboard open between emptying and filling it.       *)
ClipboardOpen == \E p \in Pastes : broker[p].pc = "fill"
Over(p) == broker[p].pc = "over"

(***************************************************************************)
(* The broker thread                                                        *)
(***************************************************************************)
BrokerEnds(p, end, response) ==
  broker' = [broker EXCEPT ![p] = [@ EXCEPT !.pc = "closing", !.end = end, !.response = response]]

(* A program that holds the clipboard open, or a copy that fails meanwhile, *)
(* is worth another attempt while the worker still waits.                   *)
RefusedFor(p, transient) ==
  IF transient /\ broker[p].attempts < InstallAttempts /\ ~broker[p].cancelled
  THEN broker' = [broker EXCEPT ![p] = [@ EXCEPT !.pc = "copy", !.attempts = broker[p].attempts + 1]]
  ELSE BrokerEnds(p, "untouched", "failed")

BrokerSetup(p) ==
  /\ broker[p].pc = "start"
  /\ \/ BrokerGoes(p, "copy")
     \/ BrokerEnds(p, "untouched", "failed")
  /\ UNCHANGED <<clipboard, worker, lingering, target, ledger>>

ReadBefore(p) ==
  /\ broker[p].pc = "copy"
  /\ broker' = [broker EXCEPT ![p] = [@ EXCEPT !.pc = "snapshot", !.before = clip.seq]]
  /\ UNCHANGED <<clipboard, worker, lingering, target, ledger>>

Snapshot(p) ==
  /\ broker[p].pc = "snapshot"
  /\ \/ broker' = [broker EXCEPT ![p] = [@ EXCEPT !.pc = "install", !.saved = clip.item]]
     \/ RefusedFor(p, TRUE)
  /\ UNCHANGED <<clipboard, worker, lingering, target, ledger>>

\* Mutant: the sequence is not compared with the clipboard open.
MayInstallAnyway(p) == ~broker[p].cancelled

(* With the clipboard open, so that nothing can change it before it is      *)
(* emptied.  Emptying waits for the previous owner to let go.               *)
MayInstall(p) == ~broker[p].cancelled /\ clip.seq = broker[p].before

Install(p) ==
  /\ broker[p].pc = "install"
  /\ ~ClipboardOpen
  /\ \/ RefusedFor(p, TRUE) /\ UNCHANGED clip
     \/ RefusedFor(p, FALSE) /\ UNCHANGED clip
     \/ /\ MayInstall(p)
        /\ clip' = [item |-> Nothing, owner |-> p, seq |-> clip.seq + 1, rendered |-> TRUE]
        /\ broker' = [broker EXCEPT ![p] = [@ EXCEPT !.pc = "fill", !.before = 0, !.attempts = 1,
                                                      !.renders = TRUE]]
  /\ UNCHANGED <<newest, worker, lingering, target, ledger>>

MayFill(p) == ~broker[p].cancelled

Fill(p) ==
  /\ broker[p].pc = "fill"
  /\ \/ /\ MayFill(p)
        /\ clip' = [clip EXCEPT !.item = Text(p), !.rendered = FALSE]
        /\ BrokerGoes(p, "filled")
     \/ BrokerGoes(p, "emptied") /\ UNCHANGED clip
  /\ UNCHANGED <<newest, worker, lingering, target, ledger>>

(* The sequence is read once the clipboard is closed again.                 *)
ReadSequence(p) ==
  /\ \/ /\ broker[p].pc = "filled"
        /\ broker' = [broker EXCEPT ![p] = [@ EXCEPT !.pc = "wait", !.seq = clip.seq,
                                                      !.response = "installed"]]
     \/ /\ broker[p].pc = "emptied"
        /\ broker' = [broker EXCEPT ![p] = [@ EXCEPT !.pc = "undo", !.seq = clip.seq]]
  /\ UNCHANGED <<clipboard, worker, lingering, target, ledger>>

StillOurs(p) == clip.seq = broker[p].seq /\ clip.owner = p

(* restore: nothing of the clipboard is touched unless it still holds the   *)
(* broker's item; only a restore that opened it ends the rendering.         *)
Answer(p, end) == IF broker[p].pc = "undo" THEN "failed" ELSE end
Closes(p, end) ==
  broker' = [broker EXCEPT ![p] = [@ EXCEPT !.pc = "closing", !.end = end, !.renders = FALSE,
                                                !.response = Answer(p, end)]]
PutBack(p) ==
  \/ /\ UNCHANGED clip
     /\ BrokerEnds(p, "notRestored", Answer(p, "notRestored"))
  \/ /\ StillOurs(p)
     /\ UNCHANGED clip
     /\ Closes(p, "notRestored")
  \/ /\ StillOurs(p)
     /\ clip' = [item |-> Part, owner |-> p, seq |-> clip.seq + 1, rendered |-> TRUE]
     /\ Closes(p, "notRestored")
  \/ /\ StillOurs(p)
     /\ clip' = [item |-> broker[p].saved, owner |-> p, seq |-> clip.seq + 1, rendered |-> TRUE]
     /\ Closes(p, "restored")

Undo(p) ==
  /\ broker[p].pc = "undo"
  /\ ~ClipboardOpen
  /\ PutBack(p)
  /\ UNCHANGED <<newest, worker, lingering, target, ledger>>

Restore(p) ==
  /\ broker[p].pc = "restore"
  /\ ~ClipboardOpen
  /\ PutBack(p)
  /\ UNCHANGED <<newest, worker, lingering, target, ledger>>

TakeCommand(p) ==
  /\ broker[p].pc \in {"wait", "reading"}
  /\ LET command == broker[p].command IN
     \/ /\ command = "restore"
        /\ broker' = [broker EXCEPT ![p] = [@ EXCEPT !.pc = "restore", !.command = "closed"]]
     \/ /\ command = "defer"
        /\ broker' = [broker EXCEPT ![p] = [@ EXCEPT !.pc = "reading", !.command = "closed"]]
     \/ command = "abandon" /\ BrokerEnds(p, "kept", "kept")
     \/ command = "closed" /\ broker[p].pc = "wait" /\ BrokerEnds(p, "kept", "kept")
  /\ UNCHANGED <<clipboard, worker, lingering, target, ledger>>

(* wait_for_reader: the target's read and its grace, or the end of the wait *)
AwaitReader(p) ==
  /\ broker[p].pc = "reading"
  /\ \/ ~StillOurs(p) /\ BrokerEnds(p, "notRestored", "notRestored")
     \/ StillOurs(p) /\ broker[p].noted /\ BrokerGoes(p, "restore")
     \/ StillOurs(p) /\ ~broker[p].noted /\ BrokerEnds(p, "unread", "notRestored")
  /\ UNCHANGED <<clipboard, worker, lingering, target, ledger>>

(* The broker window is destroyed: an owner still rendering renders first,  *)
(* if it can open the clipboard.  What nobody rendered goes with the window.*)
CloseWindow(p) ==
  /\ broker[p].pc = "closing"
  /\ ~ClipboardOpen
  /\ IF clip.owner = p
     THEN \E opened \in BOOLEAN :
            clip' = [clip EXCEPT
              !.owner = NoPaste,
              !.item = IF clip.rendered \/ (opened /\ broker[p].renders) THEN @ ELSE Nothing,
              !.rendered = TRUE]
     ELSE UNCHANGED clip
  /\ broker' = [broker EXCEPT ![p] =
       [BrokerIdle EXCEPT !.pc = "over", !.end = broker[p].end, !.saved = broker[p].saved,
                          !.response = IF p \in lingering THEN "none" ELSE broker[p].response]]
  /\ UNCHANGED <<newest, worker, lingering, target, ledger>>

Broker(p) ==
  \/ BrokerSetup(p) \/ ReadBefore(p) \/ Snapshot(p) \/ Install(p) \/ Fill(p) \/ ReadSequence(p)
  \/ Undo(p) \/ Restore(p) \/ TakeCommand(p) \/ AwaitReader(p) \/ CloseWindow(p)

(***************************************************************************)
(* The worker                                                               *)
(***************************************************************************)
Current == worker.paste
IsCurrent == clip.seq = broker[Current].seq /\ clip.owner = Current

\* Mutants: an unread replacement is not counted; what was never changed is.
LostUnlessUnread(p) == broker[p].end = "notRestored"

Lost(p) == broker[p].end \in {"notRestored", "unread"}

(* log_finished_clipboard_brokers, before every event: the brokers that are *)
(* over are joined, and a clipboard that did not come back is counted.      *)
Reap ==
  LET over == {p \in lingering : Over(p)} IN
  /\ lingering' = lingering \ over
  /\ counted' = [p \in Pastes |-> counted[p] + IF p \in over /\ Lost(p) THEN 1 ELSE 0]

NextEvent ==
  /\ worker.pc = "idle" /\ \E p \in lingering : Over(p)
  /\ Reap
  /\ UNCHANGED <<clipboard, broker, worker, target, panicked>>

(* The word typed since ended any selection of an earlier paste.            *)
StartPaste ==
  /\ worker.pc = "idle" /\ worker.paste < MaxPastes
  /\ Reap
  /\ \E attempts \in {1, SelectAttempts} :
       worker' = [WorkerIdle EXCEPT !.pc = "select", !.paste = Current + 1, !.attempts = attempts]
  /\ field' = "clear"
  /\ UNCHANGED <<clipboard, broker, pending, got, otherRead, panicked>>

Finish(outcome) ==
  worker' = [WorkerIdle EXCEPT !.paste = Current, !.submitted = worker.submitted, !.outcome = outcome]

(* abandon_selection: once the user acted the selection is left alone.      *)
Abandon(outcome) == worker' = [worker EXCEPT !.pc = "collapse", !.outcome = outcome]

(* collapse_selection: what is read back empty is collapsed, whether the    *)
(* selection was shown or is still to come.                                 *)
Collapsed(done, left) ==
  \/ field' = (IF field = "selected" THEN "clear" ELSE field) /\ done
  \/ UNCHANGED field /\ left
  \/ field' = (IF field = "selected" THEN "clear" ELSE field) /\ left

EndSelection ==
  /\ worker.pc = "collapse"
  /\ \/ ~worker.guard /\ Finish("selectionLeft") /\ UNCHANGED field
     \/ worker.guard /\ Collapsed(Finish(worker.outcome), Finish("selectionLeft"))
  /\ UNCHANGED <<clipboard, broker, lingering, pending, got, otherRead, ledger>>

(* The guard and the budget are asked before the field; a field that cannot *)
(* be read, or shows other text, is left alone, but a selection found by a  *)
(* later attempt is an earlier attempt's, shown late.  An unreadable field  *)
(* may hide such a selection (stray).                                       *)
SelectRead ==
  /\ worker.pc = "select"
  /\ \/ /\ \E status \in {"cancelled", "unsupported"} : Finish(status)
        /\ field' = IF field = "selected" THEN "stray" ELSE field
     \/ /\ worker.tries > 0 /\ field = "selected"
        /\ Collapsed(Finish("cancelled"), Finish("selectionLeft"))
  /\ UNCHANGED <<clipboard, broker, lingering, pending, got, otherRead, ledger>>

(* Select(): the field may show the selection now, later or never, and the  *)
(* call may fail after the field applied it.                                *)
SelectCall ==
  /\ worker.pc = "select" /\ field # "selected"
  /\ \E shown \in {"selected", "late", "clear"} : field' = IF field = "late" THEN "late" ELSE shown
  /\ \E returned \in {"confirm", "refused"} :
       worker' = [worker EXCEPT !.pc = returned, !.tries = @ + 1]
  /\ UNCHANGED <<clipboard, broker, lingering, pending, got, otherRead, ledger>>

FailedCall ==
  /\ worker.pc = "refused"
  /\ Collapsed(Finish("cancelled"), Finish("selectionLeft"))
  /\ UNCHANGED <<clipboard, broker, lingering, pending, got, otherRead, ledger>>

(* confirm_selection: a confirmed selection stays; every other one is       *)
(* collapsed, and only one that was not shown is tried again.               *)
Confirmed ==
  /\ worker.pc = "confirm" /\ field = "selected"
  /\ worker' = [worker EXCEPT !.pc = "begin", !.tries = 0, !.attempts = 1]
  /\ UNCHANGED <<clipboard, broker, lingering, target, ledger>>

NotConfirmed ==
  /\ worker.pc = "confirm"
  /\ \E found \in {"notShown", "otherText", "unreadable"} :
       Collapsed(IF found = "notShown" /\ worker.tries < worker.attempts
                 THEN \/ WorkerGoes("select")
                      \/ Finish("cancelled")
                 ELSE Finish(IF found = "unreadable" THEN "unsupported" ELSE "cancelled"),
                 Finish("selectionLeft"))
  /\ UNCHANGED <<clipboard, broker, lingering, pending, got, otherRead, ledger>>

(* begin: refused for want of time, or while an earlier broker runs.        *)
Busy == \E p \in lingering : ~Over(p)

Begin ==
  /\ worker.pc = "begin"
  /\ \/ Abandon("cancelled") /\ UNCHANGED broker
     \/ /\ ~Busy
        /\ BrokerGoes(Current, "start")
        /\ WorkerGoes("install")
  /\ UNCHANGED <<clipboard, lingering, target, ledger>>

Installed ==
  /\ worker.pc = "install" /\ broker[Current].response = "installed"
  /\ WorkerGoes("ready")
  /\ UNCHANGED <<clipboard, broker, lingering, target, ledger>>

(* Refused, or not answered in time: the broker must not install any more,  *)
(* and puts the user's clipboard back if it already did.                    *)
GiveUpInstall(p) ==
  broker' = [broker EXCEPT ![p] = [@ EXCEPT !.cancelled = TRUE, !.command = "restore"]]

NotInstalled ==
  /\ worker.pc = "install" /\ broker[Current].response # "installed"
  /\ IF Over(Current) THEN UNCHANGED broker ELSE GiveUpInstall(Current)
  /\ lingering' = lingering \cup {Current}
  /\ Abandon("cancelled")
  /\ UNCHANGED <<clipboard, target, ledger>>

Command(p, command) == broker' = [broker EXCEPT ![p] = [@ EXCEPT !.command = command]]

(* restore_waiting: another program's item stays.                           *)
RestoreThen(then) ==
  /\ Command(Current, IF IsCurrent THEN "restore" ELSE "abandon")
  /\ worker' = [worker EXCEPT !.pc = "restoring", !.then = then]

Cancel ==
  /\ worker.pc = "ready"
  /\ RestoreThen("abandon")
  /\ UNCHANGED <<clipboard, lingering, target, ledger>>

MaySubmit == IsCurrent /\ worker.guard

(* defer: the broker waits for the reader by itself.                        *)
Unconfirmed(p) == Command(p, "defer")

Defer ==
  /\ Unconfirmed(Current)
  /\ lingering' = lingering \cup {Current}

(* Ctrl+V, whole or in part; a part may paste too.                          *)
Submit ==
  /\ worker.pc = "ready" /\ MaySubmit
  /\ worker' = [worker EXCEPT !.pc = "sent", !.submitted = TRUE]
  /\ pending' \in {pending \cup {Current}, pending}
  /\ UNCHANGED <<clipboard, broker, lingering, field, got, otherRead, ledger>>

(* Sent in part, or not shown by the field in time.                         *)
NotCommitted ==
  /\ worker.pc = "sent"
  /\ Defer /\ Abandon("failed")
  /\ UNCHANGED <<clipboard, target, ledger>>

Shows(p) == got[p] = Text(p)

Committed ==
  /\ worker.pc = "sent" /\ Shows(Current)
  /\ RestoreThen("switch")
  /\ UNCHANGED <<clipboard, lingering, target, ledger>>

Answered == broker[Current].response \notin {"none", "installed"} /\ Current \notin lingering

AfterRestore(restored) ==
  IF worker.then = "abandon"
  THEN Abandon("cancelled")
  ELSE worker' = [worker EXCEPT !.pc = "switch",
                                !.outcome = IF restored THEN "applied" ELSE "appliedNotRestored"]

(* A broker that answered is joined; what did not come back is counted.     *)
RestoreAnswered ==
  /\ worker.pc = "restoring" /\ Answered /\ Over(Current)
  /\ counted' = [counted EXCEPT ![Current] =
                   @ + IF broker[Current].response = "restored" \/ worker.then = "unwind" THEN 0 ELSE 1]
  /\ IF worker.then = "unwind" THEN Finish("panic")
     ELSE AfterRestore(broker[Current].response = "restored")
  /\ UNCHANGED <<clipboard, broker, lingering, target, panicked>>

RestoreLate ==
  /\ worker.pc = "restoring" /\ ~Answered
  /\ lingering' = lingering \cup {Current}
  /\ IF worker.then = "unwind" THEN Finish("panic") ELSE AfterRestore(FALSE)
  /\ UNCHANGED <<clipboard, broker, target, ledger>>

(* The layout switch and the second commit check.                           *)
SwitchLayout ==
  /\ worker.pc = "switch"
  /\ \E outcome \in {worker.outcome, "failed"} : Finish(outcome)
  /\ UNCHANGED <<clipboard, broker, lingering, target, ledger>>

(* A contained panic drops the ProtectedClipboard.                          *)
Unwind ==
  /\ worker.pc \in {"ready", "sent"} /\ Cardinality(panicked) < MaxPanics
  /\ panicked' = panicked \cup {Current}
  /\ IF worker.submitted
     THEN Defer /\ Finish("panic")
     ELSE RestoreThen("unwind") /\ UNCHANGED lingering
  /\ UNCHANGED <<clipboard, target, counted>>

WorkerStep ==
  \/ NextEvent \/ SelectRead \/ SelectCall \/ FailedCall \/ Confirmed \/ NotConfirmed \/ EndSelection
  \/ Begin \/ Installed \/ NotInstalled \/ Cancel \/ Submit \/ NotCommitted \/ Committed
  \/ RestoreAnswered \/ RestoreLate \/ SwitchLayout

(***************************************************************************)
(* The target, the user and other programs                                  *)
(***************************************************************************)
(* A request for the replacement's text is served by the broker's message   *)
(* loop, which notes the reader.                                            *)
Serves(p) == broker[p].pc \in {"wait", "reading"}
Unrendered == clip.item.kind = "text" /\ ~clip.rendered

(* replacement_read_by: the target's process, or a reader without a window  *)
(* once Ctrl+V was sent.                                                    *)
CountsAsRead(p, who) ==
  \/ who = "target"
  \/ who = "windowless" /\ p = Current /\ worker.submitted
  \/ who = "windowless" /\ p # Current

Render(p, who) ==
  /\ Serves(p)
  /\ clip' = [clip EXCEPT !.rendered = TRUE]
  /\ broker' = [broker EXCEPT ![p] = [@ EXCEPT !.noted = CountsAsRead(p, who)]]

TargetPastes ==
  \E p \in pending :
    /\ \A q \in pending : p <= q
    /\ ~ClipboardOpen
    /\ pending' = pending \ {p}
    /\ got' = [got EXCEPT ![p] = clip.item]
    /\ IF Unrendered
       THEN /\ \E who \in {"target", "windowless"} : Render(clip.item.n, who)
            /\ otherRead' = IF clip.item.n = p THEN otherRead ELSE otherRead \cup {clip.item.n}
       ELSE UNCHANGED <<clip, broker, otherRead>>
    /\ field' = IF field = "selected" /\ p = Current /\ clip.item # Nothing THEN "clear" ELSE field
    /\ UNCHANGED <<newest, worker, lingering, ledger>>

(* A clipboard listener: the target's own look, a manager with a window, a  *)
(* reader without one.                                                      *)
OtherReads ==
  /\ Unrendered /\ ~ClipboardOpen
  /\ \E who \in {"target", "windowless", "manager"} :
       /\ Render(clip.item.n, who)
       /\ otherRead' = otherRead \cup {clip.item.n}
  /\ UNCHANGED <<newest, worker, lingering, field, pending, got, ledger>>

Copy ==
  /\ newest < MaxCopies /\ ~ClipboardOpen
  /\ newest' = newest + 1
  /\ clip' = [item |-> Copied(newest'), owner |-> NoPaste, seq |-> clip.seq + 1, rendered |-> TRUE]
  /\ UNCHANGED <<broker, worker, lingering, target, ledger>>

(* New input, a click or another field.                                     *)
UserActs ==
  /\ worker.pc # "idle" /\ worker.guard
  /\ worker' = [worker EXCEPT !.guard = FALSE]
  /\ UNCHANGED <<clipboard, broker, lingering, target, ledger>>

FieldShows ==
  /\ field = "late"
  /\ field' = IF worker.pc = "idle" THEN "stray" ELSE "selected"
  /\ UNCHANGED <<clipboard, broker, worker, lingering, pending, got, otherRead, ledger>>

World == TargetPastes \/ OtherReads \/ Copy \/ UserActs \/ FieldShows

Next == StartPaste \/ Unwind \/ WorkerStep \/ World \/ \E p \in Pastes : Broker(p)

(* Both threads run, and every wait of theirs has a limit; words to paste,  *)
(* panics, the target, the user and other programs owe nothing.             *)
Spec == Init /\ [][Next]_vars /\ WF_vars(WorkerStep) /\ \A p \in Pastes : WF_vars(Broker(p))

-----------------------------------------------------------------------------
(* What a paste promises about the clipboard and the field. *)

Fields == {"clear", "late", "selected", "stray"}
BrokerPcs == {"none", "start", "copy", "snapshot", "install", "fill", "filled", "emptied", "undo",
              "wait", "reading", "restore", "closing", "over"}
Ends == {"running", "untouched", "restored", "notRestored", "kept", "unread"}

(* The state is well typed; a clipboard is counted at most once.            *)
TypeOK ==
  /\ clip.item \in Items /\ clip.owner \in 0..MaxPastes /\ clip.rendered \in BOOLEAN
  /\ newest \in 0..MaxCopies
  /\ \A p \in Pastes : broker[p].pc \in BrokerPcs /\ broker[p].end \in Ends
                       /\ broker[p].saved \in Items /\ broker[p].attempts \in 1..InstallAttempts
  /\ worker.paste \in 0..MaxPastes
  /\ lingering \subseteq Pastes /\ pending \subseteq Pastes /\ otherRead \subseteq Pastes
  /\ field \in Fields /\ got \in [Pastes -> Items \cup {NotYet}]

(* Only the agent's own lending and giving back changes the clipboard       *)
(* without a program copying, and what a program copied is never replaced   *)
(* unless the broker that replaces it saved exactly that.                   *)
OthersCopyKept ==
  [][ clip.item.kind = "copied" /\ clip'.item # clip.item /\ newest' = newest
      => \E p \in Pastes : broker[p].pc = "install" /\ broker[p].saved = clip.item ]_vars

(* What a paste that reaches the field late inserts is never the item the   *)
(* replacement stands in for, unless something the broker cannot tell from  *)
(* the paste read the replacement before.                                   *)
LatePasteNeverUsersOwn ==
  \A p \in Pastes : got[p].kind = "copied" /\ got[p] = broker[p].saved => p \in otherRead

(* What a broker saved is what some program copied, or what an earlier      *)
(* broker left for good: never the replacement of a broker still running.   *)
SavesUsersClipboard ==
  \A p \in Pastes : broker[p].pc = "install" /\ MayInstall(p) /\ broker[p].saved.kind = "text"
                    => Over(broker[p].saved.n)

(* Once every broker is over and reaped, the user's newest item is on the   *)
(* clipboard, or exactly one paste since it was copied was counted.         *)
LossCounted ==
  (worker.pc = "idle" /\ lingering = {} /\ clip.item # Copied(newest))
  => \E p \in Pastes : counted[p] = 1 \/ p \in panicked

(* A clipboard that did not come back is counted once.                      *)
CountedOnce == \A p \in Pastes : counted[p] <= 1 /\ (counted[p] = 1 => broker[p].end \notin {"running", "untouched", "restored"})

(* A replacement stays on the clipboard of a broker that is over only when  *)
(* its target never read it or the restore could not open the clipboard;    *)
(* never for a paste that was given up before Ctrl+V and restored.          *)
ReplacementLeftKnown ==
  \A p \in Pastes : Over(p) /\ clip.item = Text(p) => broker[p].end \in {"unread", "notRestored"} \/
      \E q \in Pastes : q > p /\ broker[q].saved = Text(p)

(* A selection the agent made and the field showed is gone when the attempt *)
(* ends, or the attempt ends as SelectionLeft, which keeps the held keys    *)
(* from being typed over it.                                                *)
SelectionAccounted ==
  worker.pc = "idle" /\ field = "selected" => worker.outcome \in {"selectionLeft", "panic"}

(* Every broker ends, whatever the worker, the target and others do.        *)
BrokersEnd == \A p \in Pastes : broker[p].pc # "none" ~> Over(p)

(* The clipboard stays the user's: what a program copied is never replaced unsaved, and every broker ends    *)
(* and gives back what it borrowed (paste_protected_text, restore).                                           *)
ClipboardStaysTheUsers == OthersCopyKept /\ BrokersEnd

(* Whatever is not given back is known: a clipboard that did not come back is counted once, a replacement    *)
(* is left only where it may still be read, a selection the agent made is gone or reported, and the user's    *)
(* own item is neither pasted in place of a replacement nor mistaken for one.                                 *)
PasteAccounted ==
  /\ TypeOK
  /\ LossCounted /\ CountedOnce
  /\ ReplacementLeftKnown
  /\ SelectionAccounted
  /\ LatePasteNeverUsersOwn /\ SavesUsersClipboard
=============================================================================
