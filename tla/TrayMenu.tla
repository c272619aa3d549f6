---- MODULE TrayMenu ----
(***************************************************************************)
(* Keys held back by a broken gate, and who may send them. The worker, the UI thread in its place, the   *)
(* hotkey once the menu of the tray icon armed it, and the questions the menu asks all act on the one     *)
(* record there is. A menu and a question each run a message loop of their own: while one is open the     *)
(* worker and the timers go on, records end, others are made, and a menu opens over a question; what was  *)
(* chosen is done later, to the record there is then.                                                     *)
(*                                                                                                        *)
(* A record is here as it stands once the drain of its gate returned; what comes in between, and how the  *)
(* worker decides whether the field is still the record's, is the subject of CorrectionGate.              *)
(***************************************************************************)
EXTENDS Naturals, Sequences, FiniteSets

CONSTANTS
  None,
  Room,       \* bound: requests that wait in the worker's queue
  MaxRecords, \* bound: records of held keys
  MaxMenus    \* bound: menus opened

VARIABLES
  agent,     \* the worker's life, the record of held keys, and whether the hotkey is armed for it
  requests,  \* the queue: recoveries asked of the worker
  recovery,  \* the recovery the worker is at
  menu,      \* what the open menu was built from
  chosen,    \* the command a menu posted
  questions, \* the open questions, the last one on top
  history    \* the recoveries prepared in the menu, and for each record who had its keys sent

mvars == <<agent, requests, recovery, menu, chosen, questions, history>>
tray == <<menu, chosen, questions>>

(*                        the record and its senders                        *)
Records == 1..MaxRecords
(* The keys of a record went out, all or some of them: before it was retained ("drained"), on the       *)
(* request of the menu and the hotkey ("asked"), or on the program's own ("unasked").                     *)
WentOut(token, how) == [history EXCEPT !.sent[token] = Append(@, how)]

(* Whatever is typed or clicked from now on, a request made before is one of the past.                   *)
Stale == [i \in DOMAIN requests |-> [requests[i] EXCEPT !.fresh = FALSE]]
StaleRecovery == IF recovery = None THEN None ELSE [recovery EXCEPT !.fresh = FALSE]
Asking(queue, explicit) ==
  IF agent.dead \/ Len(queue) = Room THEN queue ELSE Append(queue, [explicit |-> explicit, fresh |-> TRUE])

Type ==
  /\ agent' = [agent EXCEPT !.untouched = FALSE]
  /\ requests' = Stale /\ recovery' = StaleRecovery
  /\ UNCHANGED <<tray, history>>

(* break_correction_gate, retain_failed_drain: the keys of a gate that a Space armed, or the worker       *)
(* between two of its events; a record that comes back by itself asks for it.                             *)
Retain(auto, uncertain, typed) ==
  LET token == agent.records + 1 IN
  /\ agent.record = 0 /\ token \in Records /\ (typed \/ recovery = None)
  /\ agent' = [agent EXCEPT !.record = token, !.records = token, !.uncertain = uncertain, !.auto = auto,
                            !.untouched = TRUE, !.recovering = FALSE]
  /\ LET before == IF typed THEN Stale ELSE requests IN
     requests' = IF auto THEN Asking(before, FALSE) ELSE before
  /\ recovery' = IF typed THEN StaleRecovery ELSE recovery
  /\ history' = IF uncertain THEN WentOut(token, "drained") ELSE history
  /\ UNCHANGED tray

(* Mutant: the hotkey reads what is armed and leaves it so. *)
HotkeyReading ==
  /\ agent.record # 0 /\ agent.armed
  /\ agent' = [agent EXCEPT !.untouched = FALSE]
  /\ requests' = Asking(Stale, TRUE) /\ recovery' = StaleRecovery
  /\ UNCHANGED <<tray, history>>
(* The force hotkey uses what is armed up (retained_hotkey_events), also where the queue has no room. *)
Hotkey ==
  /\ agent.record # 0 /\ agent.armed
  /\ agent' = [agent EXCEPT !.untouched = FALSE, !.armed = FALSE]
  /\ requests' = Asking(Stale, TRUE) /\ recovery' = StaleRecovery
  /\ UNCHANGED <<tray, history>>

(*                        the worker                        *)
(* recover_retained_input: of the record there is, whichever one the request was made for. Its field,    *)
(* the modifiers and its privacy may refuse it at either look.                                            *)
Take ==
  LET request == Head(requests)
      looked == [explicit |-> request.explicit, fresh |-> TRUE, token |-> agent.record, stage |-> "read"]
  IN
  /\ ~agent.dead /\ recovery = None /\ requests # <<>>
  /\ requests' = Tail(requests)
  /\ \/ UNCHANGED recovery
     \/ agent.record # 0 /\ (request.explicit \/ ~agent.uncertain) /\ request.fresh /\ recovery' = looked
  /\ UNCHANGED <<agent, tray, history>>

Recheck ==
  /\ recovery # None /\ recovery.stage = "read"
  /\ \/ recovery' = None
     \/ recovery.fresh /\ recovery' = [recovery EXCEPT !.stage = "checked"]
  /\ UNCHANGED <<agent, requests, tray, history>>

(* begin_retained_recovery *)
Begin ==
  /\ recovery # None /\ recovery.stage = "checked"
  /\ IF agent.record = recovery.token /\ ~agent.recovering
       THEN agent' = [agent EXCEPT !.recovering = TRUE] /\ recovery' = [recovery EXCEPT !.stage = "sending"]
       ELSE recovery' = None /\ UNCHANGED agent
  /\ UNCHANGED <<requests, tray, history>>

SentBy(r, took) ==
  IF took = "none" THEN history ELSE WentOut(r.token, IF r.explicit THEN "asked" ELSE "unasked")

(* SendInput takes none, part or all of the keys; finish_retained_recovery. *)
Sent(took) ==
  /\ recovery # None /\ recovery.stage = "sending"
  /\ agent' = CASE agent.record # recovery.token -> agent
                [] agent.record = recovery.token /\ took = "whole" -> [agent EXCEPT !.record = 0, !.recovering = FALSE]
                [] OTHER -> [agent EXCEPT !.recovering = FALSE, !.uncertain = @ \/ took = "part"]
  /\ history' = SentBy(recovery, took)
  /\ recovery' = None
  /\ UNCHANGED <<requests, tray>>

(* record_engine_fault: a panic of the worker, wherever it is; after the last one it is dead. *)
Fault(dies, took) ==
  /\ ~agent.dead
  /\ agent' = IF dies THEN [agent EXCEPT !.dead = TRUE, !.armed = FALSE] ELSE agent
  /\ recovery' = None
  /\ IF recovery # None /\ recovery.stage = "sending" THEN history' = SentBy(recovery, took)
     ELSE took = "none" /\ UNCHANGED history
  /\ UNCHANGED <<requests, tray>>

(*                        the timer of the UI thread                        *)
(* stalled_worker_may_hand_back: in place of a worker that is busy, while nothing was typed or sent. *)
HandBack ==
  /\ agent.record # 0 /\ agent.auto /\ ~agent.recovering /\ ~agent.uncertain /\ agent.untouched
  /\ agent' = [agent EXCEPT !.record = 0, !.armed = FALSE]
  /\ history' = WentOut(agent.record, "unasked")
  /\ UNCHANGED <<requests, recovery, tray>>

(* The lifetime of a record ends, of one being sent some time later (expire_retained_input). *)
Expire ==
  /\ agent.record # 0
  /\ agent' = [agent EXCEPT !.record = 0, !.recovering = FALSE, !.armed = FALSE]
  /\ UNCHANGED <<requests, recovery, tray, history>>

(*                        the menu                        *)
(* show_tray_menu: one menu at a time, built from the state it opens in. *)
Snapshot == [record |-> agent.record, dead |-> agent.dead]
OpenMenu ==
  /\ menu = None /\ chosen = None /\ agent.menus < MaxMenus
  /\ menu' = Snapshot /\ agent' = [agent EXCEPT !.menus = @ + 1]
  /\ UNCHANGED <<requests, recovery, chosen, questions, history>>

(* show_tray_menu_inner: only a worker that runs can type held keys. *)
Items(m) ==
  CASE m.record = 0 -> {}
    [] m.record # 0 /\ m.dead -> {"discard"}
    [] OTHER -> {"recover", "discard"}

(* TrackPopupMenu: the choice is posted and the menu closed. *)
Choose(item) ==
  /\ menu # None /\ (item = None \/ item \in Items(menu))
  /\ menu' = None /\ chosen' = item
  /\ UNCHANGED <<agent, requests, recovery, questions, history>>

(*                        the commands                        *)
(* prepare_retained_recovery: not for a record that is gone, though another one may be there. *)
IsThere(token) == agent.record # 0 /\ agent.record = token
Arm(token) ==
  /\ agent' = [agent EXCEPT !.armed = IsThere(token)]
  /\ history' = IF IsThere(token) THEN [history EXCEPT !.choices = @ + 1] ELSE history

Ask(kind) == questions' = Append(questions, [kind |-> kind, record |-> agent.record])

(* arm_input_recovery: keys that were sent in part are typed again only after a warning. *)
RecoverInput ==
  /\ chosen = "recover" /\ chosen' = None
  /\ IF agent.dead \/ agent.record = 0 THEN UNCHANGED <<agent, questions, history>>
     ELSE IF agent.uncertain THEN Ask("repeat") /\ UNCHANGED <<agent, history>>
     ELSE Arm(agent.record) /\ UNCHANGED questions
  /\ UNCHANGED <<requests, recovery, menu>>

(* discard_retained_input asks in any case. *)
DiscardInput ==
  /\ chosen = "discard" /\ chosen' = None
  /\ Ask("discard")
  /\ UNCHANGED <<agent, requests, recovery, menu, history>>

(* discard_confirmed_retained_input: the record there is, unless it is being typed. *)
Discard ==
  /\ agent' = [agent EXCEPT !.record = IF agent.recovering THEN @ ELSE 0, !.armed = FALSE]
  /\ UNCHANGED history

Answer(yes) ==
  /\ questions # <<>> /\ menu = None /\ chosen = None
  /\ questions' = SubSeq(questions, 1, Len(questions) - 1)
  /\ LET question == questions[Len(questions)] IN
     IF ~yes THEN UNCHANGED <<agent, history>>
     ELSE IF question.kind = "repeat" THEN Arm(question.record) ELSE Discard
  /\ UNCHANGED <<requests, recovery, menu, chosen>>

MInit ==
  /\ agent = [dead |-> FALSE, record |-> 0, records |-> 0, uncertain |-> FALSE, auto |-> FALSE, untouched |-> FALSE,
              recovering |-> FALSE, armed |-> FALSE, menus |-> 0]
  /\ requests = <<>> /\ recovery = None
  /\ menu = None /\ chosen = None /\ questions = <<>>
  /\ history = [choices |-> 0, sent |-> [token \in Records |-> <<>>]]

MNext ==
  \/ Type \/ \E auto, uncertain, typed \in BOOLEAN : Retain(auto, uncertain, typed)
  \/ Hotkey \/ Take \/ Recheck \/ Begin
  \/ \E took \in {"none", "part", "whole"} : Sent(took) \/ \E dies \in BOOLEAN : Fault(dies, took)
  \/ HandBack \/ Expire \/ OpenMenu
  \/ \E item \in {None, "recover", "discard"} : Choose(item)
  \/ RecoverInput \/ DiscardInput
  \/ \E yes \in BOOLEAN : Answer(yes)

(*                        properties                        *)
(* No key goes to the application a second time unless the user asked for it in the menu and at the      *)
(* hotkey, and what they prepared in the menu once is sent once at most: over requests that wait, records *)
(* that end and follow each other, warnings answered late, parts taken by SendInput and panics in between *)
(* (recover_retained_input, begin_ and finish_retained_recovery, the swap of recovery_armed).             *)
AskedSends == {<<token, i>> \in Records \X (1..MaxMenus + 2) :
                 i \in DOMAIN history.sent[token] /\ history.sent[token][i] = "asked"}
RepeatsAreChosen ==
  /\ \A token \in Records : \A i \in DOMAIN history.sent[token] \ {1} : history.sent[token][i] = "asked"
  /\ Cardinality(AskedSends) <= history.choices
====
