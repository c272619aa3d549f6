---- MODULE HotkeyCapture ----
(***************************************************************************)
(* The settings window records a hotkey: with every key up it installs a keyboard hook of its own, which *)
(* swallows the keys while the window owns the foreground, and a timer of the window takes what the   *)
(* hook made of them. The hook and the timer share an update that a later one overwrites.              *)
(*                                                                           *)
(* A key the hook swallows never reaches the state of the keyboard that GetAsyncKeyState reports: what *)
(* the system knows to be down is what it let through.                                       *)
(***************************************************************************)
EXTENDS Naturals, FiniteSets

CONSTANTS
  None,
  Keys,         \* the keys of the keyboard, by name
  Deadline,     \* ticks after which a capture is cancelled
  ReleaseWait,  \* ticks a capture waits for the keys that selected it
  MaxStarts,    \* bound: captures started
  MaxChanges,   \* bound: changes of the page, of its switch and of the foreground
  MaxHeld       \* bound: keys held at once

VARIABLES
  held,      \* the keys held down
  shown,     \* the keys whose key-down the system saw, and not yet their key-up
  capture,   \* the capture: WAITING, CAPTURE with its dispatch, and ABORT_CAPTURE
  window,    \* what the user does with the window: the hotkey's page, the hotkey on, the foreground
  hotkey,    \* the hotkey of the draft
  press      \* history: the keys held when the chord was chosen

hvars == <<held, shown, capture, window, hotkey, press>>

(*                        the rules of a hotkey                        *)
Modifiers == {"ctrl", "alt", "shift", "win"}
Ordinary == {"a", "1"}
Special == {"pause", "f12"}

(* A letter or digit with Shift alone, or with AltGr, types text. *)
TypesText(key, mods) ==
  key \in Ordinary /\ (mods = {"shift"} \/ (mods \cap {"ctrl", "alt", "win"} = {"ctrl", "alt"}))
Valid(key, mods) == key \in Special \/ (key \in Ordinary /\ mods # {} /\ ~TypesText(key, mods))

(*                        the hook                        *)
Off == [phase |-> "off", pressed |-> {}, chosen |-> None, pending |-> None, finished |-> FALSE,
        aborted |-> FALSE, age |-> 0]
Update(kind, choice) == [kind |-> kind, hotkey |-> choice]

(* CaptureKeys::event: Pause may come without a key-up, so nothing waits for it. *)
Pressed(key, down) ==
  IF down THEN capture.pressed \cup ({key} \ {"pause"}) ELSE capture.pressed \ {key}
Chord(key, pressed) == [key |-> key, modifiers |-> pressed \cap Modifiers]
Event(key, down) ==
  LET pressed == Pressed(key, down)
      chord == Chord(key, pressed)
  IN  CASE key = "esc" /\ down -> Update("cancel", None)
        [] capture.chosen # None ->
             IF pressed = {} THEN Update("finished", capture.chosen) ELSE Update("pending", None)
        [] ~down \/ key \in Modifiers -> Update("pending", None)
        [] TypesText(key, chord.modifiers) -> Update("refused", None)
        [] Valid(key, chord.modifiers) -> Update(IF pressed = {} THEN "finished" ELSE "chosen", chord)
        [] OTHER -> Update("invalid", None)

(* CaptureDispatch::accept: after the last update every key passes. *)
Accepted(key, down) ==
  LET update == Event(key, down)
      stops == key = "esc" /\ down
  IN  [capture EXCEPT
        !.pressed = IF stops \/ update.kind = "finished" THEN {} ELSE Pressed(key, down),
        !.chosen = IF update.kind \in {"chosen", "finished"} THEN update.hotkey ELSE @,
        !.pending = IF update.kind = "pending" THEN @ ELSE update,
        !.finished = update.kind \in {"finished", "cancel"}]

Hooked == capture.phase = "on"
Takes == Hooked /\ ~capture.aborted /\ window.front /\ capture.age < Deadline
Aborted == [Off EXCEPT !.phase = "on", !.aborted = TRUE]    \* what else it holds no longer matters
HookSees(key, down) ==
  capture' = IF Takes /\ ~capture.finished THEN Accepted(key, down)
             ELSE IF Hooked /\ ~Takes THEN Aborted ELSE capture
Swallowed == Takes /\ ~capture.finished

KeyDown(key) ==
  /\ key \notin held \/ key \in Ordinary    \* a held key may repeat
  /\ Cardinality(held \cup {key}) <= MaxHeld
  /\ held' = held \cup {key} /\ HookSees(key, TRUE)
  /\ shown' = IF Swallowed THEN shown ELSE shown \cup {key}
  /\ press' = IF Swallowed /\ capture.chosen = None /\ Event(key, TRUE).kind \in {"chosen", "finished"}
                THEN held \cup {key} ELSE press
  /\ UNCHANGED <<window, hotkey>>
KeyUp(key) ==
  /\ key \in held /\ held' = held \ {key} /\ HookSees(key, FALSE)
  /\ shown' = IF Swallowed THEN shown ELSE shown \ {key}
  /\ UNCHANGED <<window, hotkey, press>>

(*                        the window                        *)
Released == shown = {}
InPlace == window.page /\ window.enabled
Stopped == [Off EXCEPT !.aborted = capture.aborted]

(* start_step *)
Step(waited) ==
  IF ~InPlace THEN "off"
  ELSE IF ~window.front THEN "off"
  ELSE IF Released THEN "hooking" ELSE IF waited < ReleaseWait THEN "waiting" ELSE "off"
Start ==
  /\ capture.phase # "hooking" /\ window.front /\ window.page /\ window.starts < MaxStarts
  /\ window' = [window EXCEPT !.starts = @ + 1]
  /\ capture' = [Off EXCEPT !.phase = Step(0)]
  /\ press' = {} /\ UNCHANGED <<held, shown, hotkey>>
WaitTimer ==
  /\ capture.phase = "waiting"
  /\ capture' = [Off EXCEPT !.phase = Step(capture.age),
                            !.age = IF Step(capture.age) = "waiting" THEN capture.age ELSE 0]
  /\ UNCHANGED <<held, shown, window, hotkey, press>>

(* begin: the keys are looked at again once the hook is there, and the installation may fail. *)
Begin ==
  /\ capture.phase = "hooking"
  /\ \/ Released /\ capture' = [capture EXCEPT !.phase = "on"]
     \/ capture' = Stopped
  /\ UNCHANGED <<held, shown, window, hotkey, press>>

(* process_pending_update: the window as it is decides before the update does. *)
Cancelled == capture.aborted \/ capture.age >= Deadline \/ ~window.front \/ ~InPlace
(* Mutant: an update is taken wherever the window is by then. *)
TakeAnywhere ==
  /\ Hooked
  /\ LET update == IF capture.aborted \/ capture.age >= Deadline THEN Update("cancel", None) ELSE capture.pending
     IN  /\ hotkey' = IF update # None /\ update.kind = "finished" THEN update.hotkey ELSE hotkey
         /\ capture' = IF update # None /\ update.kind \in {"finished", "cancel"} THEN Stopped
                       ELSE [capture EXCEPT !.pending = None]
  /\ UNCHANGED <<held, shown, window, press>>
TakeUpdate ==
  /\ Hooked
  /\ LET update == IF Cancelled THEN Update("cancel", None) ELSE capture.pending
     IN  /\ hotkey' = IF update # None /\ update.kind = "finished" THEN update.hotkey ELSE hotkey
         /\ capture' = IF update # None /\ update.kind \in {"finished", "cancel"} THEN Stopped
                       ELSE [capture EXCEPT !.pending = None]
  /\ UNCHANGED <<held, shown, window, press>>

(* The buttons that end a capture: cancel, save, close, an import, a package. *)
Stop ==
  /\ capture.phase \in {"waiting", "on"} /\ capture' = Stopped
  /\ UNCHANGED <<held, shown, window, hotkey, press>>

(* Another page, the hotkey switched off or on, another program in front: the window is told of none *)
(* of it. The first two wait for the window's thread.                                       *)
WindowChanges ==
  /\ window.changes < MaxChanges
  /\ \E part \in {"page", "enabled", "front"} :
       /\ part # "front" => capture.phase # "hooking" /\ window.front
       /\ window' = [window EXCEPT ![part] = ~@, !.changes = @ + 1]
  /\ UNCHANGED <<held, shown, capture, hotkey, press>>

HTick ==
  /\ capture.phase \in {"waiting", "on"} /\ capture.age < (IF capture.phase = "on" THEN Deadline ELSE ReleaseWait)
  /\ capture' = [capture EXCEPT !.age = @ + 1]
  /\ UNCHANGED <<held, shown, window, hotkey, press>>

HInit ==
  /\ held \in {{}, {"ctrl"}} /\ shown = held /\ capture = Off /\ hotkey = [key |-> "pause", modifiers |-> {}]
  /\ window = [page |-> TRUE, enabled |-> TRUE, front |-> TRUE, starts |-> 0, changes |-> 0] /\ press = {}

HNext ==
  \/ \E key \in Keys : KeyDown(key) \/ KeyUp(key)
  \/ Start \/ WaitTimer \/ Begin \/ TakeUpdate \/ Stop \/ WindowChanges \/ HTick

(*                        properties                        *)
(* The hook never keeps a key down: a key the programs saw go down and not come up is one the user   *)
(* still holds, however a capture begins, is aborted or ends while keys are held.               *)
KeysStayPaired == shown \subseteq held

(* A capture changes the hotkey only where the user sees it, on the hotkey's page with the hotkey on  *)
(* and the window in front, and to a chord the user pressed that types no text; what the hook found   *)
(* before the user went elsewhere is thrown away.                                            *)
ChosenInPlace ==
  [][hotkey' # hotkey =>
       /\ InPlace /\ window.front /\ ~capture.aborted
       /\ hotkey'.modifiers \cup {hotkey'.key} \subseteq press
       /\ Valid(hotkey'.key, hotkey'.modifiers)]_hvars
====
