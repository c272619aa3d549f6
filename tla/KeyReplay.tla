---- MODULE KeyReplay ----
(***************************************************************************)
(* What the worker knows of a key that was typed: the modifiers it tracks from the edges the hook     *)
(* saw, the key as it will be typed again, and the input that types it. Edges on another desktop, as  *)
(* of a security prompt, reach no hook; edges that find the queue full are lost.                 *)
(*                                                                           *)
(* A modifier is a record of its class ("shift", "control", "alt", "win") and its side. What a key    *)
(* prints is given by the layout; what Windows makes of an input is part of the keyboard's tables.    *)
(***************************************************************************)
EXTENDS Naturals, Sequences, FiniteSets

CONSTANTS
  None,
  Modifiers,    \* the modifier keys of the keyboard
  QueueRoom,    \* bound: edges the worker has not taken
  MaxSwitches,  \* bound: changes of the focus
  MaxEdges,     \* bound: edges given
  Printed(_, _, _, _) \* what a virtual key prints in a layout, with Shift and with Caps Lock

ReplayAssumption == QueueRoom \in Nat \ {0} /\ MaxSwitches \in Nat /\ MaxEdges \in Nat

Letter == [class |-> "letter", side |-> "none"]

VARIABLES
  keyboard,  \* keys down as Windows reports them, the desktop, and modifiers pressed unseen
  edge,      \* the edge the hook is at
  edges,     \* edges queued for the worker
  worker,    \* the modifiers it tracks, the focus it knows, whether it must take them over
  typed      \* history: the last letter taken, with what the hook found held

kvars == <<keyboard, edge, edges, worker, typed>>

OfClass(keys, class) == {k \in keys : k.class = class}
Classes == {k.class : k \in Modifiers}

(*                        the hook                        *)
(* held_modifiers_for_event: the state does not show the edge itself yet. *)
HeldWith(key, down) ==
  (IF down THEN keyboard.down \cup {key} ELSE keyboard.down \ {key}) \cap Modifiers

Edge(key, down) ==
  /\ keyboard.desktop = "own" /\ edge = None /\ keyboard.given < MaxEdges
  /\ down <=> (key \notin keyboard.down)
  /\ edge' = [key |-> key, down |-> down]
  /\ LET event == [key |-> key, down |-> down, held |-> HeldWith(key, down), focus |-> keyboard.focus,
                   unseen |-> keyboard.unseen, reset |-> keyboard.lost]
     IN  IF Len(edges) < QueueRoom
         THEN edges' = Append(edges, event) /\ keyboard' = [keyboard EXCEPT !.given = @ + 1, !.lost = FALSE]
         ELSE edges' = edges /\ keyboard' = [keyboard EXCEPT !.given = @ + 1, !.lost = TRUE]
  /\ UNCHANGED <<worker, typed>>

(* The hook returns, and Windows takes the edge up. *)
Apply ==
  /\ edge # None
  /\ keyboard' = [keyboard EXCEPT
       !.down = IF edge.down THEN @ \cup {edge.key} ELSE @ \ {edge.key},
       !.unseen = @ \ {edge.key}]
  /\ edge' = None
  /\ UNCHANGED <<edges, worker, typed>>

UnseenEdge(key) ==
  /\ keyboard.desktop = "secure" /\ keyboard.given < MaxEdges /\ key \in Modifiers
  /\ keyboard' = [keyboard EXCEPT
       !.given = @ + 1,
       !.down = IF key \in @ THEN @ \ {key} ELSE @ \cup {key},
       !.unseen = IF key \in keyboard.down THEN @ \ {key} ELSE @ \cup {key}]
  /\ UNCHANGED <<edge, edges, worker, typed>>

Desktop ==
  /\ edge = None
  /\ keyboard' = [keyboard EXCEPT !.desktop = IF @ = "own" THEN "secure" ELSE "own"]
  /\ UNCHANGED <<edge, edges, worker, typed>>

FocusChanges ==
  /\ keyboard.focus < MaxSwitches
  /\ keyboard' = [keyboard EXCEPT !.focus = @ + 1]
  /\ UNCHANGED <<edge, edges, worker, typed>>

(*                        the worker                        *)
Update(tracked, key, down) ==
  IF key \notin Modifiers THEN tracked ELSE IF down THEN tracked \cup {key} ELSE tracked \ {key}

(* Mutant: a modifier whose release was not seen stays. *)
ForgetNothing(tracked, held) == tracked
ForgetReleased(tracked, held) == {k \in tracked : OfClass(held, k.class) # {}}

TakenOver(event) ==
  IF event.focus # worker.focus \/ event.reset \/ worker.resync THEN event.held ELSE worker.tracked

Take ==
  /\ edges # <<>>
  /\ LET event == Head(edges)
         updated == Update(TakenOver(event), event.key, event.down)
         tracked == IF event.down /\ event.key \notin Modifiers THEN ForgetReleased(updated, event.held) ELSE updated
     IN  /\ worker' = [tracked |-> tracked, focus |-> event.focus, resync |-> FALSE]
         /\ typed' = IF event.key = Letter /\ event.down
                     THEN [held |-> event.held, unseen |-> event.unseen, tracked |-> tracked] ELSE typed
  /\ edges' = Tail(edges)
  /\ UNCHANGED <<keyboard, edge>>

KInit ==
  /\ keyboard = [down |-> {}, desktop |-> "own", unseen |-> {}, focus |-> 0, lost |-> FALSE, given |-> 0]
  /\ edge = None /\ edges = <<>> /\ typed = None
  /\ worker = [tracked |-> {}, focus |-> 0, resync |-> TRUE]

KNext ==
  \/ \E key \in Modifiers \cup {Letter}, down \in BOOLEAN : Edge(key, down)
  \/ Apply \/ Desktop \/ FocusChanges \/ Take
  \/ \E key \in Modifiers : UnseenEdge(key)

(*                        what is typed again                        *)
Shortcut(tracked) == \E k \in tracked : k.class # "shift"
Shifted(tracked) == OfClass(tracked, "shift") # {}

(* A key is a virtual key with its scan code; a keypad digit shares its scan code with a navigation key,  *)
(* Pause shares Num Lock's. An input says which of the two codes counts.                            *)
ByVirtualKey(key) == key.scan = None \/ key.kind \in {"digit", "pause", "numlock"}

RawInput(key) ==
  [scanned |-> ~ByVirtualKey(key), virtual |-> key.virtual, scan |-> key.scan, extended |-> key.extended]

(* replay_key_from_event: without a scan code there is nothing to type again. *)
ReplayKey(key, tracked, caps) ==
  IF key.scan = None THEN None
  ELSE [scan |-> key.scan, shift |-> Shifted(tracked), caps |-> caps, extended |-> key.extended]

(* keypad_digit_key: of the keys of one scan code only the digit can be part of a word. *)
KeypadDigit(keys, replay) ==
  LET digits == {k \in keys : k.kind = "digit" /\ k.scan = replay.scan /\ ~replay.extended} IN
  IF digits = {} THEN None ELSE (CHOOSE k \in digits : TRUE).virtual

(* MapVirtualKeyEx: the key of a scan code; shared codes name the navigation key, and Num Lock. *)
ScannedKey(keys, scan, extended) ==
  LET found == {k \in keys : k.scan = scan /\ k.extended = extended /\ k.kind \notin {"digit", "pause"}} IN
  IF found = {} THEN None ELSE (CHOOSE k \in found : TRUE).virtual

(* map_replay_key_to_layout *)
Reading(keys, replay, layout) ==
  LET virtual == IF KeypadDigit(keys, replay) # None THEN KeypadDigit(keys, replay)
                 ELSE ScannedKey(keys, replay.scan, replay.extended)
  IN  IF virtual = None THEN None ELSE Printed(layout, virtual, replay.shift, replay.caps)

(* translate_printable: the character the key event itself printed, by its virtual key. *)
PrintedBy(key, tracked, caps, layout) == Printed(layout, key.virtual, Shifted(tracked), caps)

(* build_physical_replay_plan: a digit goes out as its virtual key, and never with Shift. *)
Step(keys, replay) ==
  IF KeypadDigit(keys, replay) # None
  THEN [scanned |-> FALSE, virtual |-> KeypadDigit(keys, replay), scan |-> replay.scan, extended |-> FALSE,
        shift |-> FALSE]
  ELSE [scanned |-> TRUE, virtual |-> None, scan |-> replay.scan, extended |-> replay.extended,
        shift |-> replay.shift]

(* What Windows makes of an input. *)
Received(keys, input) ==
  IF input.scanned THEN ScannedKey(keys, input.scan, input.extended) ELSE input.virtual

(* mapped_layout_candidates_with: a target whose layout cannot print every key has no reading. *)
Candidates(keys, replays, layouts) ==
  {l \in layouts : \A i \in DOMAIN replays : Reading(keys, replays[i], l) # None}

(* key_readings: what one key prints in the layout of each target that can print it. *)
KeyReadings(keys, replay, layouts) ==
  [l \in Candidates(keys, <<replay>>, layouts) |-> Reading(keys, replay, l)]

(*                        Properties                        *)
(* For every letter the worker takes a modifier for held only if the hook found one of its kind held then, *)
(* and knows of every one held but those pressed where no hook saw it: whatever happened on another        *)
(* desktop, in another window, or to edges that were lost (forget_released, resync_modifiers).          *)
ModifiersAsHeld ==
  typed # None =>
    /\ \A k \in typed.tracked : OfClass(typed.held, k.class) # {}
    /\ \A class \in Classes :
         OfClass(typed.held \ typed.unseen, class) # {} => OfClass(typed.tracked, class) # {}

(* A key that was held back arrives as the key it was; a key of a word is read in its own layout as the *)
(* character it printed, and prints in a target layout what it was read as there, also where two keys  *)
(* share a scan code (build_raw_replay_inputs, map_replay_key_to_layout and build_physical_replay_plan *)
(* have the rule for such keys each).                                                                  *)
TypedAsItWas(keys, layouts) ==
  \A key \in keys :
    /\ Received(keys, RawInput(key)) = key.virtual
    /\ \A shift, caps \in BOOLEAN :
         LET tracked == IF shift THEN OfClass(Modifiers, "shift") ELSE {}
             replay == ReplayKey(key, tracked, caps) IN
         (replay # None /\ key.word /\ (key.kind = "digit" => ~shift)) =>
           LET step == Step(keys, replay)
               readings == KeyReadings(keys, replay, layouts) IN
           /\ \A l \in layouts : Reading(keys, replay, l) = PrintedBy(key, tracked, caps, l)
           /\ \A l \in DOMAIN readings : readings[l] = Printed(l, Received(keys, step), step.shift, caps)
====
