------------------------------ MODULE MCHeldKeys ------------------------------
(***************************************************************************)
(* The functions of HeldKeys on every bounded sequence of physical edges: a   *)
(* user types, a gate begins to hold the edges, drains replay prefixes of     *)
(* them, and at some point it breaks: key-ups wait to be returned while the    *)
(* user types on. The user's own keys, pressed, are the reference.            *)
(***************************************************************************)
EXTENDS HeldKeys, FiniteSets

CONSTANTS Keys, Space, MaxEdges

VARIABLES
  phase,    \* "open", "holding", "broken", "done": one gate in a behaviour
  app,      \* edges the application received
  held,     \* edges the gate holds, or retains once it is broken
  pending,  \* key-ups to return
  pressed,  \* keys the user holds down
  typed     \* edges typed so far

vars == <<phase, app, held, pending, pressed, typed>>

Init ==
  phase = "open" /\ app = <<>> /\ held = <<>> /\ pending = <<>> /\ pressed = {} /\ typed = 0

(* A key-down, which repeats when its key is pressed already, or a key-up; swallowed or
   passed on, and marked, as keyboard_hook_body does it.                               *)
Type(key, down) ==
  LET e == [id |-> typed + 1, key |-> key, down |-> down, rep |-> FALSE]
      repeats == down /\ GatedKeyDownRepeats(held, key, KeyDownAfter(app, key))
  IN  /\ typed < MaxEdges /\ (down \/ key \in pressed)
      /\ typed' = typed + 1
      /\ pressed' = IF down THEN pressed \cup {key} ELSE pressed \ {key}
      /\ pending' = CancelSupersededRelease(pending, e)
      /\ IF phase = "holding"
         THEN held' = Append(held, [e EXCEPT !.rep = repeats]) /\ app' = app
         ELSE app' = Append(app, e) /\ held' = held
      /\ UNCHANGED phase

Arm == phase = "open" /\ phase' = "holding" /\ UNCHANGED <<app, held, pending, pressed, typed>>

Drain ==
  LET n == ReplayPrefixLength(held, Space)
  IN  /\ phase = "holding" /\ held # <<>>
      /\ app' = app \o SubSeq(held, 1, n) /\ held' = SubSeq(held, n + 1, Len(held))
      /\ UNCHANGED <<phase, pending, pressed, typed>>

Break ==
  /\ phase = "holding"
  /\ phase' = "broken"
  /\ pending' = DeliveredReleases(held) /\ held' = RetainedEdges(held)
  /\ UNCHANGED <<app, pressed, typed>>

Return ==
  /\ phase = "broken" /\ pending # <<>>
  /\ app' = app \o pending /\ pending' = <<>>
  /\ UNCHANGED <<phase, held, pressed, typed>>

(* The user may type on after the break before a recovery brings the record back. *)
Recover ==
  /\ phase = "broken" /\ pending = <<>>
  /\ app' = app \o BalancedReplay(held) /\ held' = <<>> /\ phase' = "done"
  /\ UNCHANGED <<pending, pressed, typed>>

Next == (\E key \in Keys, down \in BOOLEAN : Type(key, down)) \/ Arm \/ Drain \/ Break \/ Return \/ Recover

Spec == Init /\ [][Next]_vars

-------------------------------------------------------------------------------
After == app \o pending

(* A broken gate leaves no key pressed that the user released, whether its retained edges
   are replayed or deleted later (split_delivered_key_releases,
   build_balanced_replay_inputs).                                                      *)
BreakLatchesNothing ==
  phase = "broken" =>
    \A key \in Keys \ pressed :
      ~KeyDownAfter(After, key) /\ ~KeyDownAfter(After \o BalancedReplay(held), key)

(* A key-up that is returned at once belongs to a key-down the application has: it never
   overtakes its own key-down, and each key gets one at most (split_delivered_key_releases). *)
ReturnedReleaseHasItsDown ==
  \A i \in DOMAIN pending :
    /\ KeyDownAfter(app, pending[i].key)
    /\ \A j \in DOMAIN pending : pending[j].key = pending[i].key => i = j

(* A key the user presses after the break is not released by a key-up from before it
   (cancel_superseded).                                                               *)
NewPressNotReleased ==
  phase = "broken" /\ app # <<>> /\ Last(app).id = typed /\ Last(app).down
    => KeyDownAfter(After, Last(app).key)

(* A key-down the gate holds is marked as a repeat exactly when its key was down before
   it (keyboard_hook_body, gated_key_down_repeats): a held key-down without the mark is
   the first of its key since the key's last key-up.                                   *)
RepeatsMarked ==
  phase = "holding" =>
    \A i \in DOMAIN held :
      held[i].down => (held[i].rep <=> KeyDownAfter(app \o SubSeq(held, 1, i - 1), held[i].key))

(* A drain never goes past a word's end: whatever is replayed of the edges the gate held,
   only the last key-down can be a Space (take_held_replay_prefix).                    *)
DrainStopsAtSpace ==
  [][ phase = "holding" /\ Len(app') > Len(app)
      => \A i \in (Len(app) + 1)..(Len(app') - 1) : ~(app'[i].key = Space /\ app'[i].down) ]_vars
===============================================================================
