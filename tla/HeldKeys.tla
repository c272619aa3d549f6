------------------------------- MODULE HeldKeys -------------------------------
(***************************************************************************)
(* The pure functions the correction gate applies to the key edges it      *)
(* swallowed (windows_agent.rs): which key-downs are auto-repeats, which    *)
(* key-ups may leave at once when the gate is broken, how much of the held  *)
(* input one drain replays, and what a replay sends.                        *)
(*                                                                          *)
(* An edge is [id, key, down, rep]: its place in the order the user typed,  *)
(* its key (virtual key, scan code and extended bit together, which the     *)
(* code always compares as a triple), whether it is a key-down, and whether *)
(* the hook marked it as an auto-repeat. Id 0 is a key-up the agent         *)
(* synthesises.                                                             *)
(***************************************************************************)
EXTENDS Integers, Sequences, SequencesExt

Ids(edges) == {edges[i].id : i \in DOMAIN edges}

(* The members of a sequence that lie in a set, in their order. SelectSeq by another name: a
   recursive function, about which there are theorems (HeldKeysProofs).                    *)
Selected(seq, chosen) ==
  LET upTo[n \in 0..Len(seq)] ==
        IF n = 0 THEN <<>>
        ELSE IF seq[n] \in chosen THEN Append(upTo[n - 1], seq[n]) ELSE upTo[n - 1]
  IN  upTo[Len(seq)]

(* Positions before i of edges of the same key. *)
Before(edges, i) == {j \in 1..(i - 1) : edges[j].key = edges[i].key}

(* A key-down the gate holds repeats a key that is down already: the last held
   edge of that key decides, and without one the key state of the system.       *)
GatedKeyDownRepeats(held, key, systemDown) ==
  LET same == {i \in DOMAIN held : held[i].key = key}
  IN  IF same = {} THEN systemDown ELSE held[Max(same)].down

(* split_delivered_key_releases. A key-down is fresh unless it is marked as a
   repeat and no key-up of its key came before it.                              *)
FreshDown(edges, j) ==
  /\ edges[j].down
  /\ ~edges[j].rep \/ \E k \in Before(edges, j) : ~edges[k].down

(* A key-up is delivered at once when no fresh key-down of its key is pending:
   its key-down reached the application before the gate.                        *)
DeliveredRelease(edges, i) ==
  /\ ~edges[i].down
  /\ \A j \in Before(edges, i) :
        FreshDown(edges, j) => \E k \in Before(edges, i) : k > j /\ ~edges[k].down

Released(edges) == {edges[i] : i \in {i \in DOMAIN edges : DeliveredRelease(edges, i)}}

DeliveredReleases(edges) == Selected(edges, Released(edges))

RetainedEdges(edges) == Selected(edges, Range(edges) \ Released(edges))

(* A newer physical edge of a key supersedes the key-ups still queued for it. *)
CancelSupersededRelease(pending, edge) ==
  Selected(pending, {e \in Range(pending) : e.key # edge.key})

(* Variant with the fault that a drain replays past a Space. *)
WholeHeldLength(held, space) == Len(held)

(* take_held_replay_prefix: one drain replays up to and including the first
   Space key-down, which is the next word's decision point.                     *)
ReplayPrefixLength(held, space) ==
  LET spaces == {i \in DOMAIN held : held[i].key = space /\ held[i].down}
  IN  IF spaces = {} THEN Len(held) ELSE Min(spaces)

(* The last edges of their keys that are key-downs: the keys a replay leaves down. *)
LeftDown(edges) ==
  {i \in DOMAIN edges :
     edges[i].down /\ \A j \in DOMAIN edges : edges[j].key = edges[i].key => j <= i}

(* build_balanced_replay_inputs: the edges as they are, then one key-up for every
   key they leave down, in key order (here: in the order of their key-downs).   *)
BalancedReplay(edges) ==
  LET up(i) == [id |-> 0, key |-> edges[i].key, down |-> FALSE, rep |-> FALSE]
      order == Selected([i \in DOMAIN edges |-> i], LeftDown(edges))
  IN  edges \o [n \in DOMAIN order |-> up(order[n])]

(* The key state the system shows after the edges were delivered: down when the
   last edge of the key was a key-down.                                         *)
KeyDownAfter(edges, key) ==
  \E i \in DOMAIN edges :
    /\ edges[i].key = key /\ edges[i].down
    /\ \A j \in DOMAIN edges : edges[j].key = key => j <= i

===============================================================================
