---- MODULE PrivacyVerdict ----
(***************************************************************************)
(* Which program a privacy verdict is for. The worker judges the program and the field of a key, and  *)
(* publishes the verdict and, in a second store, the process it judged; the keyboard hook reads the    *)
(* two, one after the other, to decide whether a Space arms a gate and whether a line may be written.  *)
(* A process ID is used again by another program; the user excludes programs in the settings.         *)
(***************************************************************************)
EXTENDS Naturals, Sequences

CONSTANTS
  None,
  Programs,   \* records of the name and the integrity of a program
  Pids,       \* process IDs
  MaxWindows, \* bound: windows opened
  MaxMoves,   \* bound: changes of the window in front
  MaxInputs   \* bound: keys given and refreshes asked for

VARIABLES
  desktop,  \* the window in front, the windows opened, and the program that has each process ID
  excluded, \* the names of the programs excluded, and whether they may still change
  shared,   \* the metrics: the process judged and the verdict, with history: the program it was
  hook,     \* the callback, the key it has, and history: what the verdict let it do
  queue,    \* input the worker has not taken
  worker    \* what the worker holds of the last window, process and field

qvars == <<desktop, excluded, shared, hook, queue, worker>>

Own == "medium" \* the agent's own integrity
Names == {p.name : p \in {q \in Programs : q.integrity = Own}}
Front == desktop.front
Alive(w) == desktop.owner[w.pid] = w.program

(* ExclusionPolicy and the integrity rule of refresh_process_policy. *)
ProcessReason(names, image, level) ==
  CASE image # None /\ image \in names -> "excluded"
    [] image = None \/ level = None -> "unavailable"
    [] image # None /\ level # None /\ image \notin names /\ level # Own -> "elevated"
    [] OTHER -> None
Blocked(program) == ProcessReason(excluded.names, program.name, program.integrity) # None

Open(program, pid) ==
  /\ \A p \in Pids : p < pid => desktop.owner[p] # None
  /\ desktop.opened < MaxWindows /\ hook.at = "idle"
  /\ LET w == [id |-> desktop.opened + 1, pid |-> pid, program |-> program] IN
     desktop' = [desktop EXCEPT !.front = w, !.opened = @ + 1, !.windows = @ \cup {w}, !.owner[pid] = program]
  /\ UNCHANGED <<excluded, shared, hook, queue, worker>>

Switch(w) ==
  /\ desktop.moves < MaxMoves /\ w # Front /\ Alive(w) /\ hook.at = "idle"
  /\ desktop' = [desktop EXCEPT !.front = w, !.moves = @ + 1]
  /\ UNCHANGED <<excluded, shared, hook, queue, worker>>

(* hook_privacy_reason: the process first, *)
Press(kind) ==
  /\ hook.at = "idle" /\ Front # None /\ desktop.inputs < MaxInputs
  /\ desktop' = [desktop EXCEPT !.inputs = @ + 1]
  /\ hook' = [at |-> IF shared.pid = Front.pid THEN "verdict" ELSE "queue",
              key |-> [kind |-> kind, window |-> Front], torn |-> FALSE, did |-> None]
  /\ UNCHANGED <<excluded, shared, queue, worker>>

(* then the verdict: should_arm_space_decision_gate, slow_hook_may_be_logged. *)
ReadVerdict ==
  /\ hook.at = "verdict"
  /\ hook' = [hook EXCEPT !.at = "queue",
       !.did = IF shared.reason # None THEN None
               ELSE [blocked |-> Blocked(hook.key.window.program),
                     judged |-> shared.program = hook.key.window.program /\ ~hook.torn /\ worker.last # None]]
  /\ UNCHANGED <<desktop, excluded, shared, queue, worker>>

Queued ==
  /\ hook.at = "queue"
  /\ queue' = Append(queue, hook.key)
  /\ hook' = [hook EXCEPT !.at = "idle", !.key = None, !.torn = FALSE]
  /\ UNCHANGED <<desktop, excluded, shared, worker>>

(* queue_periodic_refreshes *)
AskRefresh ==
  /\ hook.at = "idle" /\ Front # None /\ desktop.inputs < MaxInputs
  /\ desktop' = [desktop EXCEPT !.inputs = @ + 1]
  /\ queue' = Append(queue, [kind |-> "refresh", window |-> Front])
  /\ UNCHANGED <<excluded, shared, hook, worker>>

(* refresh_process_policy, up to the verdict: the facts of a process are read once. *)
Judged(b, names, pid, image, level) ==
  LET reason == ProcessReason(names, image, level) IN
  IF b.pid = pid THEN b
  ELSE [b EXCEPT !.pid = pid, !.process = reason, !.dirty = TRUE, !.program = desktop.owner[pid],
                 !.reason = IF reason # None THEN reason ELSE @]

(* process_key: a window that is new to the worker may be another program's. *)
Focused(w) == IF worker.last = w THEN worker ELSE [worker EXCEPT !.pid = None, !.dirty = TRUE, !.last = w]

(* Mutant: the process is published before its verdict. *)
ProcessFirst(b) == [shared EXCEPT !.pid = b.pid, !.program = b.program]
FirstStore(b) == [shared EXCEPT !.reason = b.reason]

(* process_key, up to the check of the field: a key that types nothing in a window already known, as a *)
(* Space or the hotkey, reads no facts; facts may be refused. A refresh is for the window in front, whatever the last key's. *)
Take ==
  /\ worker.at = "idle" /\ queue # <<>>
  /\ LET key == Head(queue)
         w == key.window
         facts == desktop.owner[w.pid]
         b == IF key.kind = "refresh" THEN worker ELSE Focused(w) IN
     IF key.kind = "refresh" /\ Front # w
     THEN worker' = [worker EXCEPT !.dirty = TRUE] /\ shared' = shared
     ELSE \E read \in {<<facts.name, facts.integrity>>, <<None, None>>} :
            LET judged == IF key.kind = "space" /\ worker.last = w THEN b
                          ELSE Judged(b, excluded.names, w.pid, read[1], read[2]) IN
            /\ worker' = [judged EXCEPT !.at = "publish", !.key = key, !.alive = Alive(w)]
            /\ shared' = FirstStore(judged)
  /\ queue' = Tail(queue)
  /\ UNCHANGED <<desktop, excluded, hook>>

(* The second store. *)
Publish ==
  /\ worker.at = "publish"
  /\ shared' = [pid |-> worker.pid, reason |-> worker.reason, program |-> worker.program]
  /\ worker' = [worker EXCEPT !.at = "check"]
  /\ hook' = [hook EXCEPT !.torn = (@ \/ shared.pid # worker.pid) /\ hook.at = "verdict"]
  /\ UNCHANGED <<desktop, excluded, queue>>

(* ensure_privacy, evaluate_privacy and set_privacy_reason: an answer counts while its window has the *)
(* focus; after a shortcut the verdict is open (mark_privacy_dirty with a pause).                       *)
Check ==
  /\ worker.at = "check"
  /\ \E field \in {None, "password"} :
       LET found == IF worker.process # None THEN worker.process
                    ELSE IF Front # worker.key.window THEN "unavailable" ELSE field
           reason == CASE worker.key.kind = "space" -> worker.reason
                       [] worker.key.kind = "shortcut" ->
                            IF worker.process # None THEN worker.process ELSE "unavailable"
                       [] worker.key.kind = "letter" /\ ~worker.dirty -> worker.reason
                       [] OTHER -> found IN
       /\ worker' = [worker EXCEPT !.at = "idle", !.key = None, !.alive = FALSE, !.reason = reason,
                                   !.dirty = worker.key.kind \in {"space", "shortcut"}]
       /\ shared' = [shared EXCEPT !.reason = reason]
  /\ UNCHANGED <<desktop, excluded, hook, queue>>

(* apply_configuration_reload: the program of the last key is judged at once. *)
Rejudged(b, names) ==
  IF b.last = None THEN b
  ELSE LET facts == desktop.owner[b.last.pid] IN Judged(b, names, b.last.pid, facts.name, facts.integrity)

(* While a configuration waits nothing is armed and keys are dropped. *)
Reload(names) ==
  /\ worker.at = "idle" /\ hook.at = "idle" /\ excluded.changes
  /\ excluded' = [names |-> names, changes |-> FALSE]
  /\ LET b == Rejudged([worker EXCEPT !.pid = None, !.process = None, !.dirty = TRUE], names) IN
     /\ worker' = b
     /\ shared' = IF b.pid = None THEN shared ELSE [pid |-> b.pid, reason |-> b.reason, program |-> b.program]
  /\ UNCHANGED <<desktop, hook, queue>>

QInit ==
  /\ desktop = [front |-> None, opened |-> 0, windows |-> {}, owner |-> [p \in Pids |-> None], moves |-> 0,
                inputs |-> 0]
  /\ excluded \in [names : SUBSET Names, changes : {TRUE}]
  /\ shared = [pid |-> None, reason |-> "unavailable", program |-> None]
  /\ hook = [at |-> "idle", key |-> None, torn |-> FALSE, did |-> None]
  /\ queue = <<>>
  /\ worker = [at |-> "idle", last |-> None, key |-> None, pid |-> None, process |-> None,
               reason |-> "unavailable", dirty |-> TRUE, program |-> None, alive |-> FALSE]

QNext ==
  \/ \E program \in Programs, pid \in Pids : Open(program, pid)
  \/ \E w \in desktop.windows : Switch(w)
  \/ \E kind \in {"letter", "space", "shortcut"} : Press(kind)
  \/ ReadVerdict \/ Queued \/ AskRefresh \/ Take \/ Publish \/ Check
  \/ \E names \in SUBSET Names : Reload(names)

(*                        Properties                        *)
(* No gate is armed and no line written for a key in an excluded or elevated program on the strength   *)
(* of a verdict for that program (hook_privacy_reason: "before that the program may be an excluded     *)
(* one, so it is unknown"). Left out: a process ID the worker knows as another program's, another       *)
(* process published between the two reads, and programs excluded before any key was taken.           *)
HookTrustsNoOther == hook.did # None => ~(hook.did.blocked /\ hook.did.judged)

(* Whatever key it is, none in an excluded or elevated program is handled under an allowing verdict    *)
(* once the worker has judged that process ("blocked from its first key on", refresh_process_policy),  *)
(* also when the process ID was another program's before.                                              *)
BlockedAtItsFirstKey ==
  (worker.at \in {"publish", "check"} /\ worker.alive /\ worker.pid = worker.key.window.pid
    /\ worker.key.kind # "refresh" /\ Blocked(worker.key.window.program)) => worker.reason # None
====
