---- MODULE HookWatchdog ----
(***************************************************************************)
(* Windows removes a low-level hook without notice when its thread is too slow. At every tick of its     *)
(* timer the UI thread compares the user's input with the callbacks of the two hooks: input that a hook  *)
(* must have seen and did not makes it install both again, at most once per MinInterval and PerHour       *)
(* times per Hour, and then tell the user instead. A failed installation is repeated with backoff.       *)
(***************************************************************************)
EXTENDS Naturals, Sequences, FiniteSets

CONSTANTS
  InputRecent,   \* ticks during which input counts as given now
  HookSilent,    \* ticks without a callback that make a hook silent
  MinInterval,   \* shortest time between two reinstallations
  PerHour,       \* reinstallations per Hour
  Hour,
  MaxDeaths,     \* bound: hooks removed by Windows
  MaxFailures,   \* bound: installations refused
  MaxMoves       \* bound: changes of the foreground, of the session, and jumps of the pointer

WatchdogAssumption == InputRecent < HookSilent /\ MinInterval < Hour

VARIABLES
  hooks,     \* each hook: live, dead (Windows calls it no more) or missing (no handle)
  silence,   \* KEYBOARD_HOOK_ACTIVITY_MS and MOUSE_HOOK_ACTIVITY_MS, as ages
  input,     \* the last input: its age, its device, and the age of the last one that no hook could see
  pointer,   \* PointerMotion, and whether the pointer moved since the last tick
  front,     \* the foreground: seen, or higher, capturing or another desktop
  watchdog,  \* HookWatchdog: the ages of its reinstallations and of its warning
  retry,     \* hook_retry: the failures and the ticks to wait
  budget,    \* what is left of the bounds
  unheard    \* history: ticks in a row with typing that a dead keyboard hook missed

wvars == <<hooks, silence, input, pointer, front, watchdog, retry, budget, unheard>>

Kinds == {"keyboard", "mouse"}
Least(a, b) == IF a < b THEN a ELSE b
Never == Hour
LongAgo == InputRecent + 2
Patience == HookSilent + 1 + MinInterval
NoRetry == [failures |-> 0, wait |-> 0]

(*                        the decisions                        *)
(* Mutant: the keyboard hook is judged by any input, also by a click that the mouse hook saw. *)
AnyInputJudges(moving) ==
  CASE input.age > InputRecent -> "none"
    [] moving -> IF silence["mouse"] > HookSilent THEN "mouse" ELSE "none"
    [] OTHER -> IF silence["keyboard"] > HookSilent THEN "keyboard" ELSE "none"

(* silent_hook: each hook is judged by input that it must see. *)
SilentHook(moving) ==
  CASE input.age > InputRecent -> "none"
    [] moving -> IF silence["mouse"] > HookSilent THEN "mouse" ELSE "none"
    [] OTHER -> IF /\ silence["keyboard"] > HookSilent
                   /\ silence["mouse"] > input.age + InputRecent
                THEN "keyboard" ELSE "none"

Moves == IF pointer.moved THEN Least(pointer.moves + 1, 2) ELSE 0
PointerMoving == Moves >= 2

(* decide: what the watchdog does, and what it then remembers. *)
Recent == SelectSeq(watchdog.reinstalls, LAMBDA age: age < Hour)
Decision ==
  CASE SilentHook(PointerMoving) = "none" \/ front # "seen" ->
         [action |-> "nothing", memory |-> watchdog]
    [] Recent # <<>> /\ Recent[Len(Recent)] < MinInterval ->
         [action |-> "nothing", memory |-> [watchdog EXCEPT !.reinstalls = Recent]]
    [] Len(Recent) < PerHour ->
         [action |-> "reinstall", memory |-> [watchdog EXCEPT !.reinstalls = Append(Recent, 0)]]
    [] OTHER ->
         [action |-> IF watchdog.warned >= Hour THEN "warn" ELSE "nothing",
          memory |-> [watchdog EXCEPT !.reinstalls = Recent,
                                      !.warned = IF @ >= Hour THEN 0 ELSE @]]

Older(memory) == [reinstalls |-> [i \in DOMAIN memory.reinstalls |-> Least(memory.reinstalls[i] + 1, Hour)],
                  warned |-> Least(memory.warned + 1, Hour)]

(*                        installing                        *)
(* install_missing_hooks: Windows may refuse each hook that is missing; what exists is left alone. *)
Refusals(missing) ==
  {refused \in SUBSET missing : Cardinality(refused) <= budget.failures}
Installed(kept, refused) ==
  [k \in Kinds |-> IF kept[k] # "missing" THEN kept[k] ELSE IF k \in refused THEN "missing" ELSE "live"]
Missing(kept) == {k \in Kinds : kept[k] = "missing"}
Touched(kept, refused, ages) ==
  [k \in Kinds |-> IF k \in Missing(kept) \ refused THEN 0 ELSE ages[k]]

Refused(refused) == budget' = [budget EXCEPT !.failures = @ - Cardinality(refused)]
Unhooked == [k \in Kinds |-> "missing"]
Delay(failures) == 2 ^ Least(failures - 1, 1)
Sooner == [retry EXCEPT !.wait = IF @ = 0 THEN 0 ELSE @ - 1]
(* reinstall_hooks: a failure starts the backoff unless one runs. *)
RetryAfter(refused) ==
  IF refused # {} /\ retry = NoRetry THEN [failures |-> 1, wait |-> Delay(1)] ELSE retry
(* retry_missing_hooks *)
AfterRetry(refused) ==
  IF refused = {} THEN NoRetry
  ELSE [failures |-> retry.failures + 1, wait |-> Delay(retry.failures + 1)]

(*                        the timer                        *)
Heard == ~(hooks["keyboard"] = "dead" /\ front = "seen" /\ input.age = 0 /\ input.by = "keyboard"
           /\ ~pointer.moved /\ pointer.moves = 0 /\ silence["mouse"] > InputRecent)
Passed(kept, refused) ==
  /\ silence' = [k \in Kinds |-> Least(Touched(kept, refused, silence)[k] + 1, HookSilent + 1)]
  /\ input' = [input EXCEPT !.age = Least(@ + 1, InputRecent + 1), !.unseen = Least(@ + 1, LongAgo)]
  /\ pointer' = [moved |-> FALSE, moves |-> Moves]
  /\ watchdog' = Older(Decision.memory)
  /\ hooks' = Installed(kept, refused)
  /\ unheard' = IF Heard \/ hooks'["keyboard"] # "dead" THEN 0 ELSE Least(unheard + 1, Patience + 1)
  /\ UNCHANGED front

(* hook_watchdog_tick, then retry_missing_hooks in the same tick when a retry is due. *)
TickReinstalls ==
  /\ Decision.action = "reinstall" /\ retry.wait # 1
  /\ \E refused \in Refusals(Kinds) :
       Passed(Unhooked, refused) /\ Refused(refused)
       /\ retry' = IF retry = NoRetry THEN RetryAfter(refused) ELSE Sooner
TickReinstallsAndRetries ==
  /\ Decision.action = "reinstall" /\ retry.wait = 1
  /\ \E refused \in Refusals(Kinds) : \E again \in SUBSET refused :
       /\ Cardinality(refused) + Cardinality(again) <= budget.failures
       /\ Passed(Unhooked, again) /\ retry' = AfterRetry(again)
       /\ budget' = [budget EXCEPT !.failures = @ - Cardinality(refused) - Cardinality(again)]
TickRetries ==
  /\ Decision.action # "reinstall" /\ retry # NoRetry /\ retry.wait = 1
  /\ \E refused \in Refusals(Missing(hooks)) : Passed(hooks, refused) /\ Refused(refused) /\ retry' = AfterRetry(refused)
TickOnly ==
  /\ Decision.action # "reinstall" /\ retry.wait # 1
  /\ Passed(hooks, Missing(hooks)) /\ UNCHANGED budget /\ retry' = Sooner

(* WM_WTSSESSION_CHANGE, WM_POWERBROADCAST: unlock, connect and resume install the hooks again. *)
SessionReturns ==
  /\ budget.moves > 0
  /\ \E refused \in Refusals(Kinds) :
       /\ hooks' = Installed(Unhooked, refused)
       /\ silence' = Touched(Unhooked, refused, silence)
       /\ retry' = RetryAfter(refused)
       /\ budget' = [budget EXCEPT !.moves = @ - 1, !.failures = @ - Cardinality(refused)]
  /\ front' = "seen" /\ unheard' = 0
  /\ UNCHANGED <<input, pointer, watchdog>>

(*                        the user and Windows                        *)
Seen == front = "seen"
(* keyboard_hook_proc, mouse_hook_proc *)
Called(kind) == silence' = [silence EXCEPT ![kind] = IF Seen /\ hooks[kind] = "live" THEN 0 ELSE @]
Given(kind) == input' = [age |-> 0, unseen |-> IF Seen THEN input.unseen ELSE 0, by |-> kind]
UserTypes ==
  /\ Called("keyboard") /\ Given("keyboard")
  /\ UNCHANGED <<hooks, pointer, front, watchdog, retry, budget, unheard>>
UserClicks ==
  /\ Called("mouse") /\ Given("mouse")
  /\ UNCHANGED <<hooks, pointer, front, watchdog, retry, budget, unheard>>
UserMovesPointer ==
  /\ Called("mouse") /\ Given("mouse")
  /\ pointer' = [pointer EXCEPT !.moved = TRUE]
  /\ UNCHANGED <<hooks, front, watchdog, retry, budget, unheard>>
(* A program places the pointer: one jump, not two ticks in a row. *)
PointerJumps ==
  /\ budget.moves > 0 /\ pointer.moves = 0 /\ ~pointer.moved
  /\ pointer' = [pointer EXCEPT !.moved = TRUE]
  /\ budget' = [budget EXCEPT !.moves = @ - 1]
  /\ UNCHANGED <<hooks, silence, input, front, watchdog, retry, unheard>>
FrontSwitches ==
  /\ budget.moves > 0
  /\ front' \in {"seen", "unseen"} \ {front}
  /\ budget' = [budget EXCEPT !.moves = @ - 1]
  /\ UNCHANGED <<hooks, silence, input, pointer, watchdog, retry, unheard>>
HookDies ==
  /\ budget.deaths > 0
  /\ \E kind \in Kinds : hooks[kind] = "live" /\ hooks' = [hooks EXCEPT ![kind] = "dead"]
  /\ budget' = [budget EXCEPT !.deaths = @ - 1]
  /\ UNCHANGED <<silence, input, pointer, front, watchdog, retry, unheard>>

WInit ==
  /\ hooks = [k \in Kinds |-> "live"] /\ silence = [k \in Kinds |-> 0]
  /\ input = [age |-> InputRecent + 1, unseen |-> LongAgo, by |-> "mouse"]
  /\ pointer = [moved |-> FALSE, moves |-> 0] /\ front = "seen"
  /\ watchdog = [reinstalls |-> <<>>, warned |-> Never] /\ retry = NoRetry
  /\ budget = [deaths |-> MaxDeaths, failures |-> MaxFailures, moves |-> MaxMoves] /\ unheard = 0

WNext ==
  \/ TickReinstalls \/ TickReinstallsAndRetries \/ TickRetries \/ TickOnly \/ SessionReturns
  \/ UserTypes \/ UserClicks \/ UserMovesPointer \/ PointerJumps \/ FrontSwitches \/ HookDies

(*                        properties                        *)
(* The watchdog installs hooks again only when one of them is gone: live hooks that could see all recent  *)
(* input are never taken for silent, whatever the user does with the other device (silent_hook,           *)
(* PointerMotion). And typing that a dead keyboard hook misses brings it back within the silence and the  *)
(* shortest interval, unless the user was told within the hour; a hook that Windows refused always has    *)
(* its next attempt scheduled.                                                                            *)
HooksWatched ==
  /\ Decision.action = "reinstall" /\ input.unseen = LongAgo => \E k \in Kinds : hooks[k] # "live"
  /\ unheard > Patience => watchdog.warned < Hour
  /\ Missing(hooks) # {} => retry.wait > 0
====
