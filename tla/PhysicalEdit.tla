---- MODULE PhysicalEdit ----
(***************************************************************************)
(* A conversion in a program whose text cannot be replaced by a paste: the word is erased with          *)
(* Backspaces and typed again by its physical keys under the target layout. An unknown program is    *)
(* asked for its text first: text that reads back as the word is pasted over, other text stops the    *)
(* conversion, and only a program that shows no editable field at all may be typed into unread.       *)
(*                                                                           *)
(* The guard compares the foreground and the input epoch. The epoch follows a change of the           *)
(* foreground later, when the UI thread is told of it, and nothing is checked and sent in one step.   *)
(***************************************************************************)
EXTENDS Naturals, Sequences

CONSTANTS
  None,
  Plan,        \* the steps of the edit: "erase", "key", "space"
  Depth,       \* how many ancestors of the focused element are looked at
  Reads,       \* how often the barrier can ask within its time
  Polls,       \* how often the layout is looked at within its time
  Stable,      \* polls for which the layout must have been seen without a break
  MaxMoves,    \* bound: changes of the foreground the user did not make by a key or a click
  MaxFlips     \* bound: changes of the field's layout that nobody asked for

VARIABLES
  screen,   \* the window in front, whether its change was told, the layout of the field, the request posted to it
  field,    \* the field's text: what was erased, and under which layout each key was read
  edit,     \* the edit under way: its route, its phase, what is sent, its outcome
  astray    \* history: sends that reached another window, departures from the field, unasked changes of its layout

evars == <<screen, field, edit, astray>>

(*                        the field behind the focus                        *)
(* What one element of the chain answers. *)
Element == {"editable", "plain", "password", "foreign", "unreadable", "parentless"}

(* focused_text_field: from the focused element upwards, the first that can be edited; any password   *)
(* or unanswered question on the way ends the search.                                       *)
Answer(element) ==
  CASE element = "editable" -> "field" [] element = "password" -> "Password"
    [] element = "foreign" -> "OwnershipUnproven" [] element = "unreadable" -> "ProcessUnavailable"
    [] element = "parentless" -> "ParentUnavailable" [] OTHER -> "next"
Resolve(chain) ==
  LET stops == {n \in 1..Depth : Answer(chain[n]) # "next"}
  IN  IF stops = {} THEN "NoEditableAncestor"
      ELSE Answer(chain[CHOOSE n \in stops : \A other \in stops : n <= other])
FallbackIsSafe(reason) == reason \in {"ParentUnavailable", "NoEditableAncestor", "OwnershipUnproven"}

(*                        the guard and the route                        *)
Guard == screen.front = "field" /\ ~screen.told
At(phase) == edit.at = phase
Ends(outcome) == edit' = [edit EXCEPT !.at = "done", !.outcome = outcome]
Goes(phase) == edit' = [edit EXCEPT !.at = phase]

(* wait_for_capability_text_barrier: the word, other text, or no answer, again and again. *)
ReadBarrier ==
  /\ At("barrier") /\ edit.reads < Reads
  /\ \/ ~Guard /\ Ends("mismatch")
     \/ /\ Guard
        /\ \E chain \in [1..Depth -> Element], shows \in {"word", "other", "nothing"} :
             LET reason == Resolve(chain)
             IN  CASE reason = "field" /\ shows = "word" -> Ends("paste")
                   [] reason = "field" /\ shows = "other" ->
                        edit' = [edit EXCEPT !.reads = @ + 1, !.other = TRUE, !.reason = reason, !.chain = chain]
                   [] OTHER -> edit' = [edit EXCEPT !.reads = @ + 1, !.reason = reason, !.chain = chain]
  /\ UNCHANGED <<screen, field, astray>>
(* capability_decision on the last report, once the time is up. *)
Decide ==
  /\ At("barrier") /\ edit.reads > 0
  /\ IF edit.other THEN Ends("mismatch")
     ELSE IF edit.fallback /\ FallbackIsSafe(edit.reason) THEN Goes("switch") ELSE Ends("unsupported")
  /\ UNCHANGED <<screen, field, astray>>

(*                        the layout                        *)
(* switch_layout_and_wait: once it was asked for, a lost guard is no cancellation any more. *)
AskLayout ==
  /\ At("switch")
  /\ \/ ~Guard /\ Ends("cancelled") /\ UNCHANGED screen
     \/ Guard /\ screen.layout = "target" /\ Goes("ready") /\ UNCHANGED screen
     \/ Guard /\ screen.layout # "target" /\ Goes("layout") /\ screen' = [screen EXCEPT !.asked = TRUE]
     \/ Guard /\ screen.layout # "target" /\ Ends("layout") /\ UNCHANGED screen
  /\ UNCHANGED <<field, astray>>
PollLayout ==
  /\ At("layout")
  /\ LET seen == IF screen.layout = "target" THEN edit.seen + 1 ELSE 0
     IN  IF ~Guard \/ edit.polls = Polls THEN Ends("layout")
         ELSE IF seen >= Stable THEN Goes("ready")
         ELSE edit' = [edit EXCEPT !.polls = @ + 1, !.seen = seen]
  /\ UNCHANGED <<screen, field, astray>>
Ready ==
  /\ At("ready") /\ (IF Guard THEN Goes("guard") ELSE Ends("failed"))
  /\ UNCHANGED <<screen, field, astray>>

(*                        the keys                        *)
(* The next send: one step when paced, else the whole plan. *)
NextSend == IF edit.paced THEN <<Plan[edit.sent + 1]>> ELSE Plan
Typed(steps) ==
  [erased |-> field.erased + Len(SelectSeq(steps, LAMBDA s : s = "erase")),
   keys |-> field.keys \o [n \in 1..Len(SelectSeq(steps, LAMBDA s : s # "erase")) |-> screen.layout]]

(* dispatch_physical_replay_plan: the guard before each send. Once the layout was switched, to stop   *)
(* is to fail.                                                              *)
(* Mutant: a guard lost before the first key still counts as a cancellation. *)
CancelBeforeKeys ==
  /\ At("guard") /\ (IF Guard THEN Goes("send") ELSE Ends(IF edit.sent = 0 THEN "cancelled" ELSE "failed"))
  /\ UNCHANGED <<screen, field, astray>>
CheckGuard ==
  /\ At("guard") /\ (IF Guard THEN Goes("send") ELSE Ends("failed"))
  /\ UNCHANGED <<screen, field, astray>>

(* SendInput takes all of it or less; the window in front gets it. *)
Send ==
  /\ At("send")
  /\ \E taken \in 0..Len(NextSend) :
       LET steps == SubSeq(NextSend, 1, taken)
           sent == edit.sent + taken
       IN  /\ edit' = IF taken < Len(NextSend) THEN [edit EXCEPT !.at = "done", !.outcome = "failed", !.sent = sent]
                      ELSE [edit EXCEPT !.at = IF sent = Len(Plan) THEN "commit" ELSE "guard", !.sent = sent, !.polls = 0]
           /\ IF screen.front = "field" THEN field' = Typed(steps) /\ UNCHANGED astray
              ELSE astray' = [astray EXCEPT !.sends = @ + (IF taken = 0 THEN 0 ELSE 1)] /\ UNCHANGED field
  /\ UNCHANGED screen

(* wait_for_replay_commit and finish_replay_commit: what was sent stays sent, confirmed or not. *)
Commit ==
  /\ At("commit")
  /\ IF ~Guard THEN Ends("uncertain")
     ELSE IF screen.layout # "target" THEN Ends("failed")
     ELSE IF edit.polls = Polls THEN Ends("applied") ELSE edit' = [edit EXCEPT !.polls = @ + 1]
  /\ UNCHANGED <<screen, field, astray>>

(*                        the others                        *)
LayoutApplies ==
  /\ screen.asked /\ screen' = [screen EXCEPT !.asked = FALSE, !.layout = "target"]
  /\ UNCHANGED <<field, edit, astray>>
LayoutFlips ==
  /\ astray.flips < MaxFlips /\ ~At("done")
  /\ screen' = [screen EXCEPT !.layout = IF @ = "target" THEN "source" ELSE "target"]
  /\ astray' = [astray EXCEPT !.flips = @ + 1] /\ UNCHANGED <<field, edit>>
(* A window comes to the front by itself, and is told of later; a key or a click of the user is told  *)
(* at once.                                                                 *)
FrontChanges ==
  /\ astray.departures < MaxMoves /\ ~At("done")
  /\ screen' = [screen EXCEPT !.front = IF @ = "field" THEN "other" ELSE "field", !.changed = TRUE]
  /\ astray' = [astray EXCEPT !.departures = IF screen.front = "field" THEN @ + 1 ELSE @]
  /\ UNCHANGED <<field, edit>>
EpochFollows ==
  /\ screen.changed /\ screen' = [screen EXCEPT !.changed = FALSE, !.told = TRUE]
  /\ UNCHANGED <<field, edit, astray>>
UserActs ==
  /\ ~screen.told /\ ~At("done") /\ screen' = [screen EXCEPT !.told = TRUE]
  /\ UNCHANGED <<field, edit, astray>>

EInit ==
  /\ screen = [front |-> "field", changed |-> FALSE, told |-> FALSE, layout |-> "source", asked |-> FALSE]
  /\ field = [erased |-> 0, keys |-> <<>>]
  /\ edit \in {[at |-> at, paced |-> paced, fallback |-> fallback, reads |-> 0, other |-> FALSE, reason |-> "none",
                chain |-> None, polls |-> 0, seen |-> 0, sent |-> 0, outcome |-> None] :
                 at \in {"barrier", "switch"}, paced \in BOOLEAN, fallback \in BOOLEAN}
  /\ astray = [sends |-> 0, departures |-> 0, flips |-> 0]

ENext ==
  \/ ReadBarrier \/ Decide \/ AskLayout \/ PollLayout \/ Ready \/ CheckGuard \/ Send \/ Commit
  \/ LayoutApplies \/ LayoutFlips \/ FrontChanges \/ EpochFollows \/ UserActs

(*                        properties                        *)
(* An edit that is reported as not made left no trace: no key was sent, and unless it is reported as  *)
(* the layout that failed, nobody was asked to change the layout either. Automatic conversion goes on *)
(* after such a report, so a half-made edit must never pass for one.                              *)
NoTraceUnlessFailed ==
  /\ edit.outcome \in {"cancelled", "mismatch", "unsupported", "layout"} => edit.sent = 0
  /\ edit.outcome \in {"cancelled", "mismatch", "unsupported"} => ~screen.asked /\ (astray.flips = 0 => screen.layout = "source")

(* Wherever the foreground goes between a guard and its send, each departure costs one send at most:  *)
(* the erasing and typing never runs on in a window it was not meant for.                        *)
StopsAstray == astray.sends <= astray.departures

(* An edit that counts as applied typed every key of the plan under the target layout, whenever that  *)
(* layout came, unless another window or program took part.                                 *)
AppliedIsWhole ==
  edit.outcome = "applied" /\ astray.departures = 0 /\ astray.flips = 0 =>
    /\ field.erased = Len(SelectSeq(Plan, LAMBDA s : s = "erase"))
    /\ field.keys = [n \in 1..Len(Plan) - field.erased |-> "target"]

(* A field is typed into unread only if no read found other text in it and the last one found nothing *)
(* that could be asked, least of all a password.                                            *)
TypesUnreadOnly ==
  edit.chain # None /\ edit.sent > 0 =>
    /\ edit.fallback /\ ~edit.other
    /\ \A n \in 1..Depth : edit.chain[n] \in {"password", "editable"} =>
         \E before \in 1..n - 1 : edit.chain[before] \in {"foreign", "parentless"}
====
