---- MODULE TrayIcon ----
(***************************************************************************)
(* The notification icon of the agent. Explorer knows it by its window and id, not by the object that   *)
(* added it; the object's drop deletes it. Each call of the shell waits for Explorer, and meanwhile the *)
(* thread takes in messages sent to it: TaskbarCreated, Explorer's broadcast after it started again.     *)
(*                                                                           *)
(* calls is the stack of the calls that wait. Explorer carries a call out, or dies and leaves it         *)
(* failed; it takes longer to start again than the thread to return from what it left.                   *)
(***************************************************************************)
EXTENDS Naturals, Sequences

CONSTANTS
  MaxDepth,     \* bound: calls that wait at once
  MaxStatuses,  \* bound: changes of the status
  MaxDeaths,    \* bound: restarts of Explorer
  MaxRefusals   \* bound: calls that Explorer refuses

VARIABLES
  explorer,  \* whether Explorer runs, has the icon with a status, and told of its taskbar
  tray,      \* the agent: its icon, last_tray_status, tray_retry, and the status now
  calls,     \* the calls of the shell under way, the innermost last
  trouble,   \* what is left of the bounds
  lost       \* history: a registration was refused while an update held the replaced icon,
             \* or Explorer refused to remove an icon

tvars == <<explorer, tray, calls, trouble, lost>>

Nothing == 0   \* no icon; a status is a number from 1
Call(kind, status) == [kind |-> kind, status |-> status, answer |-> "none"]
Top == calls[Len(calls)]
Below == SubSeq(calls, 1, Len(calls) - 1)
(* The thread takes in a sent message while nothing is called or Explorer has not answered. *)
Dispatches == (calls # <<>> => Top.answer = "none") /\ Len(calls) < MaxDepth

(*                        what the agent does                        *)
(* update_tray takes the icon out of the state for the call. *)
RefreshTray ==
  /\ calls = <<>> /\ tray.icon /\ tray.now # tray.shown
  /\ calls' = Append(calls, Call("update", tray.now))
  /\ tray' = [tray EXCEPT !.icon = FALSE]
  /\ UNCHANGED <<explorer, trouble, lost>>

(* recreate_tray: the old icon is dropped, then a new one shows what it showed. *)
RecreateTray ==
  /\ Dispatches /\ explorer.announced
  /\ explorer' = [explorer EXCEPT !.announced = FALSE]
  /\ calls' = Append(calls, Call(IF tray.icon THEN "drop" ELSE "add", tray.shown))
  /\ tray' = [tray EXCEPT !.icon = FALSE]
  /\ UNCHANGED <<trouble, lost>>

RetryTray ==
  /\ calls = <<>> /\ tray.retry
  /\ IF tray.icon THEN UNCHANGED calls /\ tray' = [tray EXCEPT !.retry = FALSE]
     ELSE calls' = Append(calls, Call("add", tray.shown)) /\ UNCHANGED tray
  /\ UNCHANGED <<explorer, trouble, lost>>

(* add_tray, update_tray: the icon is kept unless another took its place meanwhile. *)
Kept(icon, shown) == IF tray.icon THEN tray ELSE [icon EXCEPT !.icon = TRUE, !.shown = shown]
(* discard_replaced leaves the notification icon alone. *)
AfterStored(top) == Below

(* Mutant: a failed registration waits for TaskbarCreated. *)
NoRetry(after) == after
FailedAdd(after) == [after EXCEPT !.retry = TRUE]

Returns ==
  /\ calls # <<>> /\ Top.answer # "none"
  /\ LET done == Top.answer = "done"
     IN  CASE Top.kind = "drop" ->
                calls' = Append(Below, Call("add", Top.status)) /\ UNCHANGED tray
           [] Top.kind = "add" /\ done ->
                calls' = Append(Below, Call("version", Top.status)) /\ UNCHANGED tray
           [] Top.kind = "version" /\ ~done ->
                calls' = Append(Below, Call("undo", Top.status)) /\ UNCHANGED tray
           [] Top.kind = "version" /\ done ->
                calls' = AfterStored(Top) /\ tray' = [Kept(tray, Top.status) EXCEPT !.retry = FALSE]
           [] Top.kind = "update" ->
                calls' = AfterStored(Top) /\ tray' = Kept(tray, IF done THEN Top.status ELSE tray.shown)
           [] Top.kind = "remove" -> calls' = Below /\ UNCHANGED tray
           [] OTHER -> calls' = Below /\ tray' = FailedAdd(tray)
  /\ lost' = \/ lost
             \/ /\ Top.kind = "undo" \/ (Top.kind = "add" /\ Top.answer = "failed")
                /\ \E i \in DOMAIN calls' : calls'[i].kind = "update"
             \/ Top.kind \in {"undo", "drop"} /\ Top.answer = "failed" /\ explorer.shows # Nothing
  /\ UNCHANGED <<explorer, trouble>>

(*                        Explorer and the status                        *)
Answer(answer) == calls' = Append(Below, [Top EXCEPT !.answer = answer])
ExplorerAnswers ==
  /\ calls # <<>> /\ Top.answer = "none" /\ explorer.runs
  /\ CASE Top.kind = "add" ->
            IF explorer.shows = Nothing
            THEN Answer("done") /\ explorer' = [explorer EXCEPT !.shows = Top.status]
            ELSE Answer("failed") /\ UNCHANGED explorer
       [] Top.kind = "version" ->
            Answer(IF explorer.shows = Nothing THEN "failed" ELSE "done") /\ UNCHANGED explorer
       [] Top.kind = "update" ->
            IF explorer.shows = Nothing THEN Answer("failed") /\ UNCHANGED explorer
            ELSE Answer("done") /\ explorer' = [explorer EXCEPT !.shows = Top.status]
       [] OTHER -> Answer("done") /\ explorer' = [explorer EXCEPT !.shows = Nothing]
  /\ UNCHANGED <<tray, trouble, lost>>

(* A busy Explorer lets a call time out; without Explorer every call fails at once. *)
CallFails ==
  /\ calls # <<>> /\ Top.answer = "none"
  /\ explorer.runs => trouble.refusals > 0
  /\ Answer("failed")
  /\ trouble' = IF explorer.runs THEN [trouble EXCEPT !.refusals = @ - 1] ELSE trouble
  /\ UNCHANGED <<explorer, tray, lost>>

ExplorerDies ==
  /\ explorer.runs /\ trouble.deaths > 0
  /\ explorer' = [runs |-> FALSE, shows |-> Nothing, announced |-> FALSE]
  /\ trouble' = [trouble EXCEPT !.deaths = @ - 1]
  /\ calls' = [i \in DOMAIN calls |->
                 IF calls[i].answer = "none" THEN [calls[i] EXCEPT !.answer = "failed"] ELSE calls[i]]
  /\ UNCHANGED <<tray, lost>>
(* Explorer's broadcast reaches the agent that runs when the taskbar appears. *)
ExplorerStarts ==
  /\ ~explorer.runs /\ calls = <<>>
  /\ explorer' = [explorer EXCEPT !.runs = TRUE, !.announced = TRUE]
  /\ UNCHANGED <<tray, calls, trouble, lost>>

StatusChanges ==
  /\ tray.now < MaxStatuses
  /\ tray' = [tray EXCEPT !.now = @ + 1]
  /\ UNCHANGED <<explorer, calls, trouble, lost>>

(* The agent starts with the session, possibly before the taskbar exists. *)
TInit ==
  /\ explorer \in {[runs |-> TRUE, shows |-> Nothing, announced |-> FALSE],
                   [runs |-> FALSE, shows |-> Nothing, announced |-> FALSE]}
  /\ tray = [icon |-> FALSE, shown |-> 1, now |-> 1, retry |-> FALSE]
  /\ calls = <<Call("add", 1)>>
  /\ trouble = [deaths |-> MaxDeaths, refusals |-> MaxRefusals] /\ lost = FALSE

TNext == \/ RefreshTray \/ RecreateTray \/ RetryTray \/ Returns
         \/ ExplorerAnswers \/ CallFails \/ ExplorerDies \/ ExplorerStarts \/ StatusChanges

(*                        properties                        *)
(* An icon the agent believes in exists: no object that was replaced deletes the icon that replaced it,  *)
(* however the calls of the shell nest, and whoever dies between them.                                   *)
Believed == tray.icon /\ explorer.runs /\ ~explorer.announced /\ calls = <<>>
IconIsThere == Believed /\ ~lost => explorer.shows # Nothing

(* While Explorer stays, the icon comes back after every refusal and restart, and shows the status.      *)
StatusShown ==
  <>[](explorer.runs /\ ~lost) => <>[](explorer.shows = MaxStatuses \/ tray.now < MaxStatuses)
====
