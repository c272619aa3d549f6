---- MODULE AgentExit ----
(***************************************************************************)
(* How the agent ends. The UI thread owns the window, the hooks and the timer; the input worker takes     *)
(* events from the channel and may wait for the window's answer to a gate request, may hang in a program  *)
(* it asks, and may panic. Exit comes from the tray menu (explicit) or as WM_CLOSE, for instance from an  *)
(* installer; the dialog that asks the user dispatches messages while it is open.                         *)
(***************************************************************************)
EXTENDS Naturals

CONSTANTS
  StuckAfter,   \* ticks after which an accepted exit that does not end is offered as a forced one
  AskAgain,     \* ticks between two such offers
  FaultLimit,   \* panics that stop the worker
  MaxFaults,    \* bound: panics
  MaxRequests   \* bound: exits requested

VARIABLES
  worker,   \* the worker: what it does, its panics in the window, worker_dead
  facts,    \* what blocks an exit: the gate, retained input, worker_busy, configuration_pending, and the
            \* hotkey that is down or waits for its modifiers
  closing,  \* shutdown, EXPLICIT_SHUTDOWN, the ticks since it began and until the next offer
  ui,       \* the window, the dialog that is open, ENGINE_FAULT, WORKER_STOP_REPORTED, the process
  asked     \* history: exits requested, whether the user chose Exit, whether that was accepted,
            \* whether they confirmed a forced one

xvars == <<worker, facts, closing, ui, asked>>

Least(a, b) == IF a < b THEN a ELSE b
Runs == ui.process = "runs"
Finished == worker.at = "gone"

(*                        the decision                        *)
(* shutdown_blockers: a finished worker cannot be busy, acknowledge a reload or recover held keys. *)
Blocked ==
  facts.gate \/ facts.hotkey \/ (~Finished /\ (facts.retained \/ facts.busy \/ facts.pending))

ShutdownFinished == closing.shutdown /\ Finished

Opened(dialog) == IF ui.dialog = "none" THEN dialog ELSE ui.dialog

(* finish_shutdown: WM_DESTROY drops the state, which joins the worker. *)
StuckDue(closes) == closes.explicit /\ closes.since >= StuckAfter /\ closes.next = 0 /\ ui.dialog = "none"
FinishShutdown(closes) ==
  IF ShutdownFinished
  THEN ui' = [ui EXCEPT !.window = FALSE, !.process = "left", !.dialog = "none"] /\ closing' = closes
  ELSE IF StuckDue(closes)
       THEN ui' = [ui EXCEPT !.dialog = "stuck"] /\ closing' = [closes EXCEPT !.next = AskAgain]
       ELSE closing' = closes /\ UNCHANGED ui

(* Mutant: a WM_CLOSE after the user's Exit forgets whose exit it is. *)
LastOneCounts(explicit) == explicit
(* EXPLICIT_SHUTDOWN: only the tray menu sets it, and nothing clears it. *)
ExplicitNow(explicit) == closing.explicit \/ explicit
(* request_shutdown: an exit under way is accepted again. *)
Accepts(explicit) ==
  /\ closing.shutdown \/ ~Blocked
  /\ FinishShutdown([closing EXCEPT !.shutdown = TRUE, !.explicit = ExplicitNow(explicit)])
Declines(explicit) ==
  /\ ~closing.shutdown /\ Blocked
  /\ ui' = IF explicit THEN [ui EXCEPT !.dialog = Opened("declined")] ELSE ui
  /\ UNCHANGED closing

(* WM_COMMAND is ignored while shutting down. *)
ChooseExit ==
  /\ Runs /\ asked.requests < MaxRequests /\ ~closing.shutdown
  /\ asked' = [asked EXCEPT !.requests = @ + 1, !.chosen = TRUE, !.accepted = @ \/ ~Blocked]
  /\ Accepts(TRUE) \/ Declines(TRUE)
  /\ UNCHANGED <<worker, facts>>

CloseMessage ==
  /\ Runs /\ asked.requests < MaxRequests
  /\ asked' = [asked EXCEPT !.requests = @ + 1]
  /\ Accepts(FALSE) \/ Declines(FALSE)
  /\ UNCHANGED <<worker, facts>>

(* confirm_exit_anyway, force_exit *)
AnswerDialog ==
  /\ Runs /\ ui.dialog # "none"
  /\ \/ /\ ui' = [ui EXCEPT !.dialog = "none"]
        /\ UNCHANGED asked
     \/ /\ ui' = [ui EXCEPT !.dialog = "none", !.process = "forced"]
        /\ asked' = [asked EXCEPT !.confirmed = TRUE]
  /\ UNCHANGED <<worker, facts, closing>>

(*                        the timer                        *)
TimerCloses ==
  /\ Runs /\ closing.shutdown
  /\ FinishShutdown([closing EXCEPT !.since = Least(@ + 1, StuckAfter),
                                    !.next = IF @ = 0 THEN 0 ELSE @ - 1])
  /\ UNCHANGED <<worker, facts, asked>>

FaultToHandle == ui.fault \/ (worker.dead /\ ~ui.reported)
(* handle_engine_fault, record_engine_fault: held keys leave the gate or are kept. *)
TimerHandlesFault ==
  /\ Runs /\ ~closing.shutdown /\ FaultToHandle
  /\ ui' = [ui EXCEPT !.fault = FALSE, !.reported = @ \/ worker.dead]
  /\ \E kept \in {facts.retained} \cup (IF facts.gate THEN {TRUE} ELSE {}) :
       facts' = [facts EXCEPT !.gate = FALSE, !.retained = kept, !.hotkey = FALSE,
                              !.pending = IF worker.dead THEN FALSE ELSE @]
  /\ UNCHANGED <<worker, closing, asked>>

(* expire_correction_gate, expire_retained_input *)
TimerExpires ==
  /\ Runs /\ ~closing.shutdown
  /\ \/ facts.gate /\ \E kept \in {facts.retained, TRUE} :
          facts' = [facts EXCEPT !.gate = FALSE, !.retained = kept]
     \/ facts.retained /\ facts' = [facts EXCEPT !.retained = FALSE]
  /\ UNCHANGED <<worker, closing, ui, asked>>

(*                        the hooks                        *)
(* contextual_hotkey_action: undo_hotkey_active and hotkey_waiting_for_release, until the keys are up. *)
HotkeyGoesDown ==
  /\ Runs /\ ~closing.shutdown /\ ~facts.hotkey
  /\ facts' = [facts EXCEPT !.hotkey = TRUE]
  /\ UNCHANGED <<worker, closing, ui, asked>>
HotkeyComesUp ==
  /\ Runs /\ ~closing.shutdown /\ facts.hotkey
  /\ facts' = [facts EXCEPT !.hotkey = FALSE]
  /\ UNCHANGED <<worker, closing, ui, asked>>

(* A saved configuration is handed to the worker, unless it stopped. *)
SendReload ==
  /\ Runs /\ ~closing.shutdown /\ ~worker.dead /\ ~facts.pending
  /\ facts' = [facts EXCEPT !.pending = TRUE]
  /\ UNCHANGED <<worker, closing, ui, asked>>

(*                        the worker                        *)
Alive == Runs /\ ~Finished
(* The stop flag is read before worker_busy is set: an exit accepted between the two meets a worker that *)
(* still handles one event.                                                                              *)
Receive ==
  /\ Alive /\ worker.at = "waiting" /\ ~closing.shutdown
  /\ worker' = [worker EXCEPT !.at = "received"]
  /\ UNCHANGED <<facts, closing, ui, asked>>
Begin ==
  /\ Alive /\ worker.at = "received"
  /\ worker' = [worker EXCEPT !.at = "processing"]
  /\ facts' = [facts EXCEPT !.busy = TRUE]
  /\ UNCHANGED <<closing, ui, asked>>
(* The channel is closed, or the flag is read before the next event. *)
Stop ==
  /\ Alive /\ worker.at = "waiting" /\ closing.shutdown
  /\ worker' = [worker EXCEPT !.at = "gone"]
  /\ UNCHANGED <<facts, closing, ui, asked>>
(* A reload was acknowledged; an event of a new epoch ends the hotkey's gesture (reset_for_epoch). *)
Done ==
  /\ Alive /\ worker.at = "processing"
  /\ worker' = [worker EXCEPT !.at = "waiting"]
  /\ \E pending \in {facts.pending, FALSE}, hotkey \in {facts.hotkey, FALSE} :
       facts' = [facts EXCEPT !.busy = FALSE, !.pending = pending, !.hotkey = hotkey]
  /\ UNCHANGED <<closing, ui, asked>>
(* GATE_ARM_MESSAGE is answered by the window; a closing agent refuses it. *)
AskWindow ==
  /\ Alive /\ worker.at = "processing"
  /\ worker' = [worker EXCEPT !.at = "asking"]
  /\ UNCHANGED <<facts, closing, ui, asked>>
WindowAnswers ==
  /\ Runs /\ worker.at = "asking" /\ ui.window
  /\ worker' = [worker EXCEPT !.at = "processing"]
  /\ \E armed \in {FALSE, ~closing.shutdown /\ ~facts.retained} :
       facts' = [facts EXCEPT !.gate = @ \/ armed]
  /\ UNCHANGED <<closing, ui, asked>>
(* A provider it asks may answer late or never. *)
Hang ==
  /\ Alive /\ worker.at = "processing"
  /\ worker' = [worker EXCEPT !.at = "hung"]
  /\ UNCHANGED <<facts, closing, ui, asked>>
Resume ==
  /\ Alive /\ worker.at = "hung"
  /\ worker' = [worker EXCEPT !.at = "processing"]
  /\ UNCHANGED <<facts, closing, ui, asked>>
(* run_contained: the guard clears worker_busy; a run of panics ends the loop. *)
Panics ==
  /\ Alive /\ worker.at = "processing" /\ worker.panics < MaxFaults
  /\ facts' = [facts EXCEPT !.busy = FALSE]
  /\ ui' = [ui EXCEPT !.fault = TRUE]
  /\ worker' = [worker EXCEPT !.at = IF worker.faults + 1 >= FaultLimit THEN "giving up" ELSE "waiting",
                              !.faults = @ + 1, !.panics = @ + 1]
  /\ UNCHANGED <<closing, asked>>
(* worker_dead is stored after the loop, then the thread returns. *)
GivesUp ==
  /\ Alive /\ worker.at \in {"giving up", "dead"}
  /\ worker' = IF worker.dead THEN [worker EXCEPT !.at = "gone"]
               ELSE [worker EXCEPT !.dead = TRUE, !.at = "dead"]
  /\ UNCHANGED <<facts, closing, ui, asked>>
FaultsAge ==
  /\ Alive /\ worker.at = "waiting" /\ worker.faults > 0
  /\ worker' = [worker EXCEPT !.faults = 0]
  /\ UNCHANGED <<facts, closing, ui, asked>>

XInit ==
  /\ worker = [at |-> "waiting", faults |-> 0, panics |-> 0, dead |-> FALSE]
  /\ facts = [gate |-> FALSE, retained |-> FALSE, busy |-> FALSE, pending |-> FALSE, hotkey |-> FALSE]
  /\ closing = [shutdown |-> FALSE, explicit |-> FALSE, since |-> 0, next |-> 0]
  /\ ui = [window |-> TRUE, dialog |-> "none", fault |-> FALSE, reported |-> FALSE, process |-> "runs"]
  /\ asked = [requests |-> 0, chosen |-> FALSE, accepted |-> FALSE, confirmed |-> FALSE]

XNext ==
  \/ ChooseExit \/ CloseMessage \/ AnswerDialog \/ TimerCloses \/ TimerHandlesFault \/ TimerExpires
  \/ HotkeyGoesDown \/ HotkeyComesUp \/ SendReload \/ Receive \/ Begin \/ Stop \/ Done \/ AskWindow \/ WindowAnswers \/ Hang \/ Resume \/ Panics
  \/ GivesUp \/ FaultsAge

(*                        properties                        *)
(* The window outlives the worker, which may wait for its answer; only a user who chose Exit is asked to  *)
(* leave anyway, and only their answer forces it: no installer's WM_CLOSE does.                           *)
ExitIsOrderly ==
  /\ ~ui.window => Finished
  /\ ui.dialog # "none" => asked.chosen
  /\ ui.process = "forced" => asked.confirmed

(* A worker that gave up blocks nothing for long: a later exit is accepted. And an exit the user started  *)
(* ends, or they are asked, again and again while the worker does not stop.                               *)
ExitIsPossible ==
  /\ (Runs /\ Finished) ~> (~Runs \/ ~Blocked)
  /\ []<>(asked.accepted => ~Runs \/ ui.dialog # "none")
====
