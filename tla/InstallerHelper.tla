----------------------------- MODULE InstallerHelper -----------------------------
(***************************************************************************)
(* The package helper of the installer: a process that obeys one numbered request at a time and    *)
(* keeps one background thread for what takes long. Its session (what is shown, chosen, reviewed)    *)
(* hands out tickets; a thread's result counts only for the ticket it was started with. A cancelled  *)
(* thread keeps its slot until it ends.                                                          *)
(*                                                                           *)
(* Catalogs, packages and signatures are data: a check or a download works, fails, or panics. The    *)
(* client of the helper is InstallerSetup.                                                      *)
(***************************************************************************)
EXTENDS Integers

CONSTANTS
  Offered,        \* the packages of the catalog
  MaxTroubles,    \* refusals, panics, lost replies and ends of processes
  MaxClicks       \* clicks of the user beside those that go on to the next page

ASSUME HelperAssumption == MaxTroubles \in Nat /\ MaxClicks \in Nat

VARIABLES
  session,    \* InstallerSession: its view, phase, ticket and the packages of the phase
  job,        \* InstallerWorker: the retained thread, or none
  helper,     \* the helper's loop: off, ready or ending, what it reports, and the request and reply
  mutex,      \* the two instance mutexes: who has a handle open, and the owner
  store,      \* the package store: whether it exists and which packages it holds
  left        \* what is left of the bounds

hvars == <<session, job, helper, mutex, store, left>>

Mutexes == {"agent", "settings"}
NoJob == [at |-> "none"]
NoReply == [view |-> 0, phase |-> "none"]
HelperOff == [at |-> "off", outcome |-> "none", request |-> [action |-> "none"], reply |-> NoReply]
FreshSession == [view |-> 0, phase |-> "idle", ticket |-> 0, ids |-> {}]
Working == {"checking", "downloading", "installing"}

HelperInit ==
  /\ session = FreshSession /\ job = NoJob /\ helper = HelperOff
  /\ mutex = [m \in Mutexes |-> [handles |-> {}, owner |-> "none"]]
  /\ \E exists \in BOOLEAN : store = [exists |-> exists, holds |-> {}]
  /\ left = [troubles |-> MaxTroubles, clicks |-> MaxClicks]

Use(what) == left[what] > 0 /\ left' = [left EXCEPT ![what] = @ - 1]

-------------------------------------------------------------------------------
(* A mutex that exists and that somebody owns: a running program's own mutex has no owner. *)
LeasesHeld == \A m \in Mutexes : mutex[m].owner # "none"
(* Open handles keep a mutex in existence. A process that ends closes them and abandons what it owns. *)
WithHandles(p) == [m \in Mutexes |-> [mutex[m] EXCEPT !.handles = @ \cup {p}]]
Closed(p) == [m \in Mutexes |-> [handles |-> mutex[m].handles \ {p},
                                 owner |-> IF mutex[m].owner = p THEN "none" ELSE mutex[m].owner]]

(* InstallerSession: every operation that changes what may be approved takes the next view. *)
In(phase) == session.phase = phase
NextView == session.view + 1
Begin(phase, ids) == session' = [view |-> NextView, phase |-> phase, ticket |-> NextView, ids |-> ids]
Idle(view) == [view |-> view, phase |-> "idle", ticket |-> 0, ids |-> {}]
Busy == job.at # "none"
Spawn(kind, ticket, ids) ==
  job' = [at |-> "starts", kind |-> kind, ticket |-> ticket, ids |-> ids, cancel |-> FALSE, result |-> "none"]

(* The reply says what the session shows after the operation; "missing" is the reason store_missing. *)
Missing == ~Busy /\ helper.request.action = "download" /\ LeasesHeld /\ ~store.exists
Replies(ok, outcome) ==
  helper' = [helper EXCEPT !.outcome = outcome, !.request = [action |-> "none"],
    !.reply = [view |-> session'.view, phase |-> session'.phase,
               busy |-> job'.at # "none", outcome |-> outcome, ok |-> ok, missing |-> ~ok /\ Missing]]
Accept(outcome) == Replies(TRUE, outcome)
Reject == Replies(FALSE, IF helper.outcome \in {"none", "pending"} THEN "failed" ELSE helper.outcome)
Refuse == UNCHANGED <<session, job, left>> /\ Reject

(* CheckCatalog; the store may be gone, or the thread may not start. *)
CheckCatalog ==
  \/ (Busy \/ session.phase \in Working) /\ Refuse
  \/ /\ ~Busy /\ session.phase \notin Working
     /\ \/ Begin("checking", {}) /\ Spawn("check", NextView, {}) /\ UNCHANGED left /\ Accept("pending")
        \/ Use("troubles") /\ UNCHANGED <<session, job>> /\ Reject
        \/ Use("troubles") /\ session' = Idle(NextView + 1) /\ UNCHANGED job /\ Reject

NewIds(ids) == ids

(* The whole selection is taken or refused; a catalog may have expired since. *)
Select(view, ids) ==
  IF Busy \/ view # session.view \/ ~In("selecting") THEN Refuse
  ELSE \/ /\ session' = [session EXCEPT !.view = NextView, !.ids = NewIds(ids)]
          /\ UNCHANGED <<job, left>> /\ Accept(helper.outcome)
       \/ Use("troubles") /\ UNCHANGED <<session, job>> /\ Reject

(* The store or the clock may fail before the download begins, the catalog or the thread's start after it. *)
ConfirmDownload(view) ==
  IF Busy \/ view # session.view \/ ~LeasesHeld \/ ~store.exists \/ ~In("selecting") THEN Refuse
  ELSE \/ /\ session.ids # {}
          /\ Begin("downloading", session.ids) /\ Spawn("download", NextView, session.ids)
          /\ UNCHANGED left /\ Accept("pending")
       \/ session.ids = {} /\ session' = Idle(NextView) /\ UNCHANGED <<job, left>> /\ Accept(helper.outcome)
       \/ Use("troubles") /\ session' \in {session, Idle(NextView), Idle(NextView + 1)} /\ UNCHANGED job /\ Reject

(* begin_install keeps the ticket and the view of the review. *)
ConfirmInstall(view) ==
  IF Busy \/ view # session.view \/ ~LeasesHeld \/ ~In("reviewing") THEN Refuse
  ELSE \/ /\ session' = [session EXCEPT !.phase = "installing"]
          /\ Spawn("install", session.ticket, session.ids) /\ UNCHANGED left /\ Accept("pending")
       \/ Use("troubles") /\ session' \in {session, Idle(session.view)} /\ UNCHANGED job /\ Reject

Cancellable == ~In("installing")
Flagged == IF Busy THEN [job EXCEPT !.cancel = TRUE] ELSE job

CancelOperation ==
  IF ~Cancellable THEN Refuse
  ELSE session' = Idle(NextView) /\ job' = Flagged /\ UNCHANGED left /\ Accept("cancelled")

HelperObeys ==
  /\ helper.at = "ready"
  /\ LET request == helper.request
     IN  \/ request.action = "check" /\ CheckCatalog
         \/ request.action = "select" /\ Select(request.view, request.ids)
         \/ request.action = "download" /\ ConfirmDownload(request.view)
         \/ request.action = "install" /\ ConfirmInstall(request.view)
         \/ request.action = "cancel" /\ CancelOperation
         \/ request.action = "poll" /\ UNCHANGED <<session, job, left>> /\ Accept(helper.outcome)
         \/ /\ request.action = "close"
            /\ helper' = [helper EXCEPT !.at = "ending"] /\ UNCHANGED <<session, job, left>>
  /\ UNCHANGED <<mutex, store>>

(* The loop ends: the session is cancelled, unless it installs, and the thread is waited for. *)
HelperEnding ==
  /\ helper.at = "ending"
  /\ IF job.at = "none"
     THEN helper' = HelperOff /\ mutex' = Closed("helper") /\ session' = FreshSession /\ UNCHANGED job
     ELSE /\ ~job.cancel /\ Cancellable
          /\ job' = Flagged /\ session' = Idle(NextView) /\ UNCHANGED <<helper, mutex>>
  /\ UNCHANGED <<store, left>>

(* A request or a reply cannot be read or written. *)
HelperFails ==
  /\ helper.at = "ready" /\ Use("troubles")
  /\ helper' = [helper EXCEPT !.at = "ending"]
  /\ UNCHANGED <<session, job, mutex, store>>

-------------------------------------------------------------------------------
(* The thread. Downloads and installations hold the leases: their handles keep programs out even
   when setup itself is gone. *)
(* Mutant: the thread trusts the leases the request found. *)
NoLeases == TRUE
ThreadLeases == LeasesHeld

JobStarts ==
  /\ job.at = "starts"
  /\ IF job.kind = "check" THEN job' = [job EXCEPT !.at = "works"] /\ UNCHANGED mutex
     ELSE IF ThreadLeases THEN job' = [job EXCEPT !.at = "works"] /\ mutex' = WithHandles("helper")
     ELSE job' = [job EXCEPT !.at = "ended", !.result = "failed"] /\ UNCHANGED mutex
  /\ UNCHANGED <<session, helper, store, left>>

JobEnds(result) == job' = [job EXCEPT !.at = "ended", !.result = result] /\ mutex' = Closed("helper")

(* The thread looks at the flag between any two steps of a check or a download; any step may fail. *)
ChecksCatalog ==
  \/ JobEnds("ok") /\ UNCHANGED <<store, left>>
  \/ job.cancel /\ JobEnds("cancelled") /\ UNCHANGED <<store, left>>
  \/ Use("troubles") /\ JobEnds("failed") /\ UNCHANGED store

Downloads ==
  \/ store.exists /\ JobEnds("ok") /\ UNCHANGED <<store, left>>
  \/ job.cancel /\ JobEnds("cancelled") /\ UNCHANGED <<store, left>>
  \/ Use("troubles") /\ JobEnds("failed") /\ UNCHANGED store

(* An installation is one commit of the store, whose outcome may be unknown; no flag stops it. *)
Installs ==
  \/ /\ store.exists /\ JobEnds("ok") /\ store' = [store EXCEPT !.holds = @ \cup job.ids] /\ UNCHANGED left
  \/ store.exists /\ Use("troubles") /\ JobEnds("failed") /\ UNCHANGED store
  \/ /\ store.exists /\ Use("troubles") /\ JobEnds("uncertain")
     /\ store' \in {store, [store EXCEPT !.holds = @ \cup job.ids]}

JobWorks ==
  /\ job.at = "works"
  /\ \/ job.kind = "check" /\ ChecksCatalog
     \/ job.kind = "download" /\ Downloads
     \/ job.kind = "install" /\ Installs
     \/ Use("troubles") /\ JobEnds("panic") /\ UNCHANGED store
  /\ UNCHANGED <<session, helper>>

(* InstallerWorker::poll, each turn of the loop and while the helper ends. *)
PhaseOf == [check |-> "checking", download |-> "downloading", install |-> "installing"]
Expected == session.phase = PhaseOf[job.kind] /\ session.ticket = job.ticket
Delivered ==
  IF job.kind = "install" \/ job.result # "ok" THEN Idle(session.view)
  ELSE [session EXCEPT !.phase = IF job.kind = "check" THEN "selecting" ELSE "reviewing"]

PollWorker ==
  /\ job.at = "ended" /\ helper.at \in {"ready", "ending"}
  /\ job' = NoJob
  /\ LET panic == job.result = "panic"
         counts == ~job.cancel /\ ~panic /\ Expected
         outcome == IF counts /\ job.result = "ok" THEN "ok"
                    ELSE IF counts /\ job.result = "uncertain" THEN "uncertain" ELSE "failed"
     IN  /\ session' = IF counts THEN Delivered
                       ELSE IF ~job.cancel /\ panic /\ Cancellable THEN Idle(NextView) ELSE session
         /\ helper' = [helper EXCEPT !.outcome = outcome]
  /\ UNCHANGED <<mutex, store, left>>

HelperStep == HelperObeys \/ HelperEnding \/ PollWorker
JobStep == JobStarts \/ JobWorks
===============================================================================
