------------------------- MODULE InstallerSetupProofs -------------------------
(***************************************************************************)
(* SetupWorksAlone and InstallsTheChoice, for any packages and any number of refusals, panics, lost  *)
(* replies, ends of processes and clicks.                                                          *)
(* The first is an argument about handles: a program that runs has its mutex, and neither setup nor  *)
(* the helper has a handle of a mutex that a program owns (Alone). The second is one about a dialogue *)
(* that may lose its replies: what the page shows, what it asks for and what the helper's session     *)
(* prepares may differ, but nothing is prepared that was not approved last (Choice).                 *)
(***************************************************************************)
EXTENDS InstallerSetup, TLAPS

Owners == {"none", "setup"}
Holders == Programs \cup {"setup", "helper"}
Phases == {"idle", "checking", "selecting", "downloading", "reviewing", "installing"}
Kinds == {"check", "download", "install"}
Results == {"none", "ok", "cancelled", "failed", "uncertain", "panic"}
Sessions == [view : Nat, phase : Phases, ticket : Nat, ids : SUBSET Offered]
Jobs == [at : {"starts", "works", "ended"}, kind : Kinds, ticket : Nat, ids : SUBSET Offered,
         cancel : BOOLEAN, result : Results]

Shape ==
  /\ mutex \in [Mutexes -> [handles : SUBSET Holders, owner : Owners]]
  /\ programs \in [Programs -> {"off", "fenced", "runs", "closing"}]
  /\ fence \in BOOLEAN
  /\ store \in [exists : BOOLEAN, holds : SUBSET Offered]
  /\ job = NoJob \/ job \in Jobs
  /\ session \in Sessions /\ approved \in SUBSET Offered
  /\ DOMAIN setup = {"at", "purpose", "sawAgent", "closedAgent", "installed", "newProfile"}
  /\ DOMAIN page = DOMAIN FreshPage /\ DOMAIN helper = DOMAIN HelperOff

(* While setup has the fence no program starts, and it has the fence when it replaces files. *)
Fenced ==
  /\ fence => FenceFree
  /\ setup.at \in {"initialize", "files"} => fence
  /\ setup.at \in {"restore", "ended", "gone"} => ~fence

(* A program that runs has its mutex to itself. *)
Owned ==
  \A m \in Mutexes :
    /\ mutex[m].owner = "setup" => "setup" \in mutex[m].handles
    /\ programs[m] \in {"runs", "closing"} =>
         m \in mutex[m].handles /\ mutex[m].handles \cap {"setup", "helper"} = {}

(* A thread that downloads or installs has a handle of both. *)
Leased ==
  job.at = "works" /\ job.kind # "check" => \A m \in Mutexes : "helper" \in mutex[m].handles

Alone == Fenced /\ Owned /\ Leased

-------------------------------------------------------------------------------
(* The dialogue lasts until setup stops. *)
Live == setup.at \notin {"stopping", "restore", "ended", "gone"}
Approved(ids) == ids \subseteq approved
Chosen == session.phase = "selecting" => Approved(session.ids)
Selecting == session.phase \in {"selecting", "idle"}

(* What is prepared, and what the thread installs, was approved. *)
Reviewed ==
  /\ session.phase = "checking" => session.ids = {}
  /\ session.phase \in {"downloading", "reviewing", "installing"} => Approved(session.ids)
  /\ job.at # "none" /\ job.kind = "install" => session.phase = "installing"
  /\ job.at \in {"starts", "works"} /\ job.kind = "install" => Approved(job.ids)

(* A request that a helper may still obey is the one the page waits for. *)
Requested ==
  /\ helper.reply # NoReply => helper.request.action = "none"
  /\ helper.at = "ready" =>
       /\ helper.request.action = "select" => Approved(helper.request.ids)
       /\ helper.request.action = "download" => Chosen
       /\ Live /\ helper.request.action # "none" =>
            page.awaiting /\ page.ready /\ page.action = helper.request.action

(* What a reply that was not read yet says is still so. *)
Answered ==
  /\ helper.reply # NoReply /\ helper.reply.phase = "selecting" => Selecting
  /\ Live /\ page.awaiting /\ helper.reply # NoReply =>
       /\ page.ready
       /\ helper.reply.ok /\ page.action = "cancel" => session.phase = "idle"
       /\ helper.reply.ok /\ page.action = "select" => helper.reply.phase = "selecting" /\ Chosen

(* What the page shows of a selection is so, unless it says that the helper failed; and while the programs
   are closed for a download the selection stays the one approved. *)
Shown ==
  Live =>
    /\ page.phase = "selecting" /\ ~page.awaiting /\ ~page.fault => Selecting
    /\ page.phase # "none" /\ ~page.fault => page.started /\ (page.awaiting \/ page.ready)
    /\ page.after => page.awaiting /\ page.action = "select" /\ page.started /\ page.ready
    /\ ~OnPages => ~page.awaiting /\ (setup.purpose # "files" => Chosen /\ page.started /\ page.ready)

Choice == Reviewed /\ Requested /\ Answered /\ Shown

IInv == Shape /\ Alone /\ Choice

-------------------------------------------------------------------------------
(* The helper obeys a request: it replies with what its session shows now. *)
LEMMA ReplyKeeps ==
  ASSUME IInv, NEW ok \in BOOLEAN, NEW outcome, helper.at = "ready", helper.request.action # "none",
         Replies(ok, outcome), UNCHANGED OnlyHelper, UNCHANGED <<mutex, store>>,
         job' = NoJob \/ job' \in Jobs, session' \in Sessions, Reviewed',
         job'.at = "works" => job.at = "works" /\ job'.kind = job.kind,
         ok /\ helper.request.action = "cancel" => session'.phase = "idle",
         ok /\ helper.request.action = "select" => session'.phase = "selecting" /\ Approved(session'.ids)
  PROVE  IInv'
<1>1. /\ helper'.at = helper.at /\ helper'.request.action = "none" /\ helper'.reply.phase = session'.phase
      /\ helper'.reply.ok = ok /\ DOMAIN helper' = DOMAIN helper
  BY DEF IInv, Shape, HelperOff, Replies
<1>2. UNCHANGED <<setup, page, programs, fence, approved, mutex, store>>
  BY DEF OnlyHelper
<1>3. Shape'
  BY <1>1, <1>2 DEF IInv, Shape
<1>4. Alone'
  BY <1>2 DEF IInv, Alone, Fenced, FenceFree, Owned, Leased
<1>5. Live => page.awaiting /\ page.ready /\ page.action = helper.request.action /\ OnPages
  BY DEF IInv, Choice, Requested, Shown
<1>6. Requested'
  BY <1>1 DEF Requested
<1>7. Answered'
  BY <1>1, <1>2, <1>5 DEF Answered, Live, Selecting, Chosen, Approved
<1>8. Shown'
  BY <1>2, <1>5 DEF IInv, Choice, Shown, Live, OnPages
<1> QED
  BY <1>3, <1>4, <1>6, <1>7, <1>8 DEF IInv, Choice

(* Of what a request is about the session knows no more than before when it is refused. *)
LEMMA RefusalKeeps ==
  ASSUME IInv, helper.at = "ready", helper.request.action # "none", Reject, UNCHANGED OnlyHelper,
         UNCHANGED <<mutex, store, job>>,
         \/ UNCHANGED session
         \/ session' \in {Idle(NextView), Idle(NextView + 1), Idle(session.view)} /\ session.phase # "installing"
  PROVE  IInv'
<1>1. PICK outcome : Replies(FALSE, outcome)
  BY DEF Reject
<1>2. session' \in Sessions
  BY DEF IInv, Shape, Sessions, Idle, NextView, Phases
<1>3. approved' = approved
  BY DEF OnlyHelper
<1>4. Reviewed'
  <2>1. CASE UNCHANGED session
    BY <1>3, <2>1 DEF IInv, Choice, Reviewed, Approved
  <2>2. CASE session' \in {Idle(NextView), Idle(NextView + 1), Idle(session.view)} /\ session.phase # "installing"
    <3>1. session'.phase = "idle"
      BY <2>2 DEF Idle
    <3> QED
      BY <2>2, <3>1 DEF IInv, Choice, Reviewed
  <2> QED
    BY <2>1, <2>2
<1> QED
  BY <1>1, <1>2, <1>4, ReplyKeeps DEF IInv, Shape

(* What HelperObeys leaves alone. *)
LEMMA Obeyed ==
  ASSUME IInv, HelperObeys, UNCHANGED OnlyHelper PROVE IInv'
<1> DEFINE request == helper.request
<1>0. /\ UNCHANGED <<mutex, store>> /\ approved' = approved /\ helper.at = "ready"
      /\ session \in Sessions /\ (job = NoJob \/ job \in Jobs) /\ approved \in SUBSET Offered
  BY DEF HelperObeys, OnlyHelper, IInv, Shape
<1>1. NextView \in Nat /\ NextView + 1 \in Nat
  BY <1>0 DEF NextView, Sessions
<1>2. ASSUME request.action # "none", Refuse PROVE IInv'
  BY <1>0, <1>2, RefusalKeeps DEF Refuse
<1>3. ASSUME request.action = "check", CheckCatalog PROVE IInv'
  <2>1. CASE Refuse
    BY <1>2, <1>3, <2>1
  <2>2. CASE /\ ~Busy /\ session.phase \notin Working
             /\ Begin("checking", {}) /\ Spawn("check", NextView, {}) /\ Accept("pending")
    <3>1. /\ session' = [view |-> NextView, phase |-> "checking", ticket |-> NextView, ids |-> {}]
          /\ job' = [at |-> "starts", kind |-> "check", ticket |-> NextView, ids |-> {}, cancel |-> FALSE,
                     result |-> "none"]
      BY <2>2 DEF Begin, Spawn
    <3>2. session' \in Sessions /\ job' \in Jobs
      BY <1>1, <3>1 DEF Sessions, Jobs, Phases, Kinds, Results
    <3>3. Reviewed'
      BY <3>1 DEF Reviewed
    <3> QED
      BY <1>0, <1>3, <2>2, <3>1, <3>2, <3>3, ReplyKeeps DEF Accept
  <2>3. CASE UNCHANGED <<session, job>> /\ Reject
    BY <1>0, <1>3, <2>3, RefusalKeeps
  <2>4. CASE session.phase \notin Working /\ session' = Idle(NextView + 1) /\ UNCHANGED job /\ Reject
    BY <1>0, <1>3, <2>4, RefusalKeeps DEF Working
  <2> QED
    BY <1>3, <2>1, <2>2, <2>3, <2>4 DEF CheckCatalog
<1>4. ASSUME request.action = "select", Select(request.view, request.ids) PROVE IInv'
  <2>1. CASE Refuse
    BY <1>2, <1>4, <2>1
  <2>2. CASE /\ In("selecting") /\ session' = [session EXCEPT !.view = NextView, !.ids = NewIds(request.ids)]
             /\ UNCHANGED job /\ Accept(helper.outcome)
    <3>1. request.ids \subseteq approved
      BY <1>0, <1>4 DEF IInv, Choice, Requested, Approved
    <3>2. session' \in Sessions /\ session'.phase = "selecting" /\ session'.ids = request.ids
      BY <1>0, <1>1, <2>2, <3>1 DEF Sessions, In, NewIds
    <3>3. Reviewed'
      BY <1>0, <2>2, <3>2 DEF IInv, Choice, Reviewed, Approved, In
    <3> QED
      BY <1>0, <1>4, <2>2, <3>1, <3>2, <3>3, ReplyKeeps DEF Accept, Approved
  <2>3. CASE UNCHANGED <<session, job>> /\ Reject
    BY <1>0, <1>4, <2>3, RefusalKeeps
  <2> QED
    BY <1>4, <2>1, <2>2, <2>3 DEF Select
<1>5. ASSUME request.action = "download", ConfirmDownload(request.view) PROVE IInv'
  <2>1. CASE Refuse
    BY <1>2, <1>5, <2>1
  <2>2. CASE /\ In("selecting") /\ Begin("downloading", session.ids)
             /\ Spawn("download", NextView, session.ids) /\ Accept("pending")
    <3>1. /\ session' = [view |-> NextView, phase |-> "downloading", ticket |-> NextView, ids |-> session.ids]
          /\ job' = [at |-> "starts", kind |-> "download", ticket |-> NextView, ids |-> session.ids,
                     cancel |-> FALSE, result |-> "none"]
      BY <2>2 DEF Begin, Spawn
    <3>2. session' \in Sessions /\ job' \in Jobs
      BY <1>0, <1>1, <3>1 DEF Sessions, Jobs, Phases, Kinds, Results
    <3>3. Approved(session.ids)
      BY <1>0, <1>5, <2>2 DEF IInv, Choice, Requested, Chosen, In
    <3>4. Reviewed'
      BY <1>0, <3>1, <3>3 DEF Reviewed, Approved
    <3> QED
      BY <1>0, <1>5, <2>2, <3>1, <3>2, <3>4, ReplyKeeps DEF Accept
  <2>3. CASE In("selecting") /\ session' = Idle(NextView) /\ UNCHANGED job /\ Accept(helper.outcome)
    <3>1. session' \in Sessions /\ session'.phase = "idle"
      BY <1>1, <2>3 DEF Sessions, Idle, Phases
    <3>2. Reviewed'
      BY <2>3, <3>1 DEF IInv, Choice, Reviewed, In
    <3> QED
      BY <1>0, <1>5, <2>3, <3>1, <3>2, ReplyKeeps DEF Accept
  <2>4. CASE In("selecting") /\ session' \in {Idle(NextView), Idle(NextView + 1)} /\ UNCHANGED job /\ Reject
    BY <1>0, <1>5, <2>4, RefusalKeeps DEF In
  <2>5. CASE UNCHANGED <<session, job>> /\ Reject
    BY <1>0, <1>5, <2>5, RefusalKeeps
  <2> QED
    BY <1>5, <2>1, <2>2, <2>3, <2>4, <2>5 DEF ConfirmDownload
<1>6. ASSUME request.action = "install", ConfirmInstall(request.view) PROVE IInv'
  <2>1. CASE Refuse
    BY <1>2, <1>6, <2>1
  <2>2. CASE /\ In("reviewing") /\ session' = [session EXCEPT !.phase = "installing"]
             /\ Spawn("install", session.ticket, session.ids) /\ Accept("pending")
    <3>1. job' = [at |-> "starts", kind |-> "install", ticket |-> session.ticket, ids |-> session.ids,
                  cancel |-> FALSE, result |-> "none"]
      BY <2>2 DEF Spawn
    <3>2. session' \in Sessions /\ session'.phase = "installing" /\ session'.ids = session.ids
      BY <1>0, <2>2 DEF Sessions, Phases
    <3>3. job' \in Jobs
      BY <1>0, <3>1 DEF Sessions, Jobs, Kinds, Results
    <3>4. Approved(session.ids)
      BY <2>2 DEF IInv, Choice, Reviewed, In
    <3>5. Reviewed'
      BY <1>0, <3>1, <3>2, <3>4 DEF Reviewed, Approved
    <3> QED
      BY <1>0, <1>6, <2>2, <3>1, <3>2, <3>3, <3>5, ReplyKeeps DEF Accept
  <2>3. CASE In("reviewing") /\ session' \in {session, Idle(session.view)} /\ UNCHANGED job /\ Reject
    BY <1>0, <1>6, <2>3, RefusalKeeps DEF In
  <2> QED
    BY <1>6, <2>1, <2>2, <2>3 DEF ConfirmInstall
<1>7. ASSUME request.action = "cancel", CancelOperation PROVE IInv'
  <2>1. CASE Refuse
    BY <1>2, <1>7, <2>1
  <2>2. CASE Cancellable /\ session' = Idle(NextView) /\ job' = Flagged /\ Accept("cancelled")
    <3>1. session' \in Sessions /\ session'.phase = "idle"
      BY <1>1, <2>2 DEF Sessions, Idle, Phases
    <3>2. \/ job = NoJob /\ job' = NoJob
          \/ job \in Jobs /\ job' \in Jobs /\ job'.at = job.at /\ job'.kind = job.kind
      BY <1>0, <2>2 DEF Flagged, Busy, NoJob, Jobs
    <3>3. Reviewed'
      <4>1. ~(job.at # "none" /\ job.kind = "install")
        BY <2>2 DEF Cancellable, In, IInv, Choice, Reviewed
      <4> QED
        BY <3>1, <3>2, <4>1 DEF Reviewed, NoJob
    <3> QED
      BY <1>0, <1>7, <2>2, <3>1, <3>2, <3>3, ReplyKeeps DEF Accept
  <2> QED
    BY <1>7, <2>1, <2>2 DEF CancelOperation
<1>8. ASSUME request.action = "poll", UNCHANGED <<session, job, left>>, Accept(helper.outcome) PROVE IInv'
  <2>1. Reviewed'
    BY <1>0, <1>8 DEF IInv, Choice, Reviewed, Approved
  <2> QED
    BY <1>0, <1>8, <2>1, ReplyKeeps DEF Accept
<1>9. ASSUME helper' = [helper EXCEPT !.at = "ending"], UNCHANGED <<session, job, left>> PROVE IInv'
  <2>1. /\ helper'.at = "ending" /\ helper'.request = helper.request /\ helper'.reply = helper.reply
        /\ DOMAIN helper' = DOMAIN helper
    BY <1>9 DEF IInv, Shape, HelperOff
  <2>2. UNCHANGED <<setup, page, programs, fence, approved, mutex, store, session, job>>
    BY <1>0, <1>9 DEF OnlyHelper
  <2> QED
    BY <2>1, <2>2 DEF IInv, Shape, Alone, Fenced, FenceFree, Owned, Leased, Choice, Reviewed, Approved,
                      Requested, Answered, Shown, Live, OnPages, Selecting, Chosen
<1> QED
  BY <1>3, <1>4, <1>5, <1>6, <1>7, <1>8, <1>9 DEF HelperObeys

(* The helper ends, or loses its client: it obeys no more. *)
LEMMA HelperStops ==
  ASSUME IInv, UNCHANGED <<OnlyHelper, store>>,
         \/ HelperEnding
         \/ helper' = [helper EXCEPT !.at = "ending"] /\ UNCHANGED <<session, job, mutex>>
  PROVE  IInv'
<1>0. /\ UNCHANGED <<setup, page, programs, fence, approved, store>>
      /\ session \in Sessions /\ (job = NoJob \/ job \in Jobs)
      /\ mutex \in [Mutexes -> [handles : SUBSET Holders, owner : Owners]]
  BY DEF OnlyHelper, IInv, Shape
<1>1. CASE helper' = [helper EXCEPT !.at = "ending"] /\ UNCHANGED <<session, job, mutex>>
  <2>1. /\ helper'.at = "ending" /\ helper'.request = helper.request /\ helper'.reply = helper.reply
        /\ DOMAIN helper' = DOMAIN helper
    BY <1>1 DEF IInv, Shape, HelperOff
  <2> QED
    BY <1>0, <1>1, <2>1 DEF IInv, Shape, Alone, Fenced, FenceFree, Owned, Leased, Choice, Reviewed, Approved,
                            Requested, Answered, Shown, Live, OnPages, Selecting, Chosen
<1>2. CASE /\ job = NoJob /\ helper' = HelperOff /\ mutex' = Closed("helper") /\ session' = FreshSession
           /\ UNCHANGED job
  <2>1. /\ helper'.at = "off" /\ helper'.request.action = "none" /\ helper'.reply = NoReply
        /\ DOMAIN helper' = DOMAIN HelperOff
    BY <1>2 DEF HelperOff
  <2>2. session' \in Sessions /\ session'.phase = "idle"
    BY <1>2 DEF FreshSession, Sessions, Phases
  <2>3. \A m \in Mutexes : mutex'[m] = [handles |-> mutex[m].handles \ {"helper"}, owner |-> mutex[m].owner]
    BY <1>0, <1>2 DEF Closed, Owners
  <2>4. mutex' \in [Mutexes -> [handles : SUBSET Holders, owner : Owners]]
    BY <1>0, <1>2, <2>3 DEF Closed
  <2>5. Shape'
    BY <1>0, <1>2, <2>1, <2>2, <2>4 DEF IInv, Shape
  <2>6. Owned'
    BY <1>0, <2>3 DEF IInv, Alone, Owned, Mutexes
  <2>7. Fenced' /\ Leased'
    BY <1>0, <1>2 DEF IInv, Alone, Fenced, FenceFree, Leased, NoJob
  <2>8. Choice'
    BY <1>0, <1>2, <2>1, <2>2 DEF IInv, Choice, Reviewed, Requested, Answered, Shown, Live, OnPages, Selecting,
                                  Chosen, NoJob
  <2> QED
    BY <2>5, <2>6, <2>7, <2>8 DEF IInv, Alone
<1>3. CASE /\ job # NoJob /\ ~job.cancel /\ Cancellable
           /\ job' = Flagged /\ session' = Idle(NextView) /\ UNCHANGED <<helper, mutex>>
  <2>1. job \in Jobs /\ job' \in Jobs /\ job'.at = job.at /\ job'.kind = job.kind
    BY <1>0, <1>3 DEF Flagged, Busy, NoJob, Jobs
  <2>2. session' \in Sessions /\ session'.phase = "idle"
    BY <1>0, <1>3 DEF Idle, NextView, Sessions, Phases
  <2>3. ~(job.at # "none" /\ job.kind = "install")
    BY <1>3 DEF Cancellable, In, IInv, Choice, Reviewed
  <2>4. Shape'
    BY <1>0, <1>3, <2>1, <2>2 DEF IInv, Shape
  <2>5. Alone'
    BY <1>0, <1>3, <2>1 DEF IInv, Alone, Fenced, FenceFree, Owned, Leased
  <2>6. Choice'
    BY <1>0, <1>3, <2>1, <2>2, <2>3 DEF IInv, Choice, Reviewed, Requested, Answered, Shown, Live, OnPages, Selecting,
                                        Chosen, Approved
  <2> QED
    BY <2>4, <2>5, <2>6 DEF IInv
<1>4. job.at = "none" => job = NoJob
  BY <1>0 DEF Jobs
<1>5. job = NoJob => job.at = "none"
  BY DEF NoJob
<1> QED
  BY <1>1, <1>2, <1>3, <1>4, <1>5 DEF HelperEnding

(* A result counts only for the ticket it was started with. *)
LEMMA Polled ==
  ASSUME IInv, PollWorker, UNCHANGED OnlyHelper PROVE IInv'
<1>0. /\ UNCHANGED <<setup, page, programs, fence, approved, mutex, store>>
      /\ session \in Sessions /\ job \in Jobs /\ job.at = "ended" /\ job' = NoJob
  BY DEF OnlyHelper, PollWorker, IInv, Shape, NoJob
<1>1. /\ helper'.at = helper.at /\ helper'.request = helper.request /\ helper'.reply = helper.reply
      /\ DOMAIN helper' = DOMAIN helper
  BY DEF PollWorker, IInv, Shape, HelperOff
<1>2. \/ session' = session
      \/ session.phase # "installing" /\ session' = Idle(NextView)
      \/ Expected /\ session' = Idle(session.view)
      \/ /\ Expected /\ job.kind = "check" /\ session' = [session EXCEPT !.phase = "selecting"]
      \/ /\ Expected /\ job.kind = "download" /\ session' = [session EXCEPT !.phase = "reviewing"]
  BY <1>0 DEF PollWorker, Delivered, Cancellable, In, Jobs, Kinds
<1>3. /\ session' \in Sessions
      /\ \/ session' = session
         \/ session.phase # "idle" /\ session'.phase = "idle"
         \/ session.phase = "idle" /\ session'.phase = "idle"
         \/ session.phase = "checking" /\ session'.phase = "selecting" /\ session'.ids = session.ids
         \/ session.phase = "downloading" /\ session'.phase = "reviewing" /\ session'.ids = session.ids
  <2>1. CASE session' = session
    BY <1>0, <2>1
  <2>2. CASE session' \in {Idle(NextView), Idle(session.view)}
    BY <1>0, <2>2 DEF Idle, NextView, Sessions, Phases
  <2>3. CASE Expected /\ job.kind = "check" /\ session' = [session EXCEPT !.phase = "selecting"]
    BY <1>0, <2>3 DEF Expected, PhaseOf, Sessions, Phases
  <2>4. CASE Expected /\ job.kind = "download" /\ session' = [session EXCEPT !.phase = "reviewing"]
    BY <1>0, <2>4 DEF Expected, PhaseOf, Sessions, Phases
  <2> QED
    BY <1>2, <2>1, <2>2, <2>3, <2>4
<1>4. Shape'
  BY <1>0, <1>1, <1>3 DEF IInv, Shape
<1>5. Alone'
  BY <1>0 DEF IInv, Alone, Fenced, FenceFree, Owned, Leased, NoJob
<1>6. Reviewed'
  BY <1>0, <1>3 DEF IInv, Choice, Reviewed, Approved, NoJob
<1>7. Chosen => Chosen'
  BY <1>0, <1>3 DEF IInv, Choice, Reviewed, Chosen, Approved
<1>8. (Selecting => Selecting') /\ (session.phase = "idle" => session'.phase = "idle")
  BY <1>3 DEF Selecting
<1>9. Requested' /\ Answered'
  BY <1>0, <1>1, <1>7, <1>8 DEF IInv, Choice, Requested, Answered, Live, Approved
<1>10. Shown'
  BY <1>0, <1>7, <1>8 DEF IInv, Choice, Shown, Live, OnPages
<1> QED
  BY <1>4, <1>5, <1>6, <1>9, <1>10 DEF IInv, Choice

-------------------------------------------------------------------------------
(* The thread moves on: it takes its leases only while setup has both mutexes. *)
LEMMA JobMoves ==
  ASSUME IInv, JobStep, UNCHANGED OnlyHelper PROVE IInv'
<1>0. /\ UNCHANGED <<setup, page, programs, fence, approved, helper, session>>
      /\ job \in Jobs /\ job.at \in {"starts", "works"}
      /\ mutex \in [Mutexes -> [handles : SUBSET Holders, owner : Owners]]
  BY DEF OnlyHelper, JobStep, JobStarts, JobWorks, IInv, Shape, NoJob
<1>1. CASE job.at = "starts" /\ job' = [job EXCEPT !.at = "works"] /\ LeasesHeld
           /\ mutex' = WithHandles("helper") /\ UNCHANGED store
  <2>1. \A m \in Mutexes : /\ mutex[m].owner = "setup" /\ mutex'[m].owner = "setup"
                           /\ mutex'[m].handles = mutex[m].handles \cup {"helper"}
    BY <1>0, <1>1 DEF LeasesHeld, WithHandles, Owners
  <2>2. mutex' \in [Mutexes -> [handles : SUBSET Holders, owner : Owners]]
    BY <1>0, <1>1 DEF WithHandles, Holders
  <2>3. job' \in Jobs /\ job'.at = "works" /\ job'.kind = job.kind /\ job'.ids = job.ids
    BY <1>0, <1>1 DEF Jobs
  <2>4. Shape'
    BY <1>0, <1>1, <2>2, <2>3 DEF IInv, Shape
  <2>5. Owned'
    BY <1>0, <2>1 DEF IInv, Alone, Owned
  <2>6. Fenced' /\ Leased'
    BY <1>0, <2>1 DEF IInv, Alone, Fenced, FenceFree, Leased
  <2>7. Choice'
    BY <1>0, <1>1, <2>3 DEF IInv, Choice, Reviewed, Requested, Answered, Shown, Live, OnPages, Selecting,
                            Chosen, Approved
  <2> QED
    BY <2>4, <2>5, <2>6, <2>7 DEF IInv, Alone
<1>2. CASE job.at = "starts" /\ job.kind = "check" /\ job' = [job EXCEPT !.at = "works"] /\ UNCHANGED <<mutex, store>>
  <2>1. job' \in Jobs /\ job'.at = "works" /\ job'.kind = job.kind /\ job'.ids = job.ids
    BY <1>0, <1>2 DEF Jobs
  <2> QED
    BY <1>0, <1>2, <2>1 DEF IInv, Shape, Alone, Fenced, FenceFree, Owned, Leased, Choice, Reviewed, Requested,
                            Answered, Shown, Live, OnPages, Selecting, Chosen, Approved
<1>3. CASE job.at = "starts" /\ job' = [job EXCEPT !.at = "ended", !.result = "failed"] /\ UNCHANGED <<mutex, store>>
  <2>1. job' \in Jobs /\ job'.at = "ended" /\ job'.kind = job.kind /\ job'.ids = job.ids
    BY <1>0, <1>3 DEF Jobs, Results
  <2> QED
    BY <1>0, <1>3, <2>1 DEF IInv, Shape, Alone, Fenced, FenceFree, Owned, Leased, Choice, Reviewed, Requested,
                            Answered, Shown, Live, OnPages, Selecting, Chosen, Approved
<1>4. ASSUME NEW result \in Results, job.at = "works", JobEnds(result), store' \in [exists : BOOLEAN, holds : SUBSET Offered]
      PROVE  IInv'
  <2>1. job' \in Jobs /\ job'.at = "ended" /\ job'.kind = job.kind /\ job'.ids = job.ids
    BY <1>0, <1>4 DEF JobEnds, Jobs
  <2>2. \A m \in Mutexes : mutex'[m] = [handles |-> mutex[m].handles \ {"helper"}, owner |-> mutex[m].owner]
    BY <1>0, <1>4 DEF JobEnds, Closed, Owners
  <2>3. mutex' \in [Mutexes -> [handles : SUBSET Holders, owner : Owners]]
    BY <1>0, <1>4, <2>2 DEF JobEnds, Closed
  <2>4. Shape'
    BY <1>0, <1>4, <2>1, <2>3 DEF IInv, Shape
  <2>5. Owned'
    BY <1>0, <2>2 DEF IInv, Alone, Owned, Mutexes
  <2>6. Fenced' /\ Leased'
    BY <1>0, <2>1 DEF IInv, Alone, Fenced, FenceFree, Leased
  <2>7. Choice'
    BY <1>0, <2>1 DEF IInv, Choice, Reviewed, Requested, Answered, Shown, Live, OnPages, Selecting, Chosen, Approved
  <2> QED
    BY <2>4, <2>5, <2>6, <2>7 DEF IInv, Alone
<1>5. store \in [exists : BOOLEAN, holds : SUBSET Offered] /\ job.ids \in SUBSET Offered
  BY <1>0 DEF IInv, Shape, Jobs
<1>6. [store EXCEPT !.holds = @ \cup job.ids] \in [exists : BOOLEAN, holds : SUBSET Offered]
  BY <1>5
<1>7. JobWorks => IInv'
  <2> SUFFICES ASSUME JobWorks PROVE IInv'
    OBVIOUS
  <2>1. job.at = "works" /\ \E result \in Results : JobEnds(result)
    BY DEF JobWorks, ChecksCatalog, Downloads, Installs, Results
  <2>2. store' \in {store, [store EXCEPT !.holds = @ \cup job.ids]}
    BY DEF JobWorks, ChecksCatalog, Downloads, Installs
  <2>3. store' \in [exists : BOOLEAN, holds : SUBSET Offered]
    BY <1>5, <1>6, <2>2
  <2>4. PICK result \in Results : JobEnds(result)
    BY <2>1
  <2> QED
    BY <1>4, <2>1, <2>3, <2>4
<1>8. JobStarts => IInv'
  BY <1>1, <1>2, <1>3 DEF JobStarts, ThreadLeases
<1> QED
  BY <1>7, <1>8 DEF JobStep

-------------------------------------------------------------------------------
(* The dialogue of the page changes neither what the helper's session has nor what setup holds: what it
   may do to the choice is this.                                                                   *)
LEMMA DialogueKeeps ==
  ASSUME Shape', Fenced', Owned', Leased', Reviewed', Requested', Answered', Shown'
  PROVE  IInv'
BY DEF IInv, Alone, Choice

(* What sending a request needs: it is the one the page then waits for. *)
LEMMA SendFields ==
  ASSUME NEW p, DOMAIN p = DOMAIN FreshPage, DOMAIN helper = DOMAIN HelperOff, NEW request, Send(p, request)
  PROVE  /\ page'.awaiting = TRUE /\ page'.action = request.action /\ DOMAIN page' = DOMAIN FreshPage
         /\ page'.phase = p.phase /\ page'.fault = p.fault /\ page'.after = p.after /\ page'.started = p.started
         /\ page'.ready = p.ready
         /\ helper'.at = helper.at /\ helper'.request = request /\ helper'.reply = NoReply
         /\ DOMAIN helper' = DOMAIN HelperOff
BY DEF Send, FreshPage, HelperOff

(* The page asks for something that approves nothing by itself. *)
LEMMA SendKeeps ==
  ASSUME IInv, NEW p, DOMAIN p = DOMAIN FreshPage, NEW request, Send(p, request),
         request.action \in {"check", "cancel", "poll", "install", "close", "download"},
         request.action = "download" => Chosen,
         Live => OnPages' /\ ~p.after /\ p.started /\ p.ready, Live' => Live,
         UNCHANGED <<session, job, programs, mutex, fence, approved>>, Shape', Fenced'
  PROVE  IInv'
<1>1. /\ page'.awaiting = TRUE /\ page'.action = request.action /\ page'.after = p.after
      /\ page'.started = p.started /\ page'.ready = p.ready
      /\ helper'.at = helper.at /\ helper'.request = request /\ helper'.reply = NoReply
  BY SendFields DEF IInv, Shape
<1>2. Owned' /\ Leased' /\ Reviewed'
  BY DEF IInv, Alone, Owned, Leased, Choice, Reviewed, Approved
<1>3. Requested'
  BY <1>1 DEF Requested, Chosen, Approved
<1>4. Answered'
  BY <1>1 DEF Answered
<1>5. Shown'
  BY <1>1 DEF Shown, OnPages
<1> QED
  BY <1>2, <1>3, <1>4, <1>5, DialogueKeeps

-------------------------------------------------------------------------------
(* A process that ends closes its handles and abandons what it owns. *)
LEMMA ClosedHandles ==
  ASSUME Shape, NEW p
  PROVE  /\ Closed(p) \in [Mutexes -> [handles : SUBSET Holders, owner : Owners]]
         /\ \A m \in Mutexes : /\ Closed(p)[m].handles = mutex[m].handles \ {p}
                               /\ Closed(p)[m].owner = IF mutex[m].owner = p THEN "none" ELSE mutex[m].owner
<1>1. mutex \in [Mutexes -> [handles : SUBSET Holders, owner : Owners]]
  BY DEF Shape
<1>2. \A m \in Mutexes : mutex[m].handles \in SUBSET Holders /\ mutex[m].owner \in Owners
  BY <1>1
<1> QED
  BY <1>2 DEF Closed, Owners

(* Programs start, find their mutex taken, run and end. *)
LEMMA ProgramsMove ==
  ASSUME IInv, NEW p \in Programs, ProgramStarts(p) \/ ProgramRuns(p) \/ ProgramEnds(p) PROVE IInv'
<1>0. /\ UNCHANGED <<session, job, helper, store, setup, page, fence, approved>>
      /\ programs \in [Programs -> {"off", "fenced", "runs", "closing"}]
      /\ mutex \in [Mutexes -> [handles : SUBSET Holders, owner : Owners]]
      /\ Shape /\ Fenced /\ Owned /\ Leased
  BY DEF ProgramStarts, ProgramRuns, ProgramEnds, IInv, Shape, Alone
<1>1. Choice'
  BY <1>0 DEF IInv, Choice, Reviewed, Requested, Answered, Shown, Live, OnPages, Selecting, Chosen, Approved
<1>2. Fenced'
  BY <1>0 DEF ProgramStarts, ProgramRuns, ProgramEnds, Fenced, FenceFree
<1>3. CASE UNCHANGED mutex /\ \E at \in {"off", "fenced"} : programs' = [programs EXCEPT ![p] = at]
  BY <1>0, <1>1, <1>2, <1>3 DEF IInv, Shape, Alone, Owned, Leased, Mutexes, Programs
<1>4. CASE p = "remote" /\ UNCHANGED mutex /\ programs' = [programs EXCEPT ![p] = "runs"]
  BY <1>0, <1>1, <1>2, <1>4 DEF IInv, Shape, Alone, Owned, Leased, Mutexes, Programs
<1>5. CASE /\ p # "remote" /\ mutex[p].handles = {}
           /\ programs' = [programs EXCEPT ![p] = "runs"] /\ mutex' = [mutex EXCEPT ![p].handles = {p}]
  <2>1. p \in Mutexes /\ p \notin {"setup", "helper"} /\ p \in Holders
    BY <1>5 DEF Programs, Mutexes, Holders
  <2>2. /\ mutex' \in [Mutexes -> [handles : SUBSET Holders, owner : Owners]]
        /\ mutex'[p].handles = {p} /\ mutex'[p].owner = mutex[p].owner
        /\ \A m \in Mutexes \ {p} : mutex'[m] = mutex[m]
    BY <1>0, <1>5, <2>1
  <2>3. /\ programs' \in [Programs -> {"off", "fenced", "runs", "closing"}]
        /\ \A m \in Mutexes \ {p} : programs'[m] = programs[m]
    BY <1>0, <1>5 DEF Mutexes, Programs
  <2>4. mutex[p].owner # "setup" /\ ~(job.at = "works" /\ job.kind # "check")
    BY <1>0, <1>5, <2>1 DEF Owned, Leased
  <2>5. Owned'
    BY <1>0, <2>1, <2>2, <2>3, <2>4 DEF Owned
  <2>6. Leased'
    BY <1>0, <2>4 DEF Leased
  <2> QED
    BY <1>0, <1>1, <1>2, <2>2, <2>3, <2>5, <2>6 DEF IInv, Alone, Shape
<1>6. CASE programs' = [programs EXCEPT ![p] = "off"] /\ mutex' = Closed(p)
  <2>1. /\ mutex' \in [Mutexes -> [handles : SUBSET Holders, owner : Owners]]
        /\ \A m \in Mutexes : mutex'[m].handles = mutex[m].handles \ {p}
        /\ \A m \in Mutexes : mutex'[m].owner = mutex[m].owner
    BY <1>0, <1>6, ClosedHandles DEF Owners, Programs
  <2>2. /\ programs' \in [Programs -> {"off", "fenced", "runs", "closing"}]
        /\ \A m \in Mutexes : programs'[m] = (IF m = p THEN "off" ELSE programs[m])
    BY <1>0, <1>6 DEF Mutexes, Programs
  <2>3. p \notin {"setup", "helper"}
    BY DEF Programs
  <2>4. Owned'
    BY <1>0, <2>1, <2>2, <2>3 DEF Owned
  <2>5. Leased'
    BY <1>0, <2>1, <2>3 DEF Leased
  <2> QED
    BY <1>0, <1>1, <1>2, <2>1, <2>2, <2>4, <2>5 DEF IInv, Alone, Shape
<1> QED
  BY <1>3, <1>4, <1>5, <1>6 DEF ProgramStarts, ProgramRuns, ProgramEnds

-------------------------------------------------------------------------------
(* Setup closes programs and takes handles while the page and the helper rest. *)
LEMMA ChoiceRests ==
  ASSUME IInv, UNCHANGED <<session, job, helper, page, approved>>, Live' => Live,
         Live' => OnPages' \/ (~OnPages /\ setup'.purpose = setup.purpose)
  PROVE  Choice'
<1>1. (Live => Live') \/ ~Live'
  OBVIOUS
<1>2. Reviewed'
  BY DEF IInv, Choice, Reviewed, Approved
<1>3. Requested'
  BY DEF IInv, Choice, Requested, Chosen, Approved
<1>4. Answered'
  BY DEF IInv, Choice, Answered, Chosen, Approved, Selecting
<1>5. Shown'
  <2> SUFFICES ASSUME Live' PROVE Shown'
    BY DEF Shown
  <2>1. Live
    OBVIOUS
  <2>2. /\ page'.phase = "selecting" /\ ~page'.awaiting /\ ~page'.fault => Selecting'
        /\ page'.phase # "none" /\ ~page'.fault => page'.started /\ (page'.awaiting \/ page'.ready)
        /\ page'.after => page'.awaiting /\ page'.action = "select" /\ page'.started /\ page'.ready
    BY <2>1 DEF IInv, Choice, Shown, Selecting
  <2>3. ~OnPages' => ~page'.awaiting /\ (setup'.purpose # "files" => Chosen' /\ page'.started /\ page'.ready)
    BY <2>1 DEF IInv, Choice, Shown, Chosen, Approved
  <2> QED
    BY <2>2, <2>3 DEF Shown
<1> QED
  BY <1>2, <1>3, <1>4, <1>5 DEF Choice

(* Setup gives up what it holds. *)
LEMMA ReleaseKeeps ==
  ASSUME IInv, ReleaseLeases, UNCHANGED <<job, programs>>
  PROVE  /\ mutex' \in [Mutexes -> [handles : SUBSET Holders, owner : Owners]]
         /\ fence' = FALSE /\ Owned' /\ Leased'
<1>1. /\ mutex' \in [Mutexes -> [handles : SUBSET Holders, owner : Owners]] /\ fence' = FALSE
      /\ \A m \in Mutexes : mutex'[m].handles = mutex[m].handles \ {"setup"}
      /\ \A m \in Mutexes : mutex'[m].owner = "none"
  <2>1. \A m \in Mutexes : mutex[m].owner \in Owners
    BY DEF IInv, Shape
  <2> QED
    BY <2>1, ClosedHandles DEF IInv, ReleaseLeases, Owners
<1>2. Owned'
  BY <1>1 DEF IInv, Alone, Owned, Mutexes
<1>3. Leased'
  BY <1>1 DEF IInv, Alone, Leased
<1> QED
  BY <1>1, <1>2, <1>3

(* The steps between the language page and the moment setup has everything for itself. *)
LEMMA ClosingSteps ==
  ASSUME IInv, \/ Prepare \/ ForeignChecked \/ CloseStep \/ AcquireInstallationFence
               \/ Lease("agent", "leaseAgent", "leaseSettings") \/ Lease("settings", "leaseSettings", "fence")
  PROVE  IInv'
<1>0. /\ UNCHANGED <<session, job, helper, store, page, approved>>
      /\ DOMAIN setup = {"at", "purpose", "sawAgent", "closedAgent", "installed", "newProfile"}
      /\ Shape /\ Fenced /\ Owned /\ Leased
      /\ mutex \in [Mutexes -> [handles : SUBSET Holders, owner : Owners]]
  BY DEF Prepare, ForeignChecked, CloseStep, NothingToClose, CloseInstance, AcquireInstallationFence, Lease,
         OnlySetup, IInv, Shape, Alone
<1>1. /\ setup.at \in {"prepare", "foreign", "foreignAgain", "closeSettings", "closeAgent", "fence", "leaseAgent",
                       "leaseSettings"}
      /\ setup'.at \in {"initialize", "foreign", "foreignAgain", "pages", "closeSettings", "closeAgent", "leaseAgent",
                        "leaseSettings", "fence"}
      /\ setup'.purpose = setup.purpose /\ DOMAIN setup' = DOMAIN setup
  BY <1>0 DEF Prepare, ForeignChecked, CloseStep, NothingToClose, CloseInstance, AcquireInstallationFence, Lease,
              Goes, Refusal
<1>2. Choice'
  BY <1>0, <1>1, ChoiceRests DEF Live, OnPages
<1>3. CASE UNCHANGED <<mutex, fence, programs>> /\ (setup'.at = "initialize" => fence)
  BY <1>0, <1>1, <1>2, <1>3 DEF IInv, Shape, Alone, Fenced, FenceFree, Owned, Leased
<1>4. CASE ReleaseLeases /\ UNCHANGED programs /\ setup'.at # "initialize"
  <2>1. /\ mutex' \in [Mutexes -> [handles : SUBSET Holders, owner : Owners]]
        /\ fence' = FALSE /\ Owned' /\ Leased'
    BY <1>0, <1>4, ReleaseKeeps
  <2> QED
    BY <1>0, <1>1, <1>2, <1>4, <2>1 DEF IInv, Shape, Alone, Fenced
<1>5. ASSUME NEW p \in {"settings", "agent"}, UNCHANGED fence, setup'.at # "initialize",
             \/ programs' = [programs EXCEPT ![p] = "closing"] /\ UNCHANGED mutex /\ programs[p] = "runs"
             \/ programs' = [programs EXCEPT ![p] = "off"] /\ mutex' = Closed(p)
      PROVE  IInv'
  <2>1. p \in Programs /\ p \in Mutexes /\ p \notin {"setup", "helper"}
    BY DEF Programs, Mutexes
  <2>2. programs \in [Programs -> {"off", "fenced", "runs", "closing"}]
    BY <1>0 DEF Shape
  <2>3. Mutexes \subseteq Programs
    BY DEF Mutexes, Programs
  <2>4. CASE programs' = [programs EXCEPT ![p] = "closing"] /\ UNCHANGED mutex /\ programs[p] = "runs"
    <3>1. /\ programs' \in [Programs -> {"off", "fenced", "runs", "closing"}]
          /\ \A m \in Programs : programs'[m] = (IF m = p THEN "closing" ELSE programs[m])
      BY <2>1, <2>2, <2>4
    <3>2. Owned' /\ Leased'
      BY <1>0, <2>1, <2>3, <2>4, <3>1 DEF Owned, Leased
    <3>3. Fenced'
      BY <1>0, <1>1, <1>5, <2>1, <2>4 DEF Fenced, FenceFree
    <3> QED
      BY <1>0, <1>1, <1>2, <1>5, <2>4, <3>1, <3>2, <3>3 DEF IInv, Alone, Shape
  <2>5. CASE programs' = [programs EXCEPT ![p] = "off"] /\ mutex' = Closed(p)
    <3>1. /\ programs' \in [Programs -> {"off", "fenced", "runs", "closing"}]
          /\ \A m \in Programs : programs'[m] = (IF m = p THEN "off" ELSE programs[m])
      BY <2>1, <2>2, <2>5
    <3>2. /\ mutex' \in [Mutexes -> [handles : SUBSET Holders, owner : Owners]]
          /\ \A m \in Mutexes : mutex'[m].handles = mutex[m].handles \ {p}
          /\ \A m \in Mutexes : mutex'[m].owner = mutex[m].owner
      BY <1>0, <2>1, <2>5, ClosedHandles DEF Owners
    <3>3. Owned' /\ Leased'
      BY <1>0, <2>1, <2>3, <3>1, <3>2 DEF Owned, Leased
    <3>4. Fenced'
      BY <1>0, <1>1, <1>5, <3>1 DEF Fenced, FenceFree
    <3> QED
      BY <1>0, <1>1, <1>2, <1>5, <3>1, <3>2, <3>3, <3>4 DEF IInv, Alone, Shape
  <2> QED
    BY <1>5, <2>4, <2>5
<1>6. ASSUME NEW m \in Mutexes, NewMutex(m), UNCHANGED <<fence, programs>>, setup'.at # "initialize",
             mutex' = [mutex EXCEPT ![m] = [handles |-> @.handles \cup {"setup"}, owner |-> "setup"]]
      PROVE  IInv'
  <2>1. /\ mutex' \in [Mutexes -> [handles : SUBSET Holders, owner : Owners]]
        /\ mutex'[m].handles = {"setup"} /\ \A n \in Mutexes \ {m} : mutex'[n] = mutex[n]
    BY <1>0, <1>6 DEF NewMutex, Holders, Owners
  <2>2. programs[m] \notin {"runs", "closing"} /\ ~(job.at = "works" /\ job.kind # "check")
    BY <1>0, <1>6 DEF Owned, Leased, NewMutex
  <2>3. Owned' /\ Leased'
    BY <1>0, <1>6, <2>1, <2>2 DEF Owned, Leased
  <2> QED
    BY <1>0, <1>1, <1>2, <1>6, <2>1, <2>3 DEF IInv, Alone, Shape, Fenced, FenceFree
<1>7. CASE FenceFree /\ fence' = TRUE /\ UNCHANGED <<mutex, programs>>
  BY <1>0, <1>1, <1>2, <1>7 DEF IInv, Shape, Alone, Fenced, FenceFree, Owned, Leased
<1>8. CASE Prepare
  BY <1>0, <1>3, <1>4, <1>8 DEF Prepare, HoldsAll
<1>9. CASE ForeignChecked
  BY <1>0, <1>3, <1>9 DEF ForeignChecked, OnlySetup, Refusal, Goes
<1>10. CASE CloseStep
  BY <1>0, <1>3, <1>5, <1>10 DEF CloseStep, NothingToClose, CloseInstance, OnlySetup, Refusal, Goes
<1>11. CASE AcquireInstallationFence
  BY <1>0, <1>4, <1>7, <1>11 DEF AcquireInstallationFence, Refusal
<1>12. ASSUME NEW m \in Mutexes, NEW at, NEW next, next # "initialize", Lease(m, at, next) PROVE IInv'
  BY <1>0, <1>4, <1>6, <1>12 DEF Lease, Refusal, Goes
<1> QED
  BY <1>8, <1>9, <1>10, <1>11, <1>12 DEF Mutexes
-------------------------------------------------------------------------------
(* With everything for itself setup makes the store, then downloads or replaces the files. *)
LEMMA InitializeKeeps ==
  ASSUME IInv, InitializeInstallation PROVE IInv'
<1>0. /\ UNCHANGED <<session, job, programs, approved>>
      /\ DOMAIN setup = {"at", "purpose", "sawAgent", "closedAgent", "installed", "newProfile"}
      /\ Shape /\ Fenced /\ Owned /\ Leased /\ setup.at = "initialize" /\ fence /\ Live /\ ~OnPages
      /\ store \in [exists : BOOLEAN, holds : SUBSET Offered]
  BY DEF InitializeInstallation, IInv, Shape, Alone, Fenced, Live, OnPages
<1>1. InitializeIfAbsent \in [exists : BOOLEAN, holds : SUBSET Offered]
  BY <1>0 DEF InitializeIfAbsent
<1>2. ASSUME NEW at \in {"files", "pages"}, Goes(at)
      PROVE  setup'.at = at /\ setup'.purpose = setup.purpose /\ DOMAIN setup' = DOMAIN setup
  BY <1>0, <1>2 DEF Goes
<1>3. CASE store' = InitializeIfAbsent /\ UNCHANGED <<mutex, fence, page, helper>> /\ Goes("files")
  <2>1. setup'.at = "files" /\ setup'.purpose = setup.purpose /\ DOMAIN setup' = DOMAIN setup
    BY <1>2, <1>3
  <2>2. Choice'
    BY <1>0, <1>3, <2>1, ChoiceRests DEF OnPages
  <2> QED
    BY <1>0, <1>1, <1>3, <2>1, <2>2 DEF IInv, Shape, Alone, Fenced, FenceFree, Owned, Leased
<1>4. CASE /\ store' = InitializeIfAbsent /\ UNCHANGED <<mutex, fence>> /\ setup.purpose # "files"
           /\ Goes("pages") /\ Send(page, [action |-> "download", view |-> page.view])
  <2> DEFINE request == [action |-> "download", view |-> page.view]
  <2>1. setup'.at = "pages" /\ DOMAIN setup' = DOMAIN setup
    BY <1>2, <1>4
  <2>2. DOMAIN page' = DOMAIN FreshPage /\ DOMAIN helper' = DOMAIN HelperOff
    BY <1>0, <1>4, SendFields DEF Shape
  <2>3. Shape' /\ Fenced'
    BY <1>0, <1>1, <1>4, <2>1, <2>2 DEF Shape, Fenced, FenceFree
  <2>4. /\ Chosen /\ page.ready /\ ~page.after /\ page.started /\ OnPages'
    BY <1>0, <1>4, <2>1 DEF IInv, Choice, Shown, OnPages
  <2> QED
    BY <1>0, <1>4, <2>3, <2>4, SendKeeps DEF Shape
<1>5. CASE ReleaseLeases /\ Refusal /\ UNCHANGED <<page, helper>> /\ store' \in {store, InitializeIfAbsent}
  <2>1. setup'.at = "pages" /\ DOMAIN setup' = DOMAIN setup
    BY <1>2, <1>5 DEF Goes, Refusal
  <2>2. Choice'
    BY <1>0, <1>5, <2>1, ChoiceRests DEF OnPages
  <2>3. /\ mutex' \in [Mutexes -> [handles : SUBSET Holders, owner : Owners]]
        /\ fence' = FALSE /\ Owned' /\ Leased'
    BY <1>0, <1>5, ReleaseKeeps
  <2> QED
    BY <1>0, <1>1, <1>5, <2>1, <2>2, <2>3 DEF IInv, Shape, Alone, Fenced
<1> QED
  BY <1>3, <1>4, <1>5 DEF InitializeInstallation

(* The end of setup, and a setup that is gone: what it holds goes, what its helper holds stays. *)
LEMMA EndingSteps ==
  ASSUME IInv, FilesReplaced \/ StopPackageHelper \/ Restore \/ SetupCrashes PROVE IInv'
<1>0. /\ UNCHANGED <<session, job, approved>>
      /\ DOMAIN setup = {"at", "purpose", "sawAgent", "closedAgent", "installed", "newProfile"}
      /\ Shape /\ Fenced /\ Owned /\ Leased
      /\ store \in [exists : BOOLEAN, holds : SUBSET Offered]
      /\ programs \in [Programs -> {"off", "fenced", "runs", "closing"}]
  BY DEF FilesReplaced, StopPackageHelper, Restore, SetupCrashes, OnlySetup, IInv, Shape, Alone
<1>1. ASSUME ReleaseLeases, UNCHANGED <<programs, store, helper>>, ~Live', DOMAIN setup' = DOMAIN setup,
             DOMAIN page' = DOMAIN FreshPage, setup'.at \notin {"initialize", "files"}
      PROVE  IInv'
  <2>1. /\ mutex' \in [Mutexes -> [handles : SUBSET Holders, owner : Owners]]
        /\ fence' = FALSE /\ Owned' /\ Leased'
    BY <1>0, <1>1, ReleaseKeeps
  <2>2. Shape' /\ Fenced'
    BY <1>0, <1>1, <2>1 DEF Shape, Fenced
  <2>3. Choice'
    BY <1>0, <1>1 DEF IInv, Choice, Reviewed, Requested, Answered, Shown, Chosen, Approved, Selecting
  <2> QED
    BY <2>1, <2>2, <2>3 DEF IInv, Alone
<1>2. CASE FilesReplaced
  <2>1. /\ setup'.at = "stopping" /\ DOMAIN setup' = DOMAIN setup
        /\ UNCHANGED <<session, job, helper, store, page, programs, fence, approved, mutex>>
    BY <1>0, <1>2 DEF FilesReplaced, OnlySetup
  <2>2. ~Live'
    BY <2>1 DEF Live
  <2>3. Choice'
    BY <2>1, <2>2 DEF IInv, Choice, Reviewed, Requested, Answered, Shown, Chosen, Approved, Selecting
  <2> QED
    BY <1>0, <2>1, <2>3 DEF IInv, Alone, Shape, Fenced, FenceFree, Owned, Leased
<1>3. CASE StopPackageHelper
  <2>1. CASE Send(page, [action |-> "close"]) /\ UNCHANGED <<setup, mutex, fence>>
    <3>1. ~Live /\ ~Live'
      BY <1>3, <2>1 DEF StopPackageHelper, Live
    <3>2. DOMAIN page' = DOMAIN FreshPage /\ DOMAIN helper' = DOMAIN HelperOff
      BY <1>0, <2>1, SendFields DEF Shape
    <3>3. UNCHANGED <<store, programs>>
      BY <1>3 DEF StopPackageHelper
    <3>4. Shape' /\ Fenced'
      BY <1>0, <2>1, <3>2, <3>3 DEF Shape, Fenced, FenceFree
    <3> QED
      BY <1>0, <2>1, <3>1, <3>3, <3>4, SendKeeps DEF Shape
  <2>2. CASE /\ page' = [page EXCEPT !.ready = FALSE, !.started = FALSE, !.busy = FALSE, !.awaiting = FALSE]
             /\ ReleaseLeases /\ UNCHANGED helper /\ Goes(IF setup.installed THEN "ended" ELSE "restore")
    <3>1. DOMAIN page' = DOMAIN FreshPage
      BY <1>0, <2>2 DEF Shape, FreshPage
    <3>2. setup'.at \in {"ended", "restore"} /\ DOMAIN setup' = DOMAIN setup
      BY <1>0, <2>2 DEF Goes
    <3>3. UNCHANGED <<store, programs>>
      BY <1>3 DEF StopPackageHelper
    <3> QED
      BY <1>1, <2>2, <3>1, <3>2, <3>3 DEF Live
  <2> QED
    BY <1>3, <2>1, <2>2 DEF StopPackageHelper
<1>4. CASE Restore
  <2>1. /\ setup'.at = "ended" /\ DOMAIN setup' = DOMAIN setup /\ ~fence
        /\ UNCHANGED <<session, job, helper, mutex, page, fence, approved>>
    BY <1>0, <1>4 DEF Restore, Goes, Fenced
  <2>2. store' \in [exists : BOOLEAN, holds : SUBSET Offered]
    <3>1. store' = store \/ store' = [exists |-> FALSE, holds |-> {}]
      BY <1>4 DEF Restore
    <3>2. [exists |-> FALSE, holds |-> {}] \in [exists : BOOLEAN, holds : SUBSET Offered]
      OBVIOUS
    <3> QED
      BY <1>0, <3>1, <3>2
  <2>3. /\ programs' \in [Programs -> {"off", "fenced", "runs", "closing"}]
        /\ \A m \in Mutexes : programs'[m] = programs[m] \/ programs'[m] = "fenced"
    BY <1>0, <1>4 DEF Restore, Mutexes, Programs
  <2>4. Owned' /\ Leased' /\ Fenced' /\ Shape'
    BY <1>0, <2>1, <2>2, <2>3 DEF Owned, Leased, Fenced, Shape
  <2>5. Choice'
    BY <2>1 DEF IInv, Choice, Reviewed, Requested, Answered, Shown, Live, Chosen, Approved, Selecting
  <2> QED
    BY <2>4, <2>5 DEF IInv, Alone
<1>5. CASE SetupCrashes
  <2>1. setup'.at = "gone" /\ DOMAIN setup' = DOMAIN setup
    BY <1>0, <1>5 DEF SetupCrashes, Goes
  <2>2. DOMAIN page' = DOMAIN FreshPage /\ UNCHANGED <<programs, store, helper>> /\ ReleaseLeases
    BY <1>0, <1>5 DEF SetupCrashes, Shape
  <2> QED
    BY <1>1, <2>1, <2>2 DEF Live
<1> QED
  BY <1>2, <1>3, <1>4, <1>5

-------------------------------------------------------------------------------
(* The buttons of the pages, and the helper of a page that opens. *)
LEMMA HelperFailedKeeps ==
  ASSUME IInv, NEW p, DOMAIN p = DOMAIN FreshPage, page' = HelperFailed(p), OnPages,
         helper.at = "ready" => helper.request.action = "none",
         UNCHANGED <<session, job, helper, mutex, store, setup, programs, fence, approved>>
  PROVE  IInv'
<1>1. DOMAIN page' = DOMAIN FreshPage /\ ~page'.awaiting /\ page'.fault /\ ~page'.after
  BY DEF HelperFailed, Failed, FreshPage
<1>2. Shape' /\ Alone' /\ Reviewed'
  BY <1>1 DEF IInv, Shape, Alone, Fenced, FenceFree, Owned, Leased, Choice, Reviewed, Approved
<1>3. Requested' /\ Answered'
  BY <1>1 DEF IInv, Choice, Requested, Answered, Selecting
<1>4. Shown'
  BY <1>1 DEF Shown, OnPages
<1> QED
  BY <1>2, <1>3, <1>4 DEF IInv, Choice

LEMMA PageOpensKeeps ==
  ASSUME IInv, PageOpens PROVE IInv'
<1> DEFINE p == [page EXCEPT !.at = "languages", !.started = TRUE, !.complete = FALSE, !.fault = FALSE,
                             !.english = FALSE, !.retry = FALSE, !.reviewed = FALSE]
<1>0. /\ UNCHANGED <<session, job, mutex, store, setup, programs, fence, approved>>
      /\ OnPages /\ Live /\ DOMAIN page = DOMAIN FreshPage /\ DOMAIN helper = DOMAIN HelperOff
  BY DEF PageOpens, OnPages, Live, IInv, Shape
<1>1. /\ DOMAIN p = DOMAIN FreshPage /\ p.started /\ ~p.fault /\ p.after = page.after /\ p.ready = page.ready
      /\ p.phase = page.phase /\ p.awaiting = page.awaiting
  BY <1>0 DEF FreshPage
<1> HIDE DEF p
<1>2. CASE ~page.started \/ (page.retry /\ ~Waiting)
  <2>1. ~page.after
    BY <1>0, <1>2 DEF IInv, Choice, Shown, Waiting
  <2>2. CASE page.ready /\ Send(p, [action |-> "check"])
    <3>1. DOMAIN page' = DOMAIN FreshPage /\ DOMAIN helper' = DOMAIN HelperOff
      BY <1>0, <1>1, <2>2, SendFields
    <3>2. Shape' /\ Fenced'
      BY <1>0, <3>1 DEF IInv, Shape, Alone, Fenced, FenceFree
    <3> QED
      BY <1>0, <1>1, <2>1, <2>2, <3>2, SendKeeps DEF OnPages, Live
  <2>3. CASE /\ ~page.ready /\ page' = [p EXCEPT !.awaiting = TRUE]
             /\ helper' \in {HelperOff, [HelperOff EXCEPT !.at = "ready"]}
    <3>1. /\ DOMAIN page' = DOMAIN FreshPage /\ page'.awaiting /\ page'.started /\ ~page'.after /\ page'.ready = page.ready
      BY <1>0, <1>1, <2>1, <2>3 DEF FreshPage
    <3>2. /\ DOMAIN helper' = DOMAIN HelperOff /\ helper'.reply = NoReply /\ helper'.request.action = "none"
      BY <2>3 DEF HelperOff
    <3>3. Shape' /\ Alone' /\ Reviewed'
      BY <1>0, <3>1, <3>2 DEF IInv, Shape, Alone, Fenced, FenceFree, Owned, Leased, Choice, Reviewed, Approved
    <3>4. Requested' /\ Answered'
      BY <3>2 DEF Requested, Answered
    <3>5. Shown'
      BY <1>0, <3>1 DEF Shown, OnPages
    <3> QED
      BY <3>3, <3>4, <3>5 DEF IInv, Choice
  <2>4. CASE ~page.ready /\ page' = HelperFailed(p) /\ UNCHANGED helper
    <3>1. helper.at = "ready" => helper.request.action = "none"
      BY <1>0, <2>4 DEF IInv, Choice, Requested
    <3> QED
      BY <1>0, <1>1, <2>4, <3>1, HelperFailedKeeps
  <2> QED
    BY <1>2, <2>2, <2>3, <2>4 DEF PageOpens, PackageStart, p
<1>3. CASE page' = [page EXCEPT !.at = "languages"] /\ UNCHANGED helper
  <2>1. /\ DOMAIN page' = DOMAIN FreshPage /\ page'.awaiting = page.awaiting /\ page'.started = page.started
        /\ page'.after = page.after /\ page'.ready = page.ready /\ page'.phase = page.phase /\ page'.fault = page.fault
        /\ page'.action = page.action
    BY <1>0, <1>3 DEF FreshPage
  <2>2. Shape' /\ Alone' /\ Reviewed'
    BY <1>0, <1>3, <2>1 DEF IInv, Shape, Alone, Fenced, FenceFree, Owned, Leased, Choice, Reviewed, Approved
  <2>3. Requested' /\ Answered' /\ Shown'
    BY <1>0, <1>3, <2>1 DEF IInv, Choice, Requested, Answered, Shown, Live, OnPages, Chosen, Approved, Selecting
  <2> QED
    BY <2>2, <2>3 DEF IInv, Choice
<1> QED
  BY <1>2, <1>3 DEF PageOpens

LEMMA NextKeeps ==
  ASSUME IInv, NEW ids \in SUBSET Offered, Next(ids) PROVE IInv'
<1>0. /\ UNCHANGED <<session, job, mutex, store, setup, programs, fence>>
      /\ OnPages /\ Live /\ ~page.awaiting /\ DOMAIN page = DOMAIN FreshPage /\ DOMAIN helper = DOMAIN HelperOff
  BY DEF Next, OnPages, Live, IInv, Shape, Waiting
<1>1. CASE page' = [page EXCEPT !.at = "later"] /\ UNCHANGED <<helper, approved>>
  <2>1. /\ DOMAIN page' = DOMAIN FreshPage /\ page'.awaiting = page.awaiting /\ page'.started = page.started
        /\ page'.after = page.after /\ page'.ready = page.ready /\ page'.phase = page.phase /\ page'.fault = page.fault
        /\ page'.action = page.action
    BY <1>0, <1>1 DEF FreshPage
  <2>2. Shape' /\ Alone' /\ Reviewed'
    BY <1>0, <1>1, <2>1 DEF IInv, Shape, Alone, Fenced, FenceFree, Owned, Leased, Choice, Reviewed, Approved
  <2>3. Requested' /\ Answered' /\ Shown'
    BY <1>0, <1>1, <2>1 DEF IInv, Choice, Requested, Answered, Shown, Live, OnPages, Chosen, Approved, Selecting
  <2> QED
    BY <2>2, <2>3 DEF IInv, Choice
<1>2. CASE /\ ~page.fault /\ page.phase = "selecting" /\ approved' = ids
           /\ Send([page EXCEPT !.after = TRUE], [action |-> "select", view |-> page.view, ids |-> ids])
  <2> DEFINE p == [page EXCEPT !.after = TRUE]
             request == [action |-> "select", view |-> page.view, ids |-> ids]
  <2>1. DOMAIN p = DOMAIN FreshPage /\ p.started = page.started /\ p.ready = page.ready
    BY <1>0 DEF FreshPage
  <2>2. request.action = "select" /\ request.ids = ids /\ Send(p, request)
    BY <1>2
  <2> HIDE DEF p, request
  <2>3. /\ page'.awaiting /\ page'.action = "select" /\ DOMAIN page' = DOMAIN FreshPage
        /\ page'.started = page.started /\ page'.ready = page.ready
        /\ helper'.at = helper.at /\ helper'.request = request /\ helper'.reply = NoReply
        /\ DOMAIN helper' = DOMAIN HelperOff
    BY <1>0, <2>1, <2>2, SendFields
  <2>4. Selecting /\ page.started /\ page.ready
    BY <1>0, <1>2 DEF IInv, Choice, Shown
  <2>5. Shape' /\ Alone'
    BY <1>0, <1>2, <2>3 DEF IInv, Shape, Alone, Fenced, FenceFree, Owned, Leased
  <2>6. Reviewed'
    BY <1>0, <2>4 DEF IInv, Choice, Reviewed, Selecting
  <2>7. Requested' /\ Answered'
    BY <1>2, <2>2, <2>3, <2>4 DEF Requested, Answered, Approved
  <2>8. Shown'
    BY <1>0, <2>3, <2>4 DEF Shown, OnPages
  <2> QED
    BY <2>5, <2>6, <2>7, <2>8 DEF IInv, Choice
<1> QED
  BY <1>1, <1>2 DEF Next

LEMMA ButtonsKeep ==
  ASSUME IInv, CancelButton \/ InstallButton PROVE IInv'
<1>0. /\ UNCHANGED <<session, job, helper, mutex, store, programs, fence, approved>>
      /\ OnPages /\ Live /\ DOMAIN page = DOMAIN FreshPage
      /\ DOMAIN setup = {"at", "purpose", "sawAgent", "closedAgent", "installed", "newProfile"}
  BY DEF CancelButton, InstallButton, OnlySetup, OnPages, Live, IInv, Shape
<1>1. CASE CancelButton /\ page' = [page EXCEPT !.cancel = TRUE] /\ UNCHANGED setup
  <2>1. /\ DOMAIN page' = DOMAIN FreshPage /\ page'.awaiting = page.awaiting /\ page'.started = page.started
        /\ page'.after = page.after /\ page'.ready = page.ready /\ page'.phase = page.phase /\ page'.fault = page.fault
        /\ page'.action = page.action
    BY <1>0, <1>1 DEF FreshPage
  <2>2. Shape' /\ Alone' /\ Reviewed'
    BY <1>0, <1>1, <2>1 DEF IInv, Shape, Alone, Fenced, FenceFree, Owned, Leased, Choice, Reviewed, Approved
  <2>3. Requested' /\ Answered' /\ Shown'
    BY <1>0, <1>1, <2>1 DEF IInv, Choice, Requested, Answered, Shown, Live, OnPages, Chosen, Approved, Selecting
  <2> QED
    BY <2>2, <2>3 DEF IInv, Choice
<1>2. CASE CancelButton /\ Goes("stopping") /\ UNCHANGED page
  <2>1. setup'.at = "stopping" /\ DOMAIN setup' = DOMAIN setup
    BY <1>0, <1>2 DEF Goes
  <2>2. Choice'
    BY <1>0, <1>2, <2>1, ChoiceRests DEF Live
  <2> QED
    BY <1>0, <1>2, <2>1, <2>2 DEF IInv, Shape, Alone, Fenced, FenceFree, Owned, Leased
<1>3. CASE InstallButton
  <2>1. setup'.at = "prepare" /\ setup'.purpose = "files" /\ DOMAIN setup' = DOMAIN setup /\ page' = page
    BY <1>0, <1>3 DEF InstallButton, OnlySetup
  <2>2. ~page.awaiting
    BY <1>3 DEF InstallButton, Waiting
  <2>3. Shape' /\ Alone'
    BY <1>0, <2>1 DEF IInv, Shape, Alone, Fenced, FenceFree, Owned, Leased
  <2>4. Reviewed' /\ Requested' /\ Answered' /\ Shown'
    BY <1>0, <2>1, <2>2 DEF IInv, Choice, Reviewed, Requested, Answered, Shown, Live, OnPages, Chosen, Approved,
                            Selecting
  <2> QED
    BY <2>3, <2>4 DEF IInv, Choice
<1> QED
  BY <1>1, <1>2, <1>3 DEF CancelButton

-------------------------------------------------------------------------------
(* The timer of the page. *)
ReplyRead == OnPages /\ page.started /\ page.awaiting /\ helper.reply # NoReply
PageRests == <<session, job, store, programs>>

(* After a reply was read there is none, and the page waits for nothing. *)
LEMMA ReadFields ==
  ASSUME DOMAIN page = DOMAIN FreshPage
  PROVE  /\ DOMAIN Read = DOMAIN FreshPage /\ ~Read.awaiting /\ Read.phase = helper.reply.phase
         /\ Read.fault = page.fault /\ Read.after = page.after /\ Read.started = page.started /\ Read.ready = page.ready
         /\ Read.action = page.action
BY DEF Read, FreshPage

LEMMA RefusalRead ==
  ASSUME IInv, ReplyRead, ReadRefusal, UNCHANGED PageRests PROVE IInv'
<1>0. /\ UNCHANGED <<session, job, store, programs, setup, approved>> /\ OnPages /\ Live
      /\ DOMAIN page = DOMAIN FreshPage /\ DOMAIN helper = DOMAIN HelperOff
  BY DEF ReplyRead, ReadRefusal, PageRests, IInv, Shape, OnPages, Live
<1>1. /\ helper'.reply = NoReply /\ helper'.request = helper.request /\ helper.request.action = "none"
      /\ helper'.at = helper.at /\ DOMAIN helper' = DOMAIN HelperOff
  BY <1>0 DEF ReadRefusal, HelperOff, IInv, Choice, Requested, ReplyRead
<1>2. /\ DOMAIN page' = DOMAIN FreshPage /\ ~page'.awaiting /\ page'.phase = helper.reply.phase /\ ~page'.after
      /\ page'.started = page.started /\ page'.ready = page.ready
  <2>1. page' \in {[Read EXCEPT !.english = TRUE, !.after = FALSE], Failed([Read EXCEPT !.retry = TRUE]), Failed(Read)}
    BY DEF ReadRefusal
  <2> QED
    BY <1>0, <2>1, ReadFields DEF Failed, FreshPage
<1>3. page.ready /\ page.started /\ (helper.reply.phase = "selecting" => Selecting)
  BY <1>0 DEF IInv, Choice, Answered, ReplyRead
<1>4. /\ mutex' \in [Mutexes -> [handles : SUBSET Holders, owner : Owners]]
      /\ Owned' /\ Leased' /\ Fenced' /\ fence' \in BOOLEAN
  <2>1. CASE UNCHANGED <<mutex, fence>>
    BY <1>0, <2>1 DEF IInv, Alone, Shape, Fenced, FenceFree, Owned, Leased
  <2>2. CASE ReleaseLeases
    <3>1. /\ mutex' \in [Mutexes -> [handles : SUBSET Holders, owner : Owners]]
          /\ fence' = FALSE /\ Owned' /\ Leased'
      BY <1>0, <2>2, ReleaseKeeps
    <3> QED
      BY <1>0, <3>1 DEF Fenced, OnPages
  <2> QED
    BY <2>1, <2>2 DEF ReadRefusal
<1>5. Shape'
  BY <1>0, <1>1, <1>2, <1>4 DEF IInv, Shape
<1>6. Reviewed' /\ Requested' /\ Answered'
  BY <1>0, <1>1 DEF IInv, Choice, Reviewed, Requested, Answered, Approved
<1>7. Shown'
  BY <1>0, <1>2, <1>3 DEF Shown, OnPages, Selecting
<1> QED
  BY <1>4, <1>5, <1>6, <1>7, DialogueKeeps

(* The cancellation that was accepted approves nothing more; what is reviewed is installed at once; what
   is chosen is downloaded as soon as the programs are closed.                                     *)
LEMMA AnswerRead ==
  ASSUME IInv, ReplyRead, ReadAnswer, UNCHANGED PageRests PROVE IInv'
<1> DEFINE shown == IF page.installing /\ ~Read.busy /\ Read.phase = "idle" /\ helper.reply.outcome = "ok"
                    THEN [Read EXCEPT !.installing = FALSE, !.complete = TRUE] ELSE Read
           first == Read.phase = "reviewing" /\ ~page.reviewed
<1>0. /\ UNCHANGED <<session, job, store, programs, mutex, fence>> /\ OnPages /\ Live
      /\ DOMAIN page = DOMAIN FreshPage /\ DOMAIN helper = DOMAIN HelperOff
      /\ DOMAIN setup = {"at", "purpose", "sawAgent", "closedAgent", "installed", "newProfile"}
      /\ page.started /\ page.awaiting
  BY DEF ReplyRead, ReadAnswer, PageRests, IInv, Shape, OnPages, Live
<1>1. /\ DOMAIN shown = DOMAIN FreshPage /\ ~shown.awaiting /\ shown.phase = helper.reply.phase
      /\ shown.fault = page.fault /\ shown.after = page.after /\ shown.started = page.started
      /\ shown.ready = page.ready /\ shown.action = page.action /\ Read.phase = helper.reply.phase
  BY <1>0, ReadFields DEF FreshPage
<1>2. /\ page.ready /\ (helper.reply.phase = "selecting" => Selecting) /\ helper.request.action = "none"
      /\ page.action = "cancel" => session.phase = "idle"
      /\ page.action = "select" => helper.reply.phase = "selecting" /\ Chosen
      /\ page.after => page.action = "select"
  BY <1>0 DEF IInv, Choice, Requested, Answered, Shown, ReplyRead, ReadAnswer, Refused
<1> HIDE DEF shown
<1>3. Owned' /\ Leased'
  BY <1>0 DEF IInv, Alone, Owned, Leased
<1>4. ASSUME helper' = [helper EXCEPT !.reply = NoReply]
      PROVE  /\ helper'.reply = NoReply /\ helper'.request.action = "none" /\ helper'.at = helper.at
             /\ DOMAIN helper' = DOMAIN HelperOff
  BY <1>0, <1>2, <1>4 DEF HelperOff
<1>5. CASE /\ page.action = "cancel"
           /\ page' = [shown EXCEPT !.reviewed = FALSE, !.complete = FALSE, !.after = FALSE]
           /\ approved' = {} /\ helper' = [helper EXCEPT !.reply = NoReply] /\ UNCHANGED setup
  <2>1. /\ DOMAIN page' = DOMAIN FreshPage /\ ~page'.awaiting /\ page'.phase = helper.reply.phase /\ ~page'.after
        /\ page'.started = page.started /\ page'.ready = page.ready
    BY <1>1, <1>5 DEF FreshPage
  <2>2. Shape' /\ Fenced'
    BY <1>0, <1>4, <1>5, <2>1 DEF IInv, Shape, Alone, Fenced, FenceFree
  <2>3. Reviewed'
    BY <1>0, <1>2, <1>5 DEF IInv, Choice, Reviewed
  <2>4. Requested' /\ Answered'
    BY <1>4, <1>5 DEF Requested, Answered
  <2>5. Shown'
    BY <1>0, <1>2, <1>5, <2>1 DEF Shown, OnPages, Selecting
  <2> QED
    BY <1>3, <2>2, <2>3, <2>4, <2>5, DialogueKeeps
<1>6. CASE /\ page.action # "cancel" /\ Read.phase = "reviewing" /\ UNCHANGED <<setup, approved>>
           /\ Send([shown EXCEPT !.reviewed = TRUE, !.installing = TRUE], [action |-> "install", view |-> Read.view])
  <2> DEFINE p == [shown EXCEPT !.reviewed = TRUE, !.installing = TRUE]
             request == [action |-> "install", view |-> Read.view]
  <2>1. DOMAIN p = DOMAIN FreshPage /\ p.started /\ p.ready /\ p.after = page.after
    BY <1>0, <1>1, <1>2 DEF FreshPage
  <2>2. ~page.after
    BY <1>1, <1>2, <1>6
  <2>3. Send(p, request) /\ request.action = "install"
    BY <1>6
  <2> HIDE DEF p, request
  <2>4. DOMAIN page' = DOMAIN FreshPage /\ DOMAIN helper' = DOMAIN HelperOff
    BY <1>0, <2>1, <2>3, SendFields
  <2>5. Shape' /\ Fenced'
    BY <1>0, <1>6, <2>4 DEF IInv, Shape, Alone, Fenced, FenceFree
  <2> QED
    BY <1>0, <1>6, <2>1, <2>2, <2>3, <2>5, SendKeeps DEF OnPages, Live
<1>7. CASE /\ page.action # "cancel" /\ helper' = [helper EXCEPT !.reply = NoReply] /\ UNCHANGED approved
           /\ page' = [shown EXCEPT !.after = @ /\ Read.phase # "selecting", !.reviewed = @ \/ first]
           /\ setup' = IF page.after /\ Read.phase = "selecting"
                       THEN [setup EXCEPT !.at = "prepare", !.purpose = "download"] ELSE setup
  <2>1. /\ DOMAIN page' = DOMAIN FreshPage /\ ~page'.awaiting /\ page'.phase = helper.reply.phase
        /\ page'.started = page.started /\ page'.ready = page.ready
        /\ page'.after = (shown.after /\ Read.phase # "selecting")
    BY <1>1, <1>7 DEF FreshPage
  <2>2. ~page'.after
    BY <1>1, <1>2, <2>1
  <2>3. /\ DOMAIN setup' = DOMAIN setup
        /\ \/ setup' = setup
           \/ setup'.at = "prepare" /\ Chosen
    BY <1>0, <1>2, <1>7
  <2>4. Shape' /\ Fenced'
    BY <1>0, <1>4, <1>7, <2>1, <2>3 DEF IInv, Shape, Alone, Fenced, FenceFree
  <2>5. Reviewed'
    BY <1>0, <1>7 DEF IInv, Choice, Reviewed, Approved
  <2>6. Requested' /\ Answered'
    BY <1>0, <1>4, <1>7, <2>1 DEF Requested, Answered, IInv, Choice, Selecting
  <2>7. Shown'
    BY <1>0, <1>2, <1>7, <2>1, <2>2, <2>3 DEF Shown, OnPages, Selecting, Chosen, Approved
  <2> QED
    BY <1>3, <2>4, <2>5, <2>6, <2>7, DialogueKeeps
<1> QED
  BY <1>5, <1>6, <1>7 DEF ReadAnswer, shown

LEMMA TimerKeeps ==
  ASSUME IInv, PackageTimerProc PROVE IInv'
<1>0. /\ UNCHANGED <<session, job, store, programs>> /\ OnPages /\ Live /\ page.started
      /\ DOMAIN page = DOMAIN FreshPage /\ DOMAIN helper = DOMAIN HelperOff
  BY DEF PackageTimerProc, IInv, Shape, OnPages, Live
<1>1. ASSUME NEW p, DOMAIN p = DOMAIN FreshPage, NEW request, Send(p, request), p.started, p.ready, ~p.after,
             request.action \in {"check", "cancel", "poll"}, UNCHANGED <<setup, mutex, fence, approved>>
      PROVE  IInv'
  <2>1. DOMAIN page' = DOMAIN FreshPage /\ DOMAIN helper' = DOMAIN HelperOff
    BY <1>0, <1>1, SendFields
  <2>2. Shape' /\ Fenced'
    BY <1>0, <1>1, <2>1 DEF IInv, Shape, Alone, Fenced, FenceFree
  <2> QED
    BY <1>0, <1>1, <2>2, SendKeeps DEF OnPages, Live
<1>2. ASSUME NEW p, DOMAIN p = DOMAIN FreshPage, page' = HelperFailed(p),
             helper.at = "ready" => helper.request.action = "none",
             UNCHANGED <<helper, setup, mutex, fence, approved>>
      PROVE  IInv'
  BY <1>0, <1>2, HelperFailedKeeps
<1>3. ~page.awaiting \/ ~page.ready => ~page.after
  BY <1>0 DEF IInv, Choice, Shown
<1>4. CASE HelperGone /\ page' = HelperFailed([page EXCEPT !.ready = FALSE]) /\ UNCHANGED <<helper, setup, mutex, fence, approved>>
  BY <1>0, <1>2, <1>4 DEF HelperGone, FreshPage
<1>5. CASE /\ ~page.ready /\ Send([page EXCEPT !.ready = TRUE], [action |-> "check"])
           /\ UNCHANGED <<setup, mutex, fence, approved>>
  <2> DEFINE p == [page EXCEPT !.ready = TRUE]
  <2>1. DOMAIN p = DOMAIN FreshPage /\ p.started /\ p.ready /\ ~p.after
    BY <1>0, <1>3, <1>5 DEF FreshPage
  <2>2. Send(p, [action |-> "check"])
    BY <1>5
  <2> HIDE DEF p
  <2> QED
    BY <1>1, <1>5, <2>1, <2>2
<1>6. CASE /\ ~page.ready /\ helper.at # "ready" /\ page' = HelperFailed(page)
           /\ UNCHANGED <<helper, setup, mutex, fence, approved>>
  BY <1>0, <1>2, <1>6
<1>7. CASE page.awaiting /\ helper.reply # NoReply /\ (ReadRefusal \/ ReadAnswer)
  BY <1>0, <1>7, RefusalRead, AnswerRead DEF ReplyRead, PageRests
<1>8. CASE /\ helper.reply # NoReply /\ page' = HelperFailed([page EXCEPT !.cancel = FALSE])
           /\ UNCHANGED <<helper, setup, mutex, fence, approved>>
  <2>1. helper.request.action = "none"
    BY <1>8 DEF IInv, Choice, Requested
  <2> QED
    BY <1>0, <1>2, <1>8, <2>1 DEF FreshPage
<1>9. CASE /\ page.ready /\ ~page.awaiting /\ UNCHANGED <<setup, mutex, fence, approved>>
           /\ Send([page EXCEPT !.cancel = FALSE], [action |-> "cancel"])
  <2> DEFINE p == [page EXCEPT !.cancel = FALSE]
  <2>1. DOMAIN p = DOMAIN FreshPage /\ p.started /\ p.ready /\ ~p.after
    BY <1>0, <1>3, <1>9 DEF FreshPage
  <2>2. Send(p, [action |-> "cancel"])
    BY <1>9
  <2> HIDE DEF p
  <2> QED
    BY <1>1, <1>9, <2>1, <2>2
<1>10. CASE /\ page.ready /\ ~page.awaiting /\ UNCHANGED <<setup, mutex, fence, approved>>
            /\ Send(page, [action |-> "poll"])
  BY <1>0, <1>1, <1>3, <1>10
<1> QED
  BY <1>4, <1>5, <1>6, <1>7, <1>8, <1>9, <1>10 DEF PackageTimerProc

-------------------------------------------------------------------------------
LEMMA InitKeeps ==
  SetupInit => IInv
<1> SUFFICES ASSUME SetupInit PROVE IInv
  OBVIOUS
<1>0. /\ session = FreshSession /\ job = NoJob /\ helper = HelperOff /\ page = FreshPage /\ fence = FALSE /\ approved = {}
      /\ mutex = [m \in Mutexes |-> [handles |-> {}, owner |-> "none"]] /\ programs = [p \in Programs |-> "off"]
      /\ setup.at = "pages" /\ DOMAIN setup = {"at", "purpose", "sawAgent", "closedAgent", "installed", "newProfile"}
  BY DEF SetupInit, HelperInit
<1>1. store \in [exists : BOOLEAN, holds : SUBSET Offered]
  <2>1. PICK exists \in BOOLEAN : store = [exists |-> exists, holds |-> {}]
    BY DEF SetupInit, HelperInit
  <2> QED
    BY <2>1
<1>2. Shape
  <2>1. session \in Sessions
    BY <1>0 DEF FreshSession, Sessions, Phases
  <2>2. mutex \in [Mutexes -> [handles : SUBSET Holders, owner : Owners]]
    BY <1>0 DEF Owners
  <2> QED
    BY <1>0, <1>1, <2>1, <2>2 DEF Shape
<1>3. Alone
  BY <1>0 DEF Alone, Fenced, FenceFree, Owned, Leased, NoJob, Programs, Mutexes
<1>4. Choice
  <2>1. ~page.awaiting /\ ~page.after /\ page.phase = "none"
    BY <1>0 DEF FreshPage
  <2>2. Reviewed
    BY <1>0 DEF Reviewed, FreshSession, NoJob
  <2>3. Requested /\ Answered
    BY <1>0 DEF Requested, Answered, HelperOff
  <2>4. Shown
    BY <1>0, <2>1 DEF Shown, OnPages
  <2> QED
    BY <2>2, <2>3, <2>4 DEF Choice
<1> QED
  BY <1>2, <1>3, <1>4 DEF IInv

LEMMA StepKeeps ==
  IInv /\ [InstallerNext]_svars => IInv'
<1> SUFFICES ASSUME IInv, [InstallerNext]_svars PROVE IInv'
  OBVIOUS
<1>1. CASE HelperObeys /\ UNCHANGED OnlyHelper
  BY <1>1, Obeyed
<1>2. CASE HelperEnding /\ UNCHANGED OnlyHelper
  BY <1>2, HelperStops DEF HelperEnding, OnlyHelper
<1>3. CASE PollWorker /\ UNCHANGED OnlyHelper
  BY <1>3, Polled
<1>4. CASE HelperFails /\ UNCHANGED OnlyHelper
  BY <1>4, HelperStops DEF HelperFails, OnlyHelper
<1>5. CASE JobStep /\ UNCHANGED OnlyHelper
  BY <1>5, JobMoves
<1>6. CASE HelperSeesEnd
  BY <1>6, HelperStops DEF HelperSeesEnd, OnlyHelper
<1>7. CASE SetupStep
  BY <1>7, ClosingSteps, InitializeKeeps, EndingSteps DEF SetupStep
<1>8. CASE SetupCrashes
  BY <1>8, EndingSteps
<1>9. CASE PageOpens \/ PackageTimerProc \/ CancelButton \/ InstallButton
  BY <1>9, PageOpensKeeps, TimerKeeps, ButtonsKeep
<1>10. CASE \E ids \in SUBSET Offered : Next(ids)
  BY <1>10, NextKeeps
<1>11. CASE \E p \in Programs : ProgramStarts(p) \/ ProgramRuns(p) \/ ProgramEnds(p)
  BY <1>11, ProgramsMove
<1>12. CASE UNCHANGED svars
  BY <1>12 DEF svars, IInv, Shape, Alone, Fenced, FenceFree, Owned, Leased, Choice, Reviewed, Approved,
               Requested, Answered, Shown, Live, OnPages, Selecting, Chosen
<1> QED
  BY <1>1, <1>2, <1>3, <1>4, <1>5, <1>6, <1>7, <1>8, <1>9, <1>10, <1>11, <1>12 DEF InstallerNext, HelperStep

-------------------------------------------------------------------------------
(* The store of packages grows only by what the thread of the helper installs. *)
LEMMA OnlyTheThreadAdds ==
  ASSUME IInv, [InstallerNext]_svars, store'.holds # store.holds
  PROVE  \/ /\ job.at = "works" /\ job.kind = "install"
            /\ store'.holds = store.holds \cup job.ids /\ UNCHANGED <<programs, approved>>
         \/ ~store'.exists /\ store'.holds = {}
<1>0. store \in [exists : BOOLEAN, holds : SUBSET Offered]
  BY DEF IInv, Shape
<1>1. CASE (HelperObeys \/ HelperEnding \/ PollWorker \/ HelperFails \/ JobStarts) /\ UNCHANGED OnlyHelper
  BY <1>1 DEF HelperObeys, HelperEnding, PollWorker, HelperFails, JobStarts
<1>2. CASE JobWorks /\ UNCHANGED OnlyHelper
  <2>1. store' = store \/ (job.kind = "install" /\ store' = [store EXCEPT !.holds = @ \cup job.ids])
    BY <1>2 DEF JobWorks, ChecksCatalog, Downloads, Installs
  <2> QED
    BY <1>0, <1>2, <2>1 DEF JobWorks, OnlyHelper
<1>3. CASE Restore
  <2>1. store' = store \/ store' = [exists |-> FALSE, holds |-> {}]
    BY <1>3 DEF Restore
  <2> QED
    BY <2>1
<1>4. CASE InitializeInstallation
  <2>1. store' = store \/ store' = [store EXCEPT !.exists = @ \/ setup.newProfile]
    BY <1>4 DEF InitializeInstallation, InitializeIfAbsent
  <2> QED
    BY <1>0, <2>1
<1>5. CASE \/ Prepare \/ ForeignChecked \/ CloseStep \/ AcquireInstallationFence \/ FilesReplaced \/ StopPackageHelper
           \/ Lease("agent", "leaseAgent", "leaseSettings") \/ Lease("settings", "leaseSettings", "fence")
  BY <1>5 DEF Prepare, ForeignChecked, CloseStep, NothingToClose, CloseInstance, AcquireInstallationFence, Lease,
              FilesReplaced, StopPackageHelper, OnlySetup
<1>6. CASE HelperSeesEnd \/ SetupCrashes \/ PageOpens \/ PackageTimerProc \/ CancelButton \/ InstallButton
  BY <1>6 DEF HelperSeesEnd, SetupCrashes, PageOpens, PackageTimerProc, CancelButton, InstallButton, OnlySetup
<1>7. CASE \E ids \in SUBSET Offered : Next(ids)
  BY <1>7 DEF Next
<1>8. CASE \E p \in Programs : ProgramStarts(p) \/ ProgramRuns(p) \/ ProgramEnds(p)
  BY <1>8 DEF ProgramStarts, ProgramRuns, ProgramEnds
<1>9. CASE UNCHANGED svars
  BY <1>9 DEF svars
<1> QED
  BY <1>1, <1>2, <1>3, <1>4, <1>5, <1>6, <1>7, <1>8, <1>9 DEF InstallerNext, HelperStep, JobStep, SetupStep

(* Setup replaces the program's files only while no program runs, in any session, and packages are added
   only while no program of setup's own session does (InstallationFence, the leases of the helper):
   whatever starts, ends or is lost meanwhile, for any packages and any number of troubles and clicks. *)
THEOREM SetupAlwaysWorksAlone == InstallerSpec => SetupWorksAlone
<1> DEFINE Added == store'.holds # store.holds /\ store'.exists =>
                      \A p \in {"agent", "settings"} : programs[p] # "runs"
<1>1. IInv => ReplacesAlone
  BY DEF IInv, Alone, Fenced, FenceFree, ReplacesAlone
<1>2. ASSUME IInv, [InstallerNext]_svars PROVE Added
  <2> SUFFICES ASSUME store'.holds # store.holds, store'.exists, NEW p \in {"agent", "settings"}
               PROVE  programs[p] # "runs"
    OBVIOUS
  <2>1. job.at = "works" /\ job.kind = "install"
    BY <1>2, OnlyTheThreadAdds
  <2> QED
    BY <1>2, <2>1 DEF IInv, Alone, Leased, Owned, Mutexes
<1>3. IInv /\ [InstallerNext]_svars => [Added]_svars
  BY <1>2
<1> HIDE DEF Added
<1>4. InstallerSpec => [][Added]_svars
  BY InitKeeps, StepKeeps, <1>3, PTL DEF InstallerSpec
<1>5. InstallerSpec => []ReplacesAlone
  BY InitKeeps, StepKeeps, <1>1, PTL DEF InstallerSpec
<1> QED
  BY <1>4, <1>5 DEF SetupWorksAlone, ChangesAlone, Added

(* What is added to the store of packages is what the user chose last and has not cancelled since:
   however requests, replies and the thread of a download interleave, and whatever of them fails
   (confirm_install, PackageReadReply).                                                            *)
THEOREM OnlyTheChoiceIsInstalled == InstallerSpec => InstallsTheChoice
<1> DEFINE Wanted == store'.holds \ store.holds \subseteq approved
<1>1. ASSUME IInv, [InstallerNext]_svars PROVE Wanted
  <2>1. CASE store'.holds = store.holds
    BY <2>1
  <2>2. CASE store'.holds # store.holds
    <3>1. CASE job.at = "works" /\ job.kind = "install" /\ store'.holds = store.holds \cup job.ids
      BY <1>1, <3>1 DEF IInv, Choice, Reviewed, Approved
    <3> QED
      BY <1>1, <2>2, <3>1, OnlyTheThreadAdds
  <2> QED
    BY <2>1, <2>2
<1>2. IInv /\ [InstallerNext]_svars => [Wanted]_svars
  BY <1>1
<1> HIDE DEF Wanted
<1>3. InstallerSpec => [][Wanted]_svars
  BY InitKeeps, StepKeeps, <1>2, PTL DEF InstallerSpec
<1> QED
  BY <1>3 DEF InstallsTheChoice, Wanted
===============================================================================
