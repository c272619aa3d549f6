------------------------------ MODULE InstallerSetup ------------------------------
(***************************************************************************)
(* Setup and what it shares with the programs it replaces. Setup shows the language page, drives the  *)
(* helper of InstallerHelper, closes the agent and its settings, and takes their mutexes and the       *)
(* installation fence, which every program of the user holds shared, in any session. It may be       *)
(* cancelled or end at any moment.                                                              *)
(*                                                                           *)
(* "agent" and "settings" are programs of the session of setup, "remote" an agent of another session. *)
(* The wizard's pages after the languages are one place, "later"; layout and texts are left out.      *)
(***************************************************************************)
EXTENDS InstallerHelper

VARIABLES
  setup,     \* setup: what it does, why it closes programs, and what it must undo
  page,      \* the language page
  programs,  \* each program: off, fenced (it has the shared fence), runs, closing
  fence,     \* whether setup holds the installation fence alone
  approved   \* history: the packages the user last asked for, {} once a cancellation was accepted

svars == <<session, job, helper, mutex, store, left, setup, page, programs, fence, approved>>

Programs == {"agent", "settings", "remote"}
FreshPage == [at |-> "languages", started |-> FALSE, ready |-> FALSE, awaiting |-> FALSE, busy |-> FALSE,
              phase |-> "none", view |-> 0, action |-> "none", reviewed |-> FALSE, after |-> FALSE,
              installing |-> FALSE, complete |-> FALSE, english |-> FALSE, fault |-> FALSE, retry |-> FALSE,
              cancel |-> FALSE]

SetupInit ==
  /\ HelperInit
  /\ \E new \in BOOLEAN : setup = [at |-> "pages", purpose |-> "none", sawAgent |-> FALSE, closedAgent |-> FALSE, installed |-> FALSE,
              newProfile |-> ~store.exists /\ new]
  /\ page = FreshPage /\ programs = [p \in Programs |-> "off"] /\ fence = FALSE /\ approved = {}

OnPages == setup.at = "pages"
OnlySetup == <<session, job, helper, store, left, page, programs, fence, approved>>
OnlyHelper == <<setup, page, programs, fence, approved>>

-------------------------------------------------------------------------------
(* The programs. shared_for_current_user, then the mutex of the session; each ends when the other
   side has it. *)
ProgramStarts(p) ==
  /\ programs[p] = "off" /\ ~fence /\ Use("troubles")
  /\ programs' = [programs EXCEPT ![p] = "fenced"]
  /\ UNCHANGED <<session, job, helper, mutex, store, setup, page, fence, approved>>

ProgramRuns(p) ==
  /\ programs[p] = "fenced"
  /\ IF p = "remote" THEN programs' = [programs EXCEPT ![p] = "runs"] /\ UNCHANGED mutex
     ELSE IF mutex[p].handles = {}
     THEN programs' = [programs EXCEPT ![p] = "runs"] /\ mutex' = [mutex EXCEPT ![p].handles = {p}]
     ELSE programs' = [programs EXCEPT ![p] = "off"] /\ UNCHANGED mutex
  /\ UNCHANGED <<session, job, helper, store, left, setup, page, fence, approved>>

ProgramEnds(p) ==
  /\ programs[p] \in {"runs", "closing"}
  /\ programs' = [programs EXCEPT ![p] = "off"] /\ mutex' = Closed(p)
  /\ UNCHANGED <<session, job, helper, store, left, setup, page, fence, approved>>

-------------------------------------------------------------------------------
(* StopAndLease and PrepareToInstall. *)
HoldsAll == fence /\ \A m \in Mutexes : mutex[m].owner = "setup"
ReleaseLeases == mutex' = Closed("setup") /\ fence' = FALSE

Prepare ==
  /\ setup.at = "prepare"
  /\ IF HoldsAll THEN setup' = [setup EXCEPT !.at = "initialize"] /\ UNCHANGED <<mutex, fence>>
     ELSE /\ ReleaseLeases
          /\ setup' = [setup EXCEPT !.at = "foreign", !.sawAgent = mutex'["agent"].handles # {}]
  /\ UNCHANGED <<session, job, helper, store, left, page, programs, approved>>

(* Setup says why it cannot; on the language page the selection stays. *)
Refusal == setup' = [setup EXCEPT !.at = "pages"]
Goes(at) == setup' = [setup EXCEPT !.at = at]

(* require_no_foreign_session_target, before and after the closing. *)
ForeignChecked ==
  /\ setup.at \in {"foreign", "foreignAgain"}
  /\ IF programs["remote"] = "runs" THEN Refusal
     ELSE IF setup.at = "foreign" THEN Goes("closeSettings")
     ELSE setup' = [setup EXCEPT !.at = "leaseAgent", !.closedAgent = @ \/ setup.sawAgent]
  /\ UNCHANGED <<OnlySetup, mutex>>

(* close_instance, without a window: no instance may be there. *)
NothingToClose(p, next) ==
  /\ programs[p] # "runs"
  /\ IF mutex[p].handles = {} THEN Goes(next) ELSE Refusal
  /\ UNCHANGED <<OnlySetup, mutex>>

(* close_instance, with a window of the installed program that may refuse to be asked, close, or take
   longer than the wait. *)
CloseInstance(p, next) ==
  /\ programs[p] = "runs"
  /\ \/ Refusal /\ UNCHANGED <<programs, mutex>>
     \/ /\ programs' = [programs EXCEPT ![p] = "closing"] /\ UNCHANGED mutex
        /\ Refusal
     \/ /\ programs' = [programs EXCEPT ![p] = "off"] /\ mutex' = Closed(p)
        /\ Goes(next)
  /\ UNCHANGED <<session, job, helper, store, left, page, fence, approved>>

CloseStep ==
  \/ setup.at = "closeSettings" /\ (NothingToClose("settings", "closeAgent") \/ CloseInstance("settings", "closeAgent"))
  \/ setup.at = "closeAgent" /\ (NothingToClose("agent", "foreignAgain") \/ CloseInstance("agent", "foreignAgain"))

NewMutex(m) == mutex[m].handles = {}

Lease(m, at, next) ==
  /\ setup.at = at
  /\ IF NewMutex(m)
     THEN mutex' = [mutex EXCEPT ![m] = [handles |-> @.handles \cup {"setup"}, owner |-> "setup"]] /\ Goes(next) /\ UNCHANGED fence
     ELSE ReleaseLeases /\ Refusal
  /\ UNCHANGED <<session, job, helper, store, left, page, programs, approved>>

FenceFree == \A p \in Programs : programs[p] = "off"

AcquireInstallationFence ==
  /\ setup.at = "fence"
  /\ IF FenceFree THEN fence' = TRUE /\ Goes("initialize") /\ UNCHANGED mutex
     ELSE ReleaseLeases /\ Refusal
  /\ UNCHANGED <<session, job, helper, store, left, page, programs, approved>>

Send(p, request) == page' = [p EXCEPT !.awaiting = TRUE, !.action = request.action]
                    /\ helper' = [helper EXCEPT !.request = request, !.reply = NoReply]

(* A new profile gets an empty store, then its configuration, which may fail and leave the store. *)
InitializeIfAbsent == [store EXCEPT !.exists = @ \/ setup.newProfile]

(* --initialize-installation; then the download, or the files. *)
InitializeInstallation ==
  /\ setup.at = "initialize"
  /\ \/ /\ store' = InitializeIfAbsent /\ UNCHANGED <<left, mutex, fence>>
        /\ IF setup.purpose = "files" THEN Goes("files") /\ UNCHANGED <<page, helper>>
           ELSE Goes("pages") /\ Send(page, [action |-> "download", view |-> page.view])
     \/ Use("troubles") /\ ReleaseLeases /\ Refusal /\ UNCHANGED <<page, helper>>
        /\ store' \in {store, InitializeIfAbsent}
  /\ UNCHANGED <<session, job, programs, approved>>

-------------------------------------------------------------------------------
(* The language page. *)
Waiting == page.busy \/ page.awaiting
Failed(p) == [p EXCEPT !.after = FALSE, !.installing = FALSE, !.complete = FALSE]
HelperFailed(p) == Failed([p EXCEPT !.started = FALSE, !.awaiting = FALSE, !.busy = FALSE, !.fault = TRUE,
                                    !.retry = TRUE])

(* PackageStart: the helper that is there, or a new process, which may not start or not come up. *)
PackageStart ==
  LET p == [page EXCEPT !.at = "languages", !.started = TRUE, !.complete = FALSE, !.fault = FALSE,
                        !.english = FALSE, !.retry = FALSE, !.reviewed = FALSE]
  IN  IF page.ready THEN Send(p, [action |-> "check"])
      ELSE \/ page' = [p EXCEPT !.awaiting = TRUE] /\ helper' \in {HelperOff, [HelperOff EXCEPT !.at = "ready"]}
           \/ page' = HelperFailed(p) /\ UNCHANGED helper

(* The page opens, or the user comes back to it with Back and Next. *)
PageOpens ==
  /\ OnPages /\ Use("clicks")
  /\ IF ~page.started \/ (page.retry /\ ~Waiting) THEN PackageStart
     ELSE page' = [page EXCEPT !.at = "languages"] /\ UNCHANGED helper
  /\ UNCHANGED <<session, job, mutex, store, setup, programs, fence, approved>>

(* Next: on without languages or with the installed ones, or the chosen ids are sent. *)
Next(ids) ==
  /\ OnPages /\ page.at = "languages" /\ ~Waiting
  /\ IF page.complete \/ page.fault \/ page.english \/ page.phase = "idle"
     THEN page' = [page EXCEPT !.at = "later"] /\ UNCHANGED <<helper, approved, left>>
     ELSE /\ page.phase = "selecting" /\ ids # {} /\ Use("clicks")
          /\ Send([page EXCEPT !.after = TRUE], [action |-> "select", view |-> page.view, ids |-> ids])
          /\ approved' = ids
  /\ UNCHANGED <<session, job, mutex, store, setup, programs, fence>>

(* Cancel: an operation in flight is cancelled first, one that installs never. *)
CancelButton ==
  /\ OnPages
  /\ IF Waiting
     THEN /\ page.phase # "installing" /\ ~page.cancel /\ Use("clicks")
          /\ page' = [page EXCEPT !.cancel = TRUE] /\ UNCHANGED setup
     ELSE Goes("stopping") /\ UNCHANGED <<page, left>>
  /\ UNCHANGED <<session, job, helper, mutex, store, programs, fence, approved>>

InstallButton ==
  /\ OnPages /\ page.at = "later" /\ ~Waiting
  /\ setup' = [setup EXCEPT !.at = "prepare", !.purpose = "files"]
  /\ UNCHANGED <<OnlySetup, mutex>>

-------------------------------------------------------------------------------
(* PackageReadReply. *)
Read == LET r == helper.reply
        IN  [page EXCEPT !.awaiting = FALSE, !.view = r.view, !.phase = r.phase, !.busy = r.busy]
Refused == ~helper.reply.ok \/ helper.reply.outcome \in {"failed", "uncertain"}

ReadRefusal ==
  /\ Refused
  /\ IF helper.reply.missing
     THEN page' = [Read EXCEPT !.english = TRUE, !.after = FALSE] /\ UNCHANGED <<mutex, fence>>
     ELSE IF Read.phase = "idle" THEN page' = Failed([Read EXCEPT !.retry = TRUE]) /\ ReleaseLeases
     ELSE page' = Failed(Read) /\ UNCHANGED <<mutex, fence>>
  /\ helper' = [helper EXCEPT !.reply = NoReply]
  /\ UNCHANGED <<setup, approved>>

(* What was prepared is installed at once; a chosen selection closes the programs before its download. *)
ReadAnswer ==
  /\ ~Refused
  /\ LET shown == IF page.installing /\ ~Read.busy /\ Read.phase = "idle" /\ helper.reply.outcome = "ok"
                  THEN [Read EXCEPT !.installing = FALSE, !.complete = TRUE] ELSE Read
         first == Read.phase = "reviewing" /\ ~page.reviewed
     IN  IF page.action = "cancel"
         THEN /\ page' = [shown EXCEPT !.reviewed = FALSE, !.complete = FALSE, !.after = FALSE]
              /\ approved' = {} /\ helper' = [helper EXCEPT !.reply = NoReply] /\ UNCHANGED setup
         ELSE IF first /\ ~page.complete
         THEN /\ Send([shown EXCEPT !.reviewed = TRUE, !.installing = TRUE], [action |-> "install", view |-> Read.view])
              /\ UNCHANGED <<setup, approved>>
         ELSE /\ page' = [shown EXCEPT !.after = @ /\ Read.phase # "selecting", !.reviewed = @ \/ first]
              /\ setup' = IF page.after /\ Read.phase = "selecting"
                          THEN [setup EXCEPT !.at = "prepare", !.purpose = "download"] ELSE setup
              /\ helper' = [helper EXCEPT !.reply = NoReply] /\ UNCHANGED approved
  /\ UNCHANGED <<mutex, fence>>

(* PackageTimerProc. A reply that cannot be trusted ends the waiting. *)
HelperGone == page.ready /\ helper.at = "off"

PackageTimerProc ==
  /\ OnPages /\ page.started
  /\ \/ /\ HelperGone /\ page' = HelperFailed([page EXCEPT !.ready = FALSE])
        /\ UNCHANGED <<helper, setup, mutex, fence, approved, left>>
     \/ /\ ~page.ready /\ helper.at = "ready"
        /\ Send([page EXCEPT !.ready = TRUE], [action |-> "check"])
        /\ UNCHANGED <<setup, mutex, fence, approved, left>>
     \/ /\ ~page.ready /\ helper.at # "ready" /\ page' = HelperFailed(page)
        /\ UNCHANGED <<helper, setup, mutex, fence, approved, left>>
     \/ /\ ~HelperGone /\ page.awaiting /\ helper.reply # NoReply
        /\ \/ (ReadRefusal \/ ReadAnswer) /\ UNCHANGED left
           \/ /\ Use("troubles") /\ page' = HelperFailed([page EXCEPT !.cancel = FALSE])
              /\ UNCHANGED <<helper, setup, mutex, fence, approved>>
     \/ /\ ~HelperGone /\ page.ready /\ ~page.awaiting
        /\ IF page.cancel /\ page.phase # "installing"
           THEN Send([page EXCEPT !.cancel = FALSE], [action |-> "cancel"])
           ELSE page.busy /\ Send(page, [action |-> "poll"])
        /\ UNCHANGED <<setup, mutex, fence, approved, left>>
  /\ UNCHANGED <<session, job, store, programs>>

-------------------------------------------------------------------------------
(* The end of setup. *)
FilesReplaced ==
  /\ setup.at = "files"
  /\ setup' = [setup EXCEPT !.at = "stopping", !.installed = TRUE]
  /\ UNCHANGED <<OnlySetup, mutex>>

(* StopPackageHelper: the leases go only when the process of the helper has ended. *)
StopPackageHelper ==
  /\ setup.at = "stopping"
  /\ IF page.ready /\ ~page.awaiting /\ helper.at = "ready"
     THEN Send(page, [action |-> "close"]) /\ UNCHANGED <<setup, mutex, fence>>
     ELSE /\ ~page.ready \/ helper.at = "off"
          /\ page' = [page EXCEPT !.ready = FALSE, !.started = FALSE, !.busy = FALSE, !.awaiting = FALSE]
          /\ ReleaseLeases /\ UNCHANGED helper
          /\ Goes(IF setup.installed THEN "ended" ELSE "restore")
  /\ UNCHANGED <<session, job, store, left, programs, approved>>

(* RestoreAfterAbandonedSetup: a profile it created goes, the agent it closed starts again. *)
Restore ==
  /\ setup.at = "restore" /\ Goes("ended")
  /\ store' \in {store} \cup IF setup.newProfile THEN {[exists |-> FALSE, holds |-> {}]} ELSE {}
  /\ programs' = IF setup.closedAgent /\ programs["agent"] = "off" THEN [programs EXCEPT !["agent"] = "fenced"] ELSE programs
  /\ UNCHANGED <<session, job, helper, mutex, left, page, fence, approved>>

SetupGone == setup.at \in {"gone", "ended"}

SetupCrashes ==
  /\ ~SetupGone /\ Use("troubles")
  /\ Goes("gone") /\ ReleaseLeases
  /\ UNCHANGED <<session, job, helper, store, page, programs, approved>>

(* Mutant: the helper waits for the next request of a setup that is gone. *)
NotWatched == FALSE
ParentGone == SetupGone

HelperSeesEnd ==
  /\ helper.at = "ready" /\ ParentGone
  /\ helper' = [helper EXCEPT !.at = "ending"]
  /\ UNCHANGED <<session, job, mutex, store, left, OnlyHelper>>

-------------------------------------------------------------------------------
SetupStep ==
  \/ Prepare \/ ForeignChecked \/ CloseStep \/ AcquireInstallationFence \/ InitializeInstallation
  \/ Lease("agent", "leaseAgent", "leaseSettings") \/ Lease("settings", "leaseSettings", "fence")
  \/ FilesReplaced \/ StopPackageHelper \/ Restore

InstallerNext ==
  \/ (HelperStep \/ HelperFails \/ JobStep) /\ UNCHANGED OnlyHelper
  \/ HelperSeesEnd \/ SetupStep \/ SetupCrashes
  \/ PageOpens \/ PackageTimerProc \/ CancelButton \/ InstallButton
  \/ \E ids \in SUBSET Offered : Next(ids)
  \/ \E p \in Programs : ProgramStarts(p) \/ ProgramRuns(p) \/ ProgramEnds(p)

(* The helper answers, its thread and its polls go on, and setup goes on, whatever the user does: each of
   them is a timer or a thread of its own, and none waits for the user. *)
SetupFairness ==
  /\ WF_svars(HelperObeys /\ UNCHANGED OnlyHelper) /\ WF_svars(HelperEnding /\ UNCHANGED OnlyHelper)
  /\ WF_svars(PollWorker /\ UNCHANGED OnlyHelper) /\ WF_svars(JobStep /\ UNCHANGED OnlyHelper)
  /\ WF_svars(HelperSeesEnd) /\ WF_svars(PackageTimerProc) /\ WF_svars(SetupStep)

InstallerSpec == SetupInit /\ [][InstallerNext]_svars /\ SetupFairness

-------------------------------------------------------------------------------
(* While setup replaces files, and while the store of packages changes, no program of this session
   runs, and for the files none of another session either: also when a program starts at any moment,
   when setup is gone and the thread of its helper goes on. *)
ReplacesAlone == setup.at = "files" => \A p \in Programs : programs[p] = "off"
ChangesAlone == [][store'.holds # store.holds /\ store'.exists =>
                   \A p \in {"agent", "settings"} : programs[p] # "runs"]_svars

(* What is added to the store is what the user chose last and has not cancelled since. *)
InstallsTheChoice == [][store'.holds \ store.holds \subseteq approved]_svars

(* The page never waits for ever: neither a helper that ends nor a reply that fails leaves it so; and
   once setup is gone its helper ends, after a thread that installs. *)
HelperEndsToo == (SetupGone ~> helper.at = "off") /\ (Waiting ~> (~Waiting \/ ~OnPages))

(* Setup replaces the program's files only while no program runs, and packages are added only while
   none of setup's session does, whatever starts meanwhile (InstallationFence, the leases of the helper). *)
SetupWorksAlone == []ReplacesAlone /\ ChangesAlone

(* What is installed is what the user chose last and has not cancelled since; neither a helper that is
   gone nor a setup that is gone leaves the other waiting (confirm_install, PackageTimerProc). *)
SetupInstallsTheChoice == InstallsTheChoice /\ HelperEndsToo
===============================================================================
