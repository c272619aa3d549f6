--------------------------- MODULE MCConfiguration ----------------------------
(***************************************************************************)
(* What the UI thread waits for: the hand-off of a configuration, the end of the agent, the notification  *)
(* icon, and a provider that is asked about the focused field. Each part is explored alone, the others     *)
(* rest in an initial state of theirs.                                                                    *)
(***************************************************************************)
EXTENDS ConfigurationHandoff

CONSTANT None

VARIABLES
  part,   \* the part explored
  exitWorker, exitFacts, exitClosing, exitUi, exitAsked,
  explorer, trayIcon, trayCalls, trayTrouble, trayLost,
  probeAt, probeThreads, probe, probeAsking, probeAnswered

Exit == INSTANCE AgentExit WITH
  worker <- exitWorker, facts <- exitFacts, closing <- exitClosing, ui <- exitUi, asked <- exitAsked,
  StuckAfter <- 2, AskAgain <- 2, FaultLimit <- 2, MaxFaults <- 3, MaxRequests <- 3

Tray == INSTANCE TrayIcon WITH
  tray <- trayIcon, calls <- trayCalls, trouble <- trayTrouble, lost <- trayLost,
  MaxDepth <- 3, MaxStatuses <- 3, MaxDeaths <- 2, MaxRefusals <- 2

Probe == INSTANCE BoundedProbe WITH
  at <- probeAt, threads <- probeThreads, asking <- probeAsking, answered <- probeAnswered,
  Places <- {"a", "b"}, Generations <- 0, Wait <- 1, MaxAge <- 2, StuckAfter <- 2, MaxRespawns <- 1

MCKinds ==
  {[sources |-> Unified, generation |-> 0, readable |-> TRUE],
   [sources |-> Unified, generation |-> 0, readable |-> FALSE],
   [sources |-> {}, generation |-> 0, readable |-> TRUE],
   [sources |-> Unified, generation |-> 1, readable |-> TRUE]}

exitVars == <<exitWorker, exitFacts, exitClosing, exitUi, exitAsked>>
trayVars == <<explorer, trayIcon, trayCalls, trayTrouble, trayLost>>
probeVars == <<probeAt, probeThreads, probe, probeAsking, probeAnswered>>
mcvars == <<part, hvars, exitVars, trayVars, probeVars>>

Init ==
  /\ part \in {"configuration", "exit", "tray", "probe"}
  /\ HandoffInit /\ Exit!XInit /\ Tray!TInit /\ Probe!PInit
  /\ part # "tray" => explorer.runs
  /\ part # "probe" => probeAt.window = "a"

Next ==
  /\ UNCHANGED part
  /\ IF part = "configuration" THEN HandoffNext ELSE UNCHANGED hvars
  /\ IF part = "exit" THEN Exit!XNext ELSE UNCHANGED exitVars
  /\ IF part = "tray" THEN Tray!TNext ELSE UNCHANGED trayVars
  /\ IF part = "probe" THEN Probe!PNext ELSE UNCHANGED probeVars

(* The timer ticks, every message is handled at last, the threads are scheduled, and every gate ends.     *)
HandoffFairness ==
  LET on == part = "configuration"
  IN  /\ SF_hvars(on /\ TimerTick) /\ SF_hvars(on /\ ReloadConfigurationFromDisk)
      /\ WF_hvars(on /\ UiContinues) /\ WF_hvars(on /\ LoaderStep) /\ WF_hvars(on /\ WorkerStep)
      /\ SF_hvars(on /\ GateEnds)

(* The timer ticks and the window answers whatever else happens; the worker runs unless it hangs; and the  *)
(* user lets go of the hotkey.                                                                             *)
ExitFairness ==
  LET on == part = "exit"
  IN  /\ WF_exitVars(on /\ Exit!TimerCloses) /\ WF_exitVars(on /\ Exit!TimerHandlesFault)
      /\ WF_exitVars(on /\ Exit!TimerExpires) /\ WF_exitVars(on /\ Exit!WindowAnswers)
      /\ WF_exitVars(on /\ Exit!Stop) /\ WF_exitVars(on /\ Exit!Done) /\ WF_exitVars(on /\ Exit!Begin)
      /\ WF_exitVars(on /\ Exit!GivesUp) /\ WF_exitVars(on /\ Exit!HotkeyComesUp)

(* Every message is dispatched and every call of the shell returns; a sent message comes before the       *)
(* posted ones, whatever calls they make.                                                                 *)
TrayFairness ==
  LET on == part = "tray"
  IN  /\ WF_trayVars(on /\ Tray!RefreshTray) /\ SF_trayVars(on /\ Tray!RecreateTray)
      /\ WF_trayVars(on /\ Tray!RetryTray) /\ WF_trayVars(on /\ Tray!Returns)
      /\ WF_trayVars(on /\ (Tray!ExplorerAnswers \/ Tray!CallFails))

(* A timer asks again and again, time passes, and what does not hang works on.                            *)
ProbeFairness ==
  LET on == part = "probe"
  IN  /\ WF_probeVars(on /\ Probe!Query) /\ WF_probeVars(on /\ Probe!Receive) /\ WF_probeVars(on /\ Probe!TimeOut)
      /\ WF_probeVars(on /\ Probe!Disconnected) /\ WF_probeVars(on /\ Probe!PTick)
      /\ \A n \in Probe!Threads :
           WF_probeVars(on /\ (Probe!Take(n) \/ Probe!LookBefore(n) \/ Probe!Inspect(n) \/ Probe!Reply(n)))

MCSpec == Init /\ [][Next]_mcvars /\ HandoffFairness /\ ExitFairness /\ TrayFairness /\ ProbeFairness

-------------------------------------------------------------------------------
(* Neither a vanished file nor an older package store takes the settings back (an older save that was      *)
(* deferred may follow a newer one), and of every save the agent was asked to load the user hears: it, or  *)
(* a newer one, is published or failed, unless the agent shuts down or its worker stopped. And keys are    *)
(* ignored for a transition only for a time (enqueue_configuration, publish_acknowledged_configuration).   *)
SavesArrive ==
  /\ NeverTakenBack
  /\ told < wanted ~> (told >= wanted \/ metrics.dead \/ metrics.shutdown)
  /\ metrics.pending ~> ~metrics.pending

(* The window outlives the worker, which may wait for its answer; only a user who chose Exit is asked to   *)
(* leave anyway. A worker that gave up blocks nothing for long, and an exit the user started ends, or they *)
(* are asked again and again while the worker does not stop (shutdown_blockers, close_when_ready).         *)
ExitEnds == []Exit!ExitIsOrderly /\ Exit!ExitIsPossible

(* No object that was replaced deletes the icon that replaced it, however the calls of the shell nest, and *)
(* while Explorer stays the icon comes back after every refusal and restart, and shows the status          *)
(* (recreate_tray, retry_tray, update_tray).                                                              *)
IconShown == []Tray!IconIsThere /\ Tray!StatusShown

(* A provider that hangs for good is replaced while there are threads left: the worker does not keep      *)
(* asking a queue nobody reads (replace_if_stuck).                                                        *)
HungIsReplaced == Probe!HungIsReplaced

(* Nothing that hangs keeps the agent: neither a worker an exit waits for nor a provider it asks.            *)
HungStopsNothing == ExitEnds /\ HungIsReplaced
===============================================================================
