------------------------------ MODULE MCServices ------------------------------
(***************************************************************************)
(* The services around the worker, each explored alone while the others rest in an initial state of      *)
(* theirs: what it knows of the desktop, of the keyboard and of the layouts, how it edits a field, the    *)
(* hooks and their watchdog, the capture of a hotkey, the tray's menu, and a release of packages.         *)
(***************************************************************************)
EXTENDS Naturals, Sequences, FiniteSets

CONSTANTS None, Failed

VARIABLES
  part,   \* the service explored
  clock, release, tool, signed, receipt, offer, request,
  at, threads, probe, asking, answered,
  held, shown, capture, window, hotkey, press,
  screen, field, edit, astray,
  hooks, silence, input, pointer, front, watchdog, retry, budget, unheard,
  system, thread, run, ask, cache, plan,
  keyboard, edge, edges, worker, typed,
  desktop, excluded, shared, hook, queue, judge,
  agent, requests, recovery, menu, chosen, questions, history

releaseVars == <<clock, release, tool, signed, receipt, offer, request>>
probeVars == <<at, threads, probe, asking, answered>>
captureVars == <<held, shown, capture, window, hotkey, press>>
editVars == <<screen, field, edit, astray>>
watchdogVars == <<hooks, silence, input, pointer, front, watchdog, retry, budget, unheard>>
profilesVars == <<system, thread, run, ask, cache, plan>>
replayVars == <<keyboard, edge, edges, worker, typed>>
privacyVars == <<desktop, excluded, shared, hook, queue, judge>>
menuVars == <<agent, requests, recovery, menu, chosen, questions, history>>
vars == <<part, releaseVars, probeVars, captureVars, editVars, watchdogVars, profilesVars, replayVars,
          privacyVars, menuVars>>

-------------------------------------------------------------------------------
(* A release of the program lists a key and its successor, the successor alone, or one key twice; a package
   comes in two revisions, for a later version of the program, with a part left out, or under the id of the
   built-in language. *)
Signer(signer, key, role) == [signer |-> signer, key |-> key, role |-> role]
MCReleases ==
  {{Signer("main", "k1", "release"), Signer("spare", "k2", "recovery")},
   {Signer("spare", "k2", "release")},
   {Signer("main", "k1", "release"), Signer("spare", "k1", "recovery")}}
Language == {"words", "short_words", "scoring", "input"}
Draft(id, revision, api, parts, listed, inputId, locale) ==
  [id |-> id, revision |-> revision, api |-> api, parts |-> parts, listed |-> listed,
   inputId |-> inputId, locale |-> locale, sound |-> TRUE]
MCDrafts ==
  {Draft("et", 1, 1, Language, Language, "et", None),
   Draft("et", 2, 1, Language \cup {"ui"}, Language \cup {"ui"}, "et", "et"),
   Draft("et", 2, 3, Language, Language, "et", None),
   Draft("et", 2, 1, Language \ {"words"}, Language, "et", None),
   Draft("en", 1, 1, {"ui"}, {"ui"}, None, "en")}

Release == INSTANCE LanguageRelease WITH
  Ids <- {"et"}, Base <- "en", Releases <- MCReleases, Drafts <- MCDrafts, Repositories <- {"ours"}, Ours <- "ours",
  OurApi <- 2, MaxRevision <- 2, MaxSigned <- 3, Validities <- {2}, MaxTime <- 4, MaxLifetime <- 3, MaxHops <- 1

Probe == INSTANCE BoundedProbe WITH
  Places <- {"a", "b"}, Generations <- 1, Wait <- 1, MaxAge <- 2, StuckAfter <- 2, MaxRespawns <- 1

Capture == INSTANCE HotkeyCapture WITH
  Keys <- {"ctrl", "alt", "a", "pause", "esc"}, Deadline <- 1, ReleaseWait <- 1,
  MaxStarts <- 2, MaxChanges <- 2, MaxHeld <- 3

Edit == INSTANCE PhysicalEdit WITH
  Plan <- <<"erase", "erase", "key", "space">>, Depth <- 2, Reads <- 2, Polls <- 3, Stable <- 2,
  MaxMoves <- 2, MaxFlips <- 1

Watch == INSTANCE HookWatchdog WITH
  InputRecent <- 1, HookSilent <- 2, MinInterval <- 2, PerHour <- 2, Hour <- 6,
  MaxDeaths <- 2, MaxFailures <- 2, MaxMoves <- 2

Profiles == INSTANCE KeyboardProfiles WITH
  Layouts <- {2, 3}, Names <- {"en", "ru"}, Ime <- {3}, MaxAge <- 2, MaxFlips <- 1, MaxFailures <- 1, MaxChanges <- 1

(* Two keys of Shift and one of Control; a key prints by its layout, except one that only moves. *)
MCModifiers ==
  {[class |-> "shift", side |-> "left"], [class |-> "shift", side |-> "right"], [class |-> "control", side |-> "left"]}
MCPrinted(layout, virtual, shift, caps) ==
  IF virtual \in {"down", "numlock", "pause"} THEN None ELSE <<layout, virtual, shift, caps>>
(* Keys that share a scan code: a digit of the keypad and two arrows, Pause and two forms of Num Lock. *)
Key(virtual, scan, extended, kind, word) ==
  [virtual |-> virtual, scan |-> scan, extended |-> extended, kind |-> kind, word |-> word]
MCKeys ==
  {Key("a", 1, FALSE, "plain", TRUE), Key("pad2", 2, FALSE, "digit", TRUE), Key("down", 2, FALSE, "plain", FALSE),
   Key("graydown", 2, TRUE, "plain", FALSE), Key("pause", 3, FALSE, "pause", FALSE),
   Key("numlock", 3, TRUE, "numlock", FALSE), Key("numlock3", 3, FALSE, "numlock", FALSE),
   Key("injected", None, FALSE, "plain", FALSE)}
Replay == INSTANCE KeyReplay WITH
  Modifiers <- MCModifiers, QueueRoom <- 2, MaxSwitches <- 1, MaxEdges <- 5, Printed <- MCPrinted

(* A program the user may exclude, and one of an administrator. *)
Privacy == INSTANCE PrivacyVerdict WITH
  worker <- judge, Programs <- {[name |-> "vault", integrity |-> "medium"], [name |-> "admin", integrity |-> "high"]},
  Pids <- {1, 2}, MaxWindows <- 2, MaxMoves <- 2, MaxInputs <- 3

Menu == INSTANCE TrayMenu WITH Room <- 2, MaxRecords <- 2, MaxMenus <- 3

ASSUME BoundsAssumption ==
  /\ Probe!ProbeAssumption /\ Watch!WatchdogAssumption /\ Profiles!ProfilesAssumption /\ Replay!ReplayAssumption

-------------------------------------------------------------------------------
Init ==
  /\ part \in {"release", "probe", "capture", "edit", "watchdog", "profiles", "replay", "privacy", "menu"}
  /\ Release!RInit /\ Probe!PInit /\ Capture!HInit /\ Edit!EInit /\ Watch!WInit /\ Profiles!PInit
  /\ Replay!KInit /\ Privacy!QInit /\ Menu!MInit
  /\ at.window = "a"
  /\ part # "release" => release = CHOOSE r \in MCReleases : Release!Listed(r)
  /\ part # "capture" => held = {}
  /\ part # "edit" => edit.at = "barrier" /\ edit.paced /\ edit.fallback
  /\ part # "profiles" => thread = 2 /\ system.names = [l \in {2, 3} |-> "en"]
  /\ part # "privacy" => excluded.names = {}

Next ==
  /\ UNCHANGED part
  /\ IF part = "release" THEN Release!RNext ELSE UNCHANGED releaseVars
  /\ IF part = "probe" THEN Probe!PNext ELSE UNCHANGED probeVars
  /\ IF part = "capture" THEN Capture!HNext ELSE UNCHANGED captureVars
  /\ IF part = "edit" THEN Edit!ENext ELSE UNCHANGED editVars
  /\ IF part = "watchdog" THEN Watch!WNext ELSE UNCHANGED watchdogVars
  /\ IF part = "profiles" THEN Profiles!PNext ELSE UNCHANGED profilesVars
  /\ IF part = "replay" THEN Replay!KNext ELSE UNCHANGED replayVars
  /\ IF part = "privacy" THEN Privacy!QNext ELSE UNCHANGED privacyVars
  /\ IF part = "menu" THEN Menu!MNext ELSE UNCHANGED menuVars

Spec == Init /\ [][Next]_vars

-------------------------------------------------------------------------------
(* A selection is committed only while the catalog that offered it is current and its key one the release *)
(* trusts, however long the user looked at it, and takes nothing the store remembers back; and what the   *)
(* tool signs clients take for all of its time (confirm_selection, CatalogWindow::new, verify_package).    *)
PackagesStayCurrent == [](part = "release" => Release!SignedIsAccepted) /\ Release!CommitsWhatIsCurrent

(* What the worker knows of the field and the hooks of the program in front is true of the window the key *)
(* was for: an answer of a slow provider is taken only for the question it was asked, and a verdict only   *)
(* for the program it was made about, from its first key on (query_result, hook_privacy_reason).          *)
JudgesTheWindowInFront ==
  /\ part = "probe" => Probe!AnswersFitTheQuestion
  /\ part = "privacy" => Privacy!HookTrustsNoOther /\ Privacy!BlockedAtItsFirstKey

(* A key means for the worker and for the field what it meant when it was given: with the modifiers held   *)
(* then, whatever happened on another desktop or to edges that were lost, and typed again as the key it    *)
(* was, also where two keys share a scan code (resync_modifiers, build_raw_replay_inputs).                 *)
KeysKeepTheirMeaning ==
  /\ part = "replay" => Replay!ModifiersAsHeld
  /\ part = "replay" /\ keyboard.given = 0 => Replay!TypedAsItWas(MCKeys, {"en", "ru"})

(* The hook of a hotkey's capture never keeps a key down, however a capture begins, is aborted or ends     *)
(* while keys are held; and it changes the hotkey only where the user sees it, to a chord they pressed     *)
(* that types no text (CaptureDispatch::accept, take_capture_update).                                     *)
CaptureTakesOnlyItsOwn == [](part = "capture" => Capture!KeysStayPaired) /\ Capture!ChosenInPlace

(* An edit that is reported as not made left no trace; each departure of the field costs at most one send;  *)
(* an applied edit typed every key under the target layout; and a field is typed into unread only if        *)
(* nothing it answered forbids it (send_guarded, wait_for_layout, capability_decision).                     *)
EditsAreWholeOrNone ==
  part = "edit" =>
    Edit!NoTraceUnlessFailed /\ Edit!StopsAstray /\ Edit!AppliedIsWhole /\ Edit!TypesUnreadOnly

(* Hooks are installed again only when one is gone, and one that is gone does not stay so (silent_hook).    *)
HooksWatched == part = "watchdog" => Watch!HooksWatched

(* Every binding the worker is given is of a layout that had that name, where the layout changes under a    *)
(* resolution once at most; a plan stands only while its bindings do, and a conversion goes to the layout   *)
(* of the profile it was decided for (resolve_keyboard_profiles, ProfileSnapshotCache).                     *)
BindingsHold == [](part = "profiles" => Profiles!PlansStandWithBindings) /\ Profiles!BindingsAreOwn /\ Profiles!TargetIsTheProfile

(* No held key goes to the application a second time unless it was asked for in the tray's menu and at    *)
(* the hotkey, and a recovery prepared once in the menu is sent once at most, whatever becomes of records,  *)
(* menus, warnings and the worker meanwhile (recover_retained_input, recovery_armed).                       *)
RepeatsAreChosen == part = "menu" => Menu!RepeatsAreChosen
===============================================================================
