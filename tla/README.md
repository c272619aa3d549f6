# AutoKeyboardLayout: a verification project

AutoKeyboardLayout is a Windows agent in Rust that watches what the user types,
notices words typed in the wrong keyboard layout and retypes them. To do so it owns a
low-level keyboard hook, and while it corrects a word it *swallows* the keys the user
types meanwhile and gives them back afterwards. The worst things it can do are to lose
those keys, to type them twice or out of order, to leave a key pressed, to edit text
that is no longer what it believes it is, to lose the user's clipboard, and to remember
what was typed into a password field. Around that it keeps a configuration that several
writers share, a store of language packages that must survive crashes and never go back
to something older unasked, and a setup that replaces all of it while it may be running.

This directory states what the program promises, as TLA+ modules checked by TLC and, where
marked, proved by TLAPS, and the places where the code does not keep its promise
(section 7). Paths are relative to the repository; `wa` is `src/windows_agent.rs`.

## 1. The system

| Part | State it keeps | Operations | Talks to | Hard because | Correct when |
|---|---|---|---|---|---|
| **Hooks and gate** (`wa` 646-800, 2545-3095, 5219-6020; UI thread) | the correction gate with its held edges, pending key-ups and hand-backs, `typed_input`, the last sequence numbers | keyboard and mouse hook, drain, fail-open, acknowledgement, arm, hand-off, 250 ms timer, hook reinstall | worker (bounded channel, posted and sent messages), `SendInput`, other hooks | hooks run in the middle of `SendInput`; other hooks, focus changes, injected input and deadlines interleave with every step | swallowed keys are kept in order, delivered at most once, or deleted and never typed |
| **Retained input** (`wa` 628-644, 3808-3945, 5844-6005) | one record of a broken gate, its lifetime, who is sending it | retain, prepare, begin, finish, discard, expire, hand back | both threads, under a lock; the tray menu | the worker, the timer and the user may all end a record; `SendInput` may take a part | a record ends once, whole, and says when it may have been typed |
| **Input worker** (`wa` 7476-7513, 8109-8970, 10208-11560) | the event it handles, input epoch, pending conversion, deferred event, edit guards | one queued event at a time; drain acknowledgement, hand-off, conversion, undo, recovery, resume | UI thread, clipboard broker, probes | may hang in a call of another program, may panic anywhere, acts on facts read earlier | edits only what is still before the caret; always lets its gate go |
| **Key-up bookkeeping** (`wa` 5621-5744, 12427-12445) | none (pure) | split, cancel, cut, balance held edges | hook, drain, break | which key-up belongs to a key-down the field already has | nothing stays pressed; no stray release |
| **Typing session** (`session.rs`, `wa` 8985-10210) | the current word, its boundary, its undo, the words remembered per window, the privacy verdict | key, boundary, erase, hotkey, focus and layout change, reset | worker | long sequences of erasures, boundaries and switches | the word it holds is the word before the caret, or nothing; no secret is kept |
| **Decision** (`detector.rs`, `scoring_model.rs`, `layout_model.rs`, `user_lexicon.rs`, `language.rs`) | tables | classify, score, compare | worker | boundaries of thresholds, ranks and lengths | no known word is converted; a guess beats every rival |
| **Text edits** (`wa` 10900-12400) | one edit, its layout, its guards | find the field, erase, switch, type, commit | target program | the field moves or the layout flips between two sends | applied whole, or no trace, or reported as failed |
| **Clipboard broker** (`wa` 1194-1770, 6472-8136) | the user's clipboard, the replacement, who owns it | install, render, restore, abandon, defer | worker, target, other programs | the worker gives up while the broker goes on | the user's clipboard comes back unless somebody else replaced it |
| **Live configuration** (`wa` 2645-2795, `configuration*`, `settings.rs`, `hotkey.rs`) | one slot, revision numbers, pending flag; the document | load, hand over, acknowledge, reject, publish; read, write, merge | UI thread, worker, loader, files | a rejected revision races a new one; several writers | UI and worker agree on the policy in force; no writer undoes what it has not seen |
| **Bounded probes** (`bounded_probe.rs`) | one request, one queued | query, time out, replace a stuck provider | worker, provider thread | late answers | an answer is used only for the question it was asked |
| **Privacy** (`privacy.rs`, `wa` 5150-5215, 9960-10170) | the verdict and the process it is for | judge, publish, read | worker, hooks | two stores read one after the other | a verdict is not used for another program |
| **Keyboard, layouts, packs** (`profile_resolver.rs`, `input_*.rs`, `windows_input_profiles.rs`) | modifiers, cached profiles with a generation | resolve, vouch, plan, replay | Windows, worker | state of the desktop is read in turn while it changes | a key and a layout mean what they meant when they were read |
| **Watchdog, tray, exit** (`ui_guard.rs`, `wa` 3500-4480, `panic_guard.rs`) | last hook and input times, budgets; the icon; the stages of an exit | tick, reinstall; add, retry, recreate; menu, questions; close | hooks, Explorer, worker | silence is not absence; shell calls nest | a dead hook is noticed, the icon is there, an exit ends |
| **Settings window** (`windows_agent/settings_window*`) | a draft, one package worker, a captured hotkey | load, save, merge, package tools, capture | files, store, agent | another process edits the same file; hooks of its own | saves lose nothing; answers always come |
| **Package store** (`package_store.rs`, `package_inventory.rs`) | immutable artifacts and states, the `CURRENT` pointer, writer lock | initialise, load, commit, roll back, pin | installer, running agents, file system | crash between any two publication steps | `CURRENT` always names one complete generation; history never forks |
| **Packages** (`package_install.rs`, `package_catalog.rs`, `package_download*`, `language_package.rs`) | a catalogue, a selection, a transfer | sign, verify, select, download, confirm | network, store | a catalogue expires while the user looks at it | only what is current, signed and approved is published |
| **Setup** (`installer_*.rs`, `installation_fence.rs`, `windows_agent/installer_lifecycle.rs`) | session phase, ticket, one thread; mutexes, fence, leases | begin, finish, cancel, poll; close, hold, wait, restore | setup program, agents of all sessions | late completion after cancel; a program that starts under setup | files change only while nothing runs; the last choice is installed |
| **Texts** (`localization.rs`, `windows_agent/ui_localization.rs`) | catalogues, aliases, a saved language | load, choose, fall back | data files | catalogues may claim each other's languages | one locale names one catalogue; a text always formats |

`PROJECT.json` lists the components with their status, and 40 hazards with the line where
each bites and the properties that cover it.

## 2. What is modelled

| Part | Modules |
|---|---|
| gate, records, worker protocol | `KeyCustody` (abstract), `HeldKeys` (pure), `HeldKeysProofs`, `CorrectionGate` (system), `CorrectionGateProperties`, `CorrectionGateProofs`, `CorrectionGateCustody`; `TrayMenu` for the record, all who may send it, the menu and its questions |
| package store | `PackageHistory` (abstract), `PackageInventory` (pure), `PackageStore` (system), `PackageStoreProofs` |
| releases, catalogues, transfer | `LanguageRelease` |
| clipboard | `ProtectedPaste`, `ProtectedPasteProofs` |
| configuration | `ConfigurationDocument` (pure), `ConfigurationHandoff`, `ConfigurationHandoffProofs`, `ConfigurationWriters`, `SettingsWindow` (on top of the writers) |
| setup | `InstallerHelper` (the helper process), `InstallerSetup` (on top of it: setup, programs, fence), `InstallerSetupProofs` |
| typing | `TypingSession`, `TypingSessionProofs`; pure: `WordDetection`, `WordScoring`, `InputPacks`, `UiCatalogs` |
| services | `BoundedProbe`, `PrivacyVerdict`, `HotkeyCapture`, `PhysicalEdit`, `KeyReplay`, `KeyboardProfiles`, `HookWatchdog`, `TrayIcon`, `AgentExit` |
| instances | `MCCorrectionGate`, `MCHeldKeys`, `MCPackageStore`, `MCConfiguration`, `MCSettings`, `MCTables`, `MCTyping`, `MCServices` |

Components that share state are composed by EXTENDS (`SettingsWindow` over
`ConfigurationWriters` over `ConfigurationDocument`; `InstallerSetup` over
`InstallerHelper`). Components that share none are still checked in one run: `MCServices`,
`MCConfiguration` and `MCTyping` have a variable `part`, and each behaviour
explores one part while the others rest in an initial state of theirs. Such a run covers
what separate runs would, and no interleaving of two parts; where two parts do interact, one
module has both. A behaviour of the gate begins in one of the `Worlds` of its run, which
says what the user and the other programs may do in it.

### How actions correspond to code

*UI thread.* A hook call is atomic up to `CallNextHookEx`, where other programs' hooks
run (`sys.hook`), and again after it: `PhysicalEdge`, `DownstreamHooks`. `SendInput` of a
drain is not atomic: its inputs reach the hook one by one (`SubmitNext`), and
`SubmitReturns` handles a short count, as `fail_correction_gate_drain` does. Messages are
handled when the thread is idle: `HandlePosted` for posted ones, `Send` for sent ones (the
worker waits for the answer). A sent message that timed out may still be handled later:
`LateMessage`. `TimerTick` does all the timer does, in its order: engine fault, hook
watchdog, gate deadline, expiry, hand-back. A handler is an operator from a state of the
UI thread to the next (`BreakGate`, `HoldEdge`, `Acknowledge`, `RetainFailedDrain`, ...),
so that the calls a handler makes compose as they do in the code.

*Worker.* One event at a time. `worker.pc` names the point between two interactions
with shared state: `TakeEvent`, `Dispatch`, the acknowledgement and hand-off of a drain, the
guards of a conversion (`guard`, `settle`, `arm`, `armed`, `edit`, `send`), the end of the
conversion, and a recovery (`StartRecovery`, `RecheckRecovery`, `MarkRecovering`,
`ReplayRetained`, `FinishRecovery`, `DecideResume`, `Resume`). `Panic` may happen between
any two of them; `run_contained` clears the event and records the fault, the loop goes on.

*Package store.* Every operation on the directory that another process or a power failure
can see is an action: making the directory, linking the empty state, creating and writing
`CURRENT` (`MakeRoot` to `SyncNew`, which is `initialize`), the lock (`WriterLock`), the
checks under it (`CheckCommit`: same state, successor, artifacts complete and
authenticated, nothing to do), each artifact (`LinkBlob`), the state (`LinkState`), the two
synchronisations (`SyncState`, `SyncPointer`) and the rename (`MovePointer`).
`CheckActivation` and `SaveMode` are the end of a migration, `AgentReloads` is the agent's
`accepts_reload`. `Fails` ends a process, or fails its operation, before any of these;
`PowerFails` also drops whatever was not synchronised, each file by itself. A load is one
step although it reads several files, because a file once linked never changes and is
never removed: the pointer it reads decides the rest.

*Paste.* Worker, broker thread, target and other programs each take steps of their own; the
broker's channel, its window messages and every clipboard call are steps, and every wait may
end at any moment, so the worker gives up at every point where it may.

*Configuration.* The loader reads files in one step and delivers later; the UI thread owns
the slot, the published and the outstanding revision; the worker takes `ApplyConfiguration`
like any event, applies, defers or refuses. The writers are processes with a lock, a read, a
comparison, backups and a replace; a person with an editor writes without the lock. The
settings window adds its draft, its package thread, prompts, and the agent as the one
who is told.

*Setup.* The helper obeys one numbered request at a time and polls its thread; setup's timer,
the user's clicks and the programs of two sessions interleave with it. Leases, mutexes and the
fence are the handles the code takes, and end with the process that holds them.

*Typing.* `TypingSession` has what the worker knows beside what the fields really contain; every
key, move, hotkey, switch and refresh changes both, each by its own rules. Keys typed past the hooks by a recovery
(`Recover`) reach the field only: the worker suppresses the word and, in `recovered`, remembers across the next reset of
the epoch that it does not know it; a boundary, a click or another window ends that. The pure modules are
evaluated over all inputs of a bounded shape; `MCTables` takes one input to a behaviour.

*Held keys and the tray.* `TrayMenu` has one record at a time with its token, the queue of the recoveries asked of the
worker, the worker's two looks and its `SendInput`, the timer's hand-back and expiry, and the menu with its warnings, each
of which runs a message loop while all the others go on. `history` says for each record who had its keys sent.

*Services.* One step per call that another thread, another program or the clock may come between:
the look before and after a probe's inspection, the two reads of a verdict, the sends of an
edit and the guards before each, the shell's calls and what they dispatch while they wait.

*Time* is a set of flags (a deadline may pass at any moment, so every order of a deadline and
an answer is explored) or, where an age is compared with a bound, a small counter.

### What is abstracted

* A key is `Space` or a letter; modifiers, scan codes and layouts appear in `KeyReplay`, not in
  the gate. Every edge of a gate has a number, so order and identity are exact.
* In the gate a word is whether a conversion is pending for the Space, and an edit is two chunks,
  each behind its guard; what the field shows is in `TypingSession`, `PhysicalEdit` and
  `ProtectedPaste`.
* `send_input_count` may fall short at the places the world names; what it takes is a prefix.
* A package is identifier, revision, content and signer, a catalogue repository, revision, document
  and signer. Hashes and signatures are identity. Sizes, dependencies and JSON are left out.
* A power failure is modelled where directories are synchronised (`SyncsDirectory`, the
  Unix build). On Windows `sync_directory` does nothing and the code says that
  durability is not established (`package_store.rs` 561-563), so there is nothing to check.
  The entry of the store in its parent directory is taken to be durable once it is made.
* `confirmed` records the last commit that wrote something.
* A configuration text is a sequence of rows; wording, byte order marks and temporary files are
  left out. Unknown keys of a section are dropped on save, as in the code.
* A word is, for the detector, what it may ask about it: length, kind, and for each language the
  lists it is in and the verdicts of the models. Scores are small integers, exponentials powers
  of two, the weights of a model data.
* `TypingSession`: excluded programs behave as password fields; the reasons for which a conversion
  is not attempted are outcomes of one refusal; text changed by the program itself is out of
  scope. Composition is not modelled: nothing in the agent calls `observe_composition`.
* `PhysicalEdit`: keys that are sent are received at once by the window in front.
* `KeyboardProfiles`: at most one flip of the resolver's layout per resolution; a handle is not renamed
  within one. `PrivacyVerdict`: window handles are not reused, process identifiers are.
* `InstallerSetup`: a helper that comes up after the 15 s wait counts as one that did not come up.
* `TrayIcon`: the throttle of updates is left out; a call of the shell takes in sent messages only.

## 3. Constants

The gate has `QueueCapacity` (512 in the code), `GateCapacity` (256), `MaxResumes` (3 per hour),
`Letters`, `Targets`, and `Worlds`, a set of records of which each behaviour has one. A world says
which letters the user has, what the privacy check may answer (`answers`), which `SendInput` calls may
fall short (`shortfalls`), whether the user types while a drain is sent (`edgesDuringSubmit`), whether
the worker may pause inside a recovery (`slowWorker`) and sent messages may time out (`slowUi`); its `limits`
say how often each act of the environment happens, which is the only bound on the depth: `edge` the
physical edges, `any` all disturbances together, then each kind. Worlds are named in `MCCorrectionGate`.

The store has `Packages`, `Artifacts`, `Checkpoints` with their `Offers`, `Releases` (the
sets of keys a release of the program trusts: a process that starts again may trust
fewer), `Procs` and `SyncsDirectory`. `MaxGeneration` stands for the largest generation
number, at which the code refuses a change as well; `MaxFailures` bounds failures and
power failures together.

Every other module names its bounds `Max...` and its times by what they are (`Wait`, `MaxAge`,
`StuckAfter`, `MinInterval`, `PerHour`, `Hour`, ...); the environment's acts count against them. Values
are in the `.cfg` files and in the `INSTANCE ... WITH` of `MCServices`, `MCConfiguration`
and `MCTables`; `MCBudgets` (settings) and `MCScenarios` (typing) are sets of budgets.

## 4. Runs

| Run | States | Shows |
|---|---|---|
| `gate_typing` | 1.2 M | `KeysInOrder`: what the application has is older than anything the gate holds or replays, and at rest no key is down that the user released; `EditProtected`: no key lands in an edit under its own gate, and an automatic edit sees its Space as the newest key-down; `RecordSound`: a record is certainly untyped unless it says otherwise, and leaves whole |
| `gate_disturbed` | 1.4 M | `TypeOK`, `GateExcludesRetained`; `CustodyKept`: the agent implements `KeyCustody`; `RecoveryInOrder`: automatic recoveries and hand-backs come before anything typed later; each under a click, injected key, downstream hook, focus change, hotkey, tray command, reinstall or panic at any step |
| `gate_liveness` | 0.1 M | `NothingStaysHeld`: swallowed keys leave, and the worker closes its gate |
| `package_store` | 0.3 M | two processes and two failures, or one process with two catalogues, a withdrawn key and one failure: `TypeOK`; `StoreComplete`: `CURRENT` names a state that is there with all its artifacts; `RollbackCached`: what a rollback offers is there; `FreshChangeAccepted`: what was staged on the current state is never refused; `HistoryKept`: the store implements `PackageHistory`; `HistoryOnlyGrows`: the agent never has to refuse the store, and nothing but a rollback takes a package back; `ActivatesPrepared`: managed mode is saved only over the store the migration prepared |
| `protected_paste` | 0.9 M | `PasteAccounted`: what the clipboard lost is counted once, a replacement or a selection left behind is known, a late paste never gets the user's own clipboard, which is saved before it is lent; `ClipboardStaysTheUsers`: another program's copy is never overwritten unsaved, and every broker ends |
| `configuration` | 0.2 M | parts configuration, exit, tray, probe. `PolicyEnforced`: hooks and worker follow one policy; `SavesArrive`: every save is published or refused aloud, transitions end; `IconShown`: no replaced icon deletes its successor, the icon comes back; `HungStopsNothing`: an exit ends and a hung provider is replaced |
| `settings` | 0.4 M | `SavesLoseNothing`: no writer undoes what it has not seen, backups are exact, closing loses no edit; `PackageChangesKnown`: what is offered was prepared and not cancelled, managed mode has its store, the agent hears of changes; `SettingsGoOn`: tools end, the lock is returned, offers are answered |
| `installer` | 0.8 M | `SetupWorksAlone`: files and packages are replaced only while no program runs; `SetupInstallsTheChoice`: what is installed is the last choice not cancelled, and helper and setup end each other's waiting |
| `typing` | 2.8 M | parts typing, held, tables. `EditsOnlyTheWord`: a conversion or undo erases no more than the word, an automatic one takes no fragment of a word whose beginning was known; `NoSecretHeld`: nothing typed into a secret field is kept; `HeldKeysStayPaired`: key-ups and key-downs of held edges over every sequence of six; `ConfigurationKept`: what loads can be saved and reads back, merges keep both sides; `DecisionsAreSound`; `PacksAndTextsAreFound` |
| `services` | 4.4 M | parts release, probe, capture, edit, watchdog, profiles, replay, privacy, menu: `PackagesStayCurrent`, `JudgesTheWindowInFront`, `CaptureTakesOnlyItsOwn`, `EditsAreWholeOrNone`, `HooksWatched`, `BindingsHold`, `KeysKeepTheirMeaning`, `RepeatsAreChosen`: keys that were already typed, or may have been, go out again only on a request prepared in the menu and made with the hotkey, and one such choice is one send at most |
| `stale_recovery` | - | expects a violation of `RecordLeavesWhole`, section 7 |
| `stale_check` | - | expects a violation of `NoSecretHeld` where two windows belong to one program, section 7 |

Many of these are conjunctions of named properties, one per aspect, each stated in the module of its
component with its comment:
`KeysInOrder` = `GateKeepsOrder`, `NoKeyLatched`; `EditProtected` = `GateProtectsEdit`,
`DrainAfterDecision`, `EditGuardSound`; `RecordSound` = `CertainlyUntyped`, `RecordLeavesWhole`;
`RecoveryInOrder` = `AutomaticRecoveryInOrder`, `HandBackInOrder`; `NothingStaysHeld` =
`SwallowedKeysLeave`, `WorkerClosesGate`; `HistoryOnlyGrows` = `ReloadAccepted`, `DowngradeProtected`;
`PasteAccounted` = `TypeOK`, `LossCounted`, `CountedOnce`, `ReplacementLeftKnown`, `SelectionAccounted`,
`LatePasteNeverUsersOwn`, `SavesUsersClipboard`; `ClipboardStaysTheUsers` = `OthersCopyKept`, `BrokersEnd`; `SavesLoseNothing` = `NothingUnseenUndone`, `BackupsExact`, `CloseLosesNothing`;
`PackageChangesKnown` = `CancelledNotOffered`, `PreparedIsShown`, `ManagedHasStore`,
`AgentHearsOfChanges`; `SettingsGoOn` = `ToolsEnd`, `LockReturned`, `OfferAnswered`;
`SetupWorksAlone` = `ReplacesAlone`, `ChangesAlone`; `SetupInstallsTheChoice` = `InstallsTheChoice`,
`HelperEndsToo`; `EditsOnlyTheWord` = `ErasesOnlyTheWord`, `ConvertsWholeWords`;
`HeldKeysStayPaired` = `BreakLatchesNothing`, `ReturnedReleaseHasItsDown`, `RepeatsMarked`,
`NewPressNotReleased`, `DrainStopsAtSpace`; `ConfigurationKept` = `LoadedCanBeSaved`,
`MergeKeepsBothSides`; `DecisionsAreSound` = `SoundDecision` (`KnownWordsStay`, `GuessesAreBounded`,
`NoRival`), `EvidenceCanOccur`, `EntriesReadBack`, `CodeIsNotJudged`, `RefusedReadingsComeLast`,
`SureAfterComparing`, `TablesFit`, `LastWordWeighsMost`; `PacksAndTextsAreFound` =
`LanguagesFollowLayouts`, `TextsAreFound`; `JudgesTheWindowInFront` = `AnswersFitTheQuestion`,
`HookTrustsNoOther`, `BlockedAtItsFirstKey`; `KeysKeepTheirMeaning` = `ModifiersAsHeld`, `TypedAsItWas`;
`EditsAreWholeOrNone` = `NoTraceUnlessFailed`, `StopsAstray`, `AppliedIsWhole`, `TypesUnreadOnly`;
`PackagesStayCurrent` = `SignedIsAccepted`, `CommitsWhatIsCurrent`; `CaptureTakesOnlyItsOwn` =
`KeysStayPaired`, `ChosenInPlace`; `BindingsHold` = `PlansStandWithBindings`, `BindingsAreOwn`,
`TargetIsTheProfile`; `IconShown` = `IconIsThere`, `StatusShown`; `HungStopsNothing` = `ExitEnds`
(`ExitIsOrderly`, `ExitIsPossible`), `HungIsReplaced`.

**Bounds, and why they are enough.** A gate needs one Space press. Three edges with a letter are
what an overtaking, a partial drain and a late hand-back need: a key before, in and after the gate;
`GateCapacity = 2` and a queue of three are reached with them, and a queue smaller than the events of one
gate covers every refusal of `enqueue`. In `gate_disturbed` two edges and one disturbance are enough for
a record to exist and for something to come between any two steps of its recovery; two targets are
what a focus change needs. The second world of `gate_typing` allows one act of the hotkey or the tray, so that
a deletion may race an automatic recovery, both with a `SendInput` that falls short.

Two processes are what a lost update, a stale snapshot and a busy lock need. `package_store`
reaches three generations: a migration, an import or removal over it, and a rollback, with a
failure in one process and a power failure after it. Catalogues and releases appear in the behaviours in
which one process acts alone (`solo` in `MCPackageStore`), with one failure, because what a *history* of
changes makes of revisions, targets and catalogues does not depend on who commits them.

Two pastes are what a second paste under a broker that has not finished with the first needs, one
foreign copy and one panic may come anywhere. Two saves are what a rejected revision against a
newer one needs, with a queue of one place and a gate that defers. The settings run has five
budgets rather than one large one: writers against each other, the tools with a crash and a
failure, a migration beside the tray, the tools with a hand edit. The installer has programs in two
sessions, three clicks of the user on top of the way through the pages and two troubles (a refusal, a panic, a
lost reply, an end). `TypingSession` has two languages, a form with a secret field and a terminal whose field
cannot be read, words of two letters and three scenarios of rare acts. `Owner` says which program each window
belongs to: in `typing` each window is a program of its own (`OwnPrograms`), in `stale_check` all are one
(`OneProgram`). In `MCServices` each part has what its
hazard needs once or twice: two layouts and a name change between resolutions, two replies of one
probe, two deaths of a hook inside one budget, two records with two requests waiting and three menus opened.

`CHECK_DEADLOCK FALSE` is set where the system stops: the run's acts are used up, the program has
ended, a store left incomplete by a power failure during its initialization does not load (by
intent), or a driver of pure functions is done. `gate_typing`, `gate_disturbed`, `gate_liveness` and
`stale_recovery` are checked for deadlock. `gate_typing` has no
downstream hook that eats an edge (one that eats a replayed key-up latches that key whatever the agent does), and
`NoKeyLatched` is asked only in worlds where `SendInput` takes what it is given. `EditGuardSound`
is asked only where no `SendInput` of a recovery outlasts `RETAINED_RECOVERY_GRACE`; `RecordSound` without the
shortfall of a hand-back and without typing during a drain, which are what divergences 2 and 3 of
section 7 need.

**Exceptions of `KeyCustody`.** `again` names edges that may pass although they passed
before: those of a record whose explicit recovery the user asked for (the record says
`delivery_uncertain`, the README of the program says so), and key-ups of a drain that
`SendInput` took partly. Everything else passes at most once.

## 5. Fairness and liveness

* *Gate.* `FairSpec` assumes weak fairness of the UI thread only: its message loop runs, hooks return
  and timers fire, which is what Windows requires of a hook thread and what `ui_guard.rs` watches.
  Nothing is assumed of the worker: calls into other programs may hang it. `SwallowedKeysLeave` adds
  that time passes (`WF_vars(Clock)`); `WorkerClosesGate` adds weak fairness of the worker and
  that the deadline never passes. The run's world has no slow UI thread: one that is fair answers
  in time. Panics may happen and are bounded by the world's limits, as `FaultWindow` bounds them in the code.
* *Paste* (`Spec`): the worker's and each broker's steps are weakly fair; a wait of theirs may end by its
  deadline. Nothing is assumed of the target, of other programs and of the user.
* *Configuration* (`HandoffFairness`): the timer ticks and posted messages are handled even if keys keep
  coming (strong fairness of `TimerTick` and of the reload message, which other messages disable again and
  again), the loader's and the worker's steps are weakly fair, and every gate ends, which `gate_liveness` shows.
* *Exit*: the timer and the window are fair, the worker may hang for ever; the user lets go of the hotkey that was
  pressed (a key-up the hook never sees would keep the agent from a quiet exit, and the resynchronisation of the
  modifiers is not part of this module). *Tray*: calls of the shell
  return, answered or failed; sent messages come before posted ones. *Probe*: the caller asks again,
  time passes, and only threads that do not hang are fair.
* *Settings* (`WindowFairness`): the package thread, the window's poll timer, a save in progress and the
  saver of the tray. The user is not.
* *Setup* (`SetupFairness`): the helper's loop and thread, setup's timer and its own steps. The user is not.
* `PackageStore`, `TypingSession` and the services assume no fairness: their properties are safety
  properties.

## 6. What is proved

### Correction gate

`CorrectionGateProofs` (522 obligations, all proved by Z3, Zenon and LS4) establishes for
every set of keys, edges and targets and every capacity:

* `GateExcludesRetainedAlways`: `Spec => []GateExcludesRetained`. A gate is never active
  beside a retained record, so `break_correction_gate` never overwrites one. The code has
  only a `debug_assert` there.

The invariant is `Inv == Sound(sys)`, the conjunction of `Shape` (the fields the proof
touches have their types: gate, record, queue, sequence numbers, focus), `QueueBounded` and `Excludes`. Types are
needed because an `EXCEPT` on a value that is no record says nothing; the bound of the
queue is needed to keep a sequence a sequence under `Enqueue`. Exclusion is inductive
with these two: a gate becomes active only in
`ForwardEdge`, `Acknowledge` of an active gate and the arm message, each of which looks for a
record first, and a record appears only where the gate was just made inactive, or in
`RetainFailedDrain` of a drain whose gate is inactive. Each handler operator has its
lemma (`Sound(s) => Sound(Handler(s, ...))`), and each group of actions one that
splits on its disjuncts; `NextSound` and PTL conclude.

`CorrectionGateCustody` (3443 obligations) establishes, for every set of keys and targets, every capacity and every
number of edges, disturbances and tray answers, if all `Worlds` are `Dependable`:

* `CustodyAlwaysKept`: `Spec => CustodyKept`. The gate implements `KeyCustody` with the same mapping as in the
  run `gate_disturbed`: a swallowed edge is passed on or deleted on purpose, never lost, never passed on twice
  unless the user asked for the record again, never passed on once it was deleted.
* `RecordAlwaysSound`: `Spec => RecordSound`, which `gate_typing` checks.

*The hypothesis.* A world is `Dependable` if `SendInput` may fall short only in a recovery (`shortfalls` is within
`{"recovery"}`) and the worker sends a record within `RETAINED_RECOVERY_GRACE` (`~slowWorker`). The world of
`gate_disturbed` and the first one of `gate_typing` are such worlds. Everything else is free: hooks of other programs
that consume edges, focus changes, a slow UI thread with late messages, panics, hook reinstalls, full queues, deletions
from the tray, explicit recoveries. Where a drain falls short beside a recovery, `RecordSound` is false, as `stale_recovery`
shows, and where a worker outlasts its grace the timer deletes a record under its replay; for the second
world of `gate_typing`, which has a part of both, TLC alone speaks.

*The invariant* is `Custodial`: the frame (`Frame`: the fields of `worker` and `env`, the world) and `Good`, which has the
invariant `Sound` of above and three parts.

* `Books`: every edge the user typed is in exactly one of the places where one can wait (in the hands of another hook, in a
  drain, held, waiting as a key-up, waiting as a hand-back), or it was retained, received or deleted (`Apart`,
  `Accounted`), and no sequence holds an edge twice (`InOrder`). `Apart` alone is not inductive: an edge that is held
  twice would be replayed twice; nor is it without `Repeats` (a held key-down is marked as a repeat only
  where its key is down already), since without it a record could contain a key-up that is returned a second time when
  the record is deleted.
* `Tracked`: the record the worker read is the one the UI thread still has, until the worker marks it, or that
  token is gone and no gate is left that could retain under it; tokens of the gate and of the record are no
  larger than the newest sequence number, so that no later record is mistaken for the worker's clone. While
  the worker sends a record nobody else takes it.
* `Untyped`: a record that does not say `uncertain` and is not being sent has nothing of it received; after
  `SendInput` returned, what the worker knows of the count says how much was.

Each handler operator has a lemma that it keeps `Good` and is `Onward` (lets nothing through) or `Handed`
(lets through what was swallowed and not received, each edge once); each action one that it is a `Kind` of step that
keeps `Custodial`; `CustodyStep` turns a `Handed` step into one of `KeyCustody`.

`HeldKeysProofs` (1117 obligations) has the lemmas about the functions of `HeldKeys` on which this rests, for
sequences of any length and any set of keys: `SplitHeld` (splitting a broken gate loses no edge and doubles
none), `RetainedReturnsNothing` (what was retained holds no key-up that may leave at once), `SentOnce` and
`NumbersSent` (what `SendInput` takes of a balanced replay, however short), `CutOnce` and `PrefixWithin` (a drain and what it
leaves), `SelectedConcat` (the order of a selection). Members of a sequence are selected with a recursive
function; that it exists is proved with an induction over sets of natural numbers (`SetInduction`, from the
well-foundedness of less-than), since the induction theorems of the library take an operator.

Assumptions: those named in `CorrectionGate` on its constants, which TLC evaluates in every run of the gate: capacities are
positive, `Space` is no letter, there is a target and `NoTarget` is none, `None` is no call of a hook, drain or
record, `Worlds` is a nonempty set of worlds.

### Package store

`PackageStoreProofs` (2232 obligations) has three parts, each with the invariant of the one before: what is
staged, what is on the disk, and what the history is. The first establishes for every set of packages, artifacts,
catalogues, releases and processes, every largest generation, and with or without
synchronised directories:

* `StoreTypeOK`: `Spec => []TypeOK`, whose interesting part is that the writer lock belongs to exactly
  the process that is between taking and releasing it.
* `FreshChangeAcceptedAlways`: `Spec => []FreshChangeAccepted`. A candidate staged on a state that
  is still current is a successor for `check_successor`, parses again, and has every artifact it
  names: no history of imports, removals, rollbacks, catalogues and withdrawn keys leads
  into a state whose changes the store would refuse.

The argument has two halves. `FinishFits`, `AddExtends`, `ImportFits`, `PlanFits`,
`RemoveFits` and `RollbackFits` are about the pure functions: from a `Sound` inventory
(typed, keyed by its own identifiers, with a valid history) each of them returns one that
is sound again and `Fits`: `CheckSuccessor` accepts it and it needs no artifact but the
supplied and the installed ones. `RestoreSound` says that forgetting a catalogue keeps all that.
The inductive invariant `IInv` carries this through the steps: every state with a file is
sound (`FileInv`; a power failure only removes files), and a process keeps, from its
preparation to the check under the lock, a candidate that fits the snapshot it was staged
on (`ProcInv`). The snapshot has to be part of the invariant because the store may move on
between preparing and committing; only `StillCurrent` ties the two together again.

The second part continues from `IInv` and establishes, for the same constants:

* `StoreCompleteAlways`: `Spec => []StoreComplete`. What `CURRENT` names is there in full at every
  step of every commit, after every crash and, where directories are synchronised, after every
  power failure. The one exception is the empty state of an initialization that power
  interrupted before any change was confirmed.
* `RollbackCachedAlways`: `Spec => []RollbackCached`. The artifact a rollback goes back to is in the
  store, although `load` and `commit_inner` look only for installed ones.

Neither is inductive. `DInv` adds three parts to `IInv`. `FilesKept`: the state `CURRENT` names, its
installed artifacts and its rollback targets are among the files, and so are, among the files that are
certain to survive, those of the certain pointer and of the present one; so it does not
matter which of the two pointers a power failure leaves. `CandidateKept`: what a committing process has made safe at each of
its steps, which is what `MovePointer` needs; at the check under the lock it follows from `Fits`
and `StillCurrent`, because `DerivedTargets` takes a new target from what is installed
(`FitsHeld`). `InitializesAlone`: `initialize` takes no lock, so `WritePointer` must not
overwrite a store that somebody uses; the one `create_dir` that succeeds excludes that.

Assumptions: `PackageConstants` (identifiers and positive revisions of artifacts, natural
numbers elsewhere, `None` is neither artifact nor catalogue) and `StoreConstants` (the values
that stand for a pointer that names nothing are no inventories, `None` is no process).

The third goes from states to the history of the store:

* `ReloadAlwaysAccepted`: `Spec => []ReloadAccepted`, and `HistoryAlwaysGrows`: `Spec => HistoryOnlyGrows`. An
  agent that reads the store again never refuses it: the generation does not decrease and one generation
  has one state. No step takes a package back except a rollback to its target, nor the catalogue
  except in a release that no longer trusts its key.
* `ActivationIsPrepared`: `Spec => ActivatesPrepared`. Between the commit of a migration and the saving of
  the managed mode any process may commit; the mode is saved only while the very state the
  migration expects is current and loads.
* `StoreImplementsHistory`: `SyncsDirectory => (Spec => HistoryKept)`, the refinement of `PackageHistory`. The
  initial states map to initial states, and `StepRefines` has a case for each step that is more than a
  stutter: the steps of an initialization, the rename of `CURRENT`, the synchronisations, the end of a
  commit, a power failure, a reload and a restart of the agent. The hypothesis is the Unix build: where
  `sync_directory` does nothing, a confirmed commit may be lost with the power, and the code says so.

`HInv` adds to `DInv` what the moment of the rename needs. `Staged`: what a process prepared is a change of
the state it prepared it on, by the release it runs. `FollowsOn`: from the check under the lock on, the
candidate is a change of the *present* state, differs from it and follows it; that the check compares states as loaded,
which may have forgotten a catalogue, is why the candidate is required to differ from both. `Pinned`: between
`CheckActivation` and `SaveMode` the state is the expected one and loads. `SeenOnly`: where the agent or a
power failure knows an inventory, the pointer is one. `Changes`, the set of all staged inventories, is shared with
`PackageHistory`, and the pure lemmas show that every change fits, grows and keeps or explains the catalogue.

### Protected paste

`ProtectedPasteProofs` (2274 obligations) establishes for every number of pastes, copies, attempts and panics:

* `PasteAlwaysAccounted`: `Spec => []PasteAccounted`, all seven parts of it.
* `OthersCopyAlwaysKept`: `Spec => OthersCopyKept`. An item that another program copied leaves the clipboard
  only by a program's own copy or by the install of a broker that saved it.

The difficulty is that the worker and the brokers of earlier pastes disagree about who has
to account for a clipboard: the worker gives up at any point, and the broker goes on without knowing. None of
the properties is inductive; `PasteInv` has four layers, each a conjunction of named parts:

* `Typed`: the types.
* `SelectionInv`: from its confirmation to the end of the attempt the field shows the selection or has
  replaced it; nothing is pasted before Ctrl+V was submitted.
* `BrokerInv`: who is responsible for a broker. At most one is active, and it is the worker's own or
  lingers after the worker left it (`OneActive`, `Responsible`); what it answered fits its end (`Answers`); what
  it was told and what the worker waits for fit each other (`Told`); and what is counted is over, and nobody will count
  it again (`CountedWell`).
* `ItemInv`: where the items are. While a broker lends the clipboard, the clipboard is its own, or holds a copy that is
  newer than what the broker saved (`Lent`); what it saved at its install is what was there (`Fresh`); a
  replacement is gone unless a broker says otherwise (`Gone`); when the newest copy is not on the clipboard, the broker
  that saved it has the clipboard, or a loss is counted or about to be (`InGoodHands`, `Accounted`); and what a late
  reader must not find does not come back before it reads (`Late`, `Pasted`).

Each layer is preserved with the help of those above it. TLC checked all of them as invariants with two pastes
and two copies (2.4 M states) before they were proved. Assumption: `PasteAssumption` (there is a paste, an
attempt to install and one to select). `BrokersEnd` is liveness and stays with TLC, and with it the property
`ClipboardStaysTheUsers` that contains it.

### Live configuration

`ConfigurationHandoffProofs` (780 obligations) establishes for every set of kinds of configuration, every size of
the queue and any number of saves, keys, gates and panics:

* `PolicyAlwaysEnforced`: `HandoffSpec => []PolicyEnforced`.
* `SettingsNeverTakenBack`: `HandoffSpec => NeverTakenBack`. What is published is an accepted reload of what was
  published before, although the comparison is made when the snapshot is queued, any number of ticks earlier.

The UI thread and the worker share numbers only: the revision that was sent, the one acknowledged, the one
rejected. `HandoffInv` says why that is enough. `SlotInv`: keys are ignored exactly while a reload is outstanding or its
publication is being finished, and what is outstanding is an accepted successor of what is published. `Transit`:
the one outstanding reload is in the queue, once, or being applied, or acknowledged, or rejected, never two of these, and
until it is settled its number is above all that were settled before. `PolicyFollows`: the worker's policy is the
outstanding snapshot from its application until its publication, and the published one at all other times. The
last two hold while the worker lives; a worker that gives up leaves the queue as it is, and the fault
clears the slot. TLC checked the invariant with three saves, two keys and two panics (7.4 M states) before it was
proved. Assumption: `HandoffAssumption` (bounds are natural numbers, the queue has a place, the generation of a
configuration is a number).

### Setup

`InstallerSetupProofs` (1500 obligations) establishes for any set of packages and any number of clicks and
troubles (refusals, panics, lost or unreadable replies, ends of setup, of its helper and of programs):

* `SetupAlwaysWorksAlone`: `InstallerSpec => SetupWorksAlone`. Files are replaced only while no program of any
  session runs, and packages are added only while none of setup's own session does.
* `OnlyTheChoiceIsInstalled`: `InstallerSpec => InstallsTheChoice`. What is added to the store is within what the user
  asked for last, and nothing after a cancellation was accepted.

`IInv` is `Shape` (types), `Alone` and `Choice`. `Alone` is about handles. `Fenced`: while setup has the fence no program
has its shared handle, and setup has it from the initialization to the files. `Owned`: a program that runs has a handle
of its mutex and neither setup nor the helper has one, because each of them takes a mutex only where it is new.
`Leased`: a thread that downloads or installs has the helper's handle of both mutexes until it ends, so it does not
matter that setup, which leased them first, may be gone meanwhile.

`Choice` is about a dialogue whose replies may be lost, late or refused, so that the page, the request under way and the
session of the helper may each be at another place. `Reviewed`: what the session downloads, reviews or installs was
approved, and a thread that installs has a session that installs, which no cancellation passes. `Requested`: a selection
still to be obeyed is the approved one, and a request is the one the page waits for. `Answered`: a reply that was not read yet
still says what is so. `Shown`: where the page offers a selection, no package is being prepared (so a new choice may replace
the old one), and while the programs are closed for a download the session keeps the selection that was approved. TLC
checked the invariant on the whole run `installer` before it was proved. `HelperEndsToo`, the other
half of `SetupInstallsTheChoice`, is liveness and stays with TLC. Assumption: `HelperAssumption` (the bounds are
natural numbers).

### Typing session

`TypingSessionProofs` (1003 obligations) establishes for any windows, languages, layouts and suppression rules, any length
of a word and any number of keys, clicks, switches, checks, recoveries of held keys and failures of the provider:

* `NoSecretEverHeld`: `NoSibling => (TypingSpec => []NoSecretHeld)`. No letter typed into a password field is in the word that
  is followed, in its boundary, its cycle, a pending conversion, an undo, or what is remembered of a window.

What the worker keeps grows only in `TypeCharacter`, after the check of the field. The invariant `SecretsKnown` therefore
follows the last check: it says that all that is kept is free of secrets (`Free`, `KeepsFree`), and, of the window of the
last key, that if its field is secret then the worker still has to check it, or found it blocked, or has checked a window
of another program since; and that no check that counts as recent and good is one of a secret field.

*The hypothesis.* `NoSibling` says that no other window of the program of a form takes part. It is needed: the mark that a field must
be checked is cleared by a check of *any* window of the same program, and the run `stale_check` shows a secret held without
it (section 7).

### Only model-checked

Everything else. Liveness cannot be proved with this prover (`NothingStaysHeld`, `BrokersEnd`, `SavesArrive` and the
others of section 5), nor what the folds and recursive operators of the pure modules compute for every input.
`NoKeyLatched` needs, beyond the books, what a balanced replay makes of the keys that are down; `TypeOK` of the gate bounds
numbers that the proofs do not need. Within reach and still open: section 8.

## 7. Disagreements between the code and what it says

Two have a run:

* **`stale_recovery`**: the end of a recovery removes a record to which a failed drain has
  added its batch since the worker cloned it (`wa` 3913). The comment at `wa` 3004-3006 says that the prefix
  must not be lost. It needs a key that breaks the gate during a drain and a drain that falls short while the worker
  already recovers.
* **`stale_check`**: a check of the field that falls due in another window of the same process clears `privacy_needs_check`
  (`wa` 9978), which `navigate` set because the caret may have moved to another field of the first window. The next
  key there is compared with the last *key* only (`wa` 8676), so the first keys of a password field are followed until the next
  periodic check. The comment at `wa` 9440 says that the next key gets a fresh check and no earlier good check stands
  for it; `docs/release-0.1.2.md` 58 says that a password field is blocked from its first key.

Others are in the models, which contain the behaviour, and the properties above are conditioned on them:

1. Any key-up that passes after a gate gave up makes its automatic recovery stale (`wa` 8563), although
   `README.md` promises that the keys go back to the same field; a worker busy long enough gets the hand-back
   of the UI thread, an idle one does not.
2. "A failed or partial recovery waits for that minute" (`README.md` 545-546), but a hand-back of the UI
   thread that `SendInput` takes only partly leaves nothing to recover (`wa` 5720).
3. Deleting a record of a partly sent drain deletes the key-up of a key-down that was sent (`wa` 3943), and
   the question that asks for the deletion may have been about an earlier record: a "yes" deletes whatever record
   there is then (`wa` 3921).
4. With a queue full but for one place the drain event of a break takes it and the recovery that follows is
   refused (`wa` 2891).
5. `resume_after_recovered_abort` reads that the abort alone paused and stores later (`wa` 8633).
6. A snapshot deferred on an earlier tick is not dropped when a newer load is queued directly: it is handed over
   afterwards and published over the newer one (`wa` 2726-2728), until the files change again; the comment at
   `wa` 2708-2711 says that a newer load replaces it. `SavesArrive` asks only that the user hears of each save.
7. The hooks may take a verdict for a program it was not made for in three cases, which `HookTrustsNoOther` leaves
   out: a process ID the worker knows as another program's, another process published between the hook's two
   reads, and a program that was excluded before any key was taken (`wa` 8434-8437: a reload judges only the
   program of the last key).
8. `initialize` of the store takes no lock, and `PreparedStoreInitialization::confirm` reuses whatever store
   loads as empty. If the first process stops after writing `CURRENT` and before `sync_directory`
   (`package_store.rs` 301-302), a second migration without packages finds nothing to commit, synchronises
   nothing, and saves the managed mode; a power failure may then leave a managed configuration over a store
   that does not load. `StoreComplete` allows exactly this case.
9. `--prepare-upgrade` may close the agent and still return an error; setup then believes it closed nothing, and an
   abandoned setup does not start the agent again, which `docs/installer-lifecycle.md` promises.
10. A panic of the install thread leaves the helper's session installing for ever; a refused confirmation leaves the
    page in review with Next disabled; a cancellation sent late resets a page that was complete. A profile restored after
    an abandoned setup deletes a `config.ini` that was written in it meanwhile.
11. The question before an exit names reasons of the moment it was opened: keys retained while it is open are lost
    without it. A recovery armed in the menu while its record is being sent outlives the record when all of it was taken, and then
    serves a later one; a "yes" after the worker died arms one nobody can do, although a test says that a worker that stopped
    leaves no recovery armed (`a_worker_that_stopped_leaves_no_recovery_armed`). `RepeatsAreChosen` counts choices and
    sends, so it holds with both: it does not say that the record sent is the one the choice was about, nor anything of a deletion.
12. In a paste, a retried selection whose read fails hides the late selection of the attempt before (`wa` 6777-6780); a
    panic before Ctrl+V whose restore fails is not counted.
13. An automatic conversion may take a fragment that was typed after a click, a change of focus, a Pause in
    the middle of a word or a change of epoch (`docs/physical-input-acceptance.md` 41-42 accepts it);
    `ConvertsWholeWords` excludes these.

Assumed and not shown: the clipboard's sequence number does not change by delayed rendering, and the target reads
within the grace of 500 ms; a replaced foreground and back within one inspection of a probe, between two windows
of one process, is not told apart; keys swallowed by a capture never reach `GetAsyncKeyState`, so a capture started
again while one is held records its chord without it; modifiers pressed on the secure desktop are unknown until a
resynchronisation; input given where no hook sees it may cause a needless reinstall; names of layouts are up to twice
their age old. A person who edits `config.ini` between a writer's read and its replace loses the edit
(the properties say so); two failures in a row may keep the agent from hearing of a change. Explorer may refuse to delete
an icon, which then stays as an orphan (`lost`).

## 8. Not modelled, and what is left

* The look of the windows, drawing, sounds, diagnostics, the crash log, command lines and test support: output
  without state worth exploring. The desktop acceptance tests under `settings_window` drive the real desktop.
* Dependencies between packages, sizes and their limits, JSON, hashes: data to the models.
* COM and UI Automation calls: one answer each, from a small set.
* Composition (`composition.rs`): nothing in the agent feeds it.

Next: theorems about the order of the gate (`GateKeepsOrder`, `RecoveryInOrder`, with the books of section 6 and the
order of numbers within them), `EditProtected`, `BoundedProbe` (an answer fits its question) and the writers of
`ConfigurationWriters` (`SavesLoseNothing`); the pause reasons of the gate as an action property; a composition of `TypingSession` with
the gate's drain, in which the words of a gate are real words.

Modules with a theorem declare no `RECURSIVE` operator; recursion is a recursive function or a fold.

## 9. Running

`tlc -workers 2 -config <run>.cfg <module>`, with `MCCorrectionGate` for
`gate_typing`, `gate_disturbed`, `gate_liveness` and `stale_recovery`; `MCPackageStore` for `package_store`;
`MCTyping` for `stale_check`;
`ProtectedPaste`, `MCConfiguration`, `MCSettings`, `MCTyping` and `MCServices` for the runs of
their names; `InstallerSetup` for `installer`. For the proofs, `tlapm` with `CorrectionGateProofs.tla`,
`HeldKeysProofs.tla`, `CorrectionGateCustody.tla` (the longest), `PackageStoreProofs.tla`, `ProtectedPasteProofs.tla`,
`ConfigurationHandoffProofs.tla`, `InstallerSetupProofs.tla` and `TypingSessionProofs.tla`.
