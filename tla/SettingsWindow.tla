----------------------------- MODULE SettingsWindow -----------------------------
(***************************************************************************)
(* The settings window: a draft of the configuration, saved alone or merged with what other *)
(* writers did meanwhile, and the package tools, whose work runs on one thread at a time and is     *)
(* shown, confirmed or cancelled in the window. The window is a process of its own; the agent       *)
(* learns of what it did by a message.                                                         *)
(*                                                                           *)
(* The callbacks of the window run one at a time. What a package operation does to the store is      *)
(* one step with the outcomes the store may answer.                                              *)
(***************************************************************************)
EXTENDS ConfigurationWriters

(* The budgets also bound the "edits" and "tools" of the user, and "crashes". *)
ASSUME WindowAssumption ==
  \A budget \in Budgets : \A what \in {"edits", "tools", "crashes"} : budget[what] \in Nat

VARIABLES
  win,       \* the window: what it does, the draft and the document it was made from
  tools,     \* State of package_import and the flags of the window that go with it
  worker,    \* the thread of a package operation
  store,     \* the package store: changes made, whether it exists, and the changes the agent heard of
  unsaved    \* history: what the user changed and no save has written yet

uvars == <<file, backups, lock, call, offer, left, win, tools, worker, store, unsaved>>
packageVars == <<tools, worker, store>>

(* What a document says of each thing somebody may change. *)
Aspects == {"mode", "language", "word"}
Aspect(document, a) ==
  CASE a = "mode" -> document.mode
    [] a = "language" -> document.language
    [] a = "word" -> <<OfferedWord \in document.dictionary, OfferedWord \in document.exclusions>>

IdleTools == [busy |-> FALSE, readonly |-> FALSE, running |-> FALSE, pending |-> "none", ready |-> FALSE,
              catalog |-> FALSE, network |-> FALSE, cancelled |-> FALSE, inspecting |-> FALSE]
IdleWorker == [at |-> "none"]

WindowInit ==
  /\ WritersInit
  /\ \E managed \in (IF file.schema = SchemaVersion THEN BOOLEAN ELSE {FALSE}) :
       LET document == [file.document EXCEPT !.mode = IF managed THEN "managed" ELSE "legacy"]
       IN  /\ win = [at |-> "opens", original |-> document, draft |-> document, current |-> document,
                     tries |-> 0, close |-> FALSE, allowed |-> managed]
           /\ store = [exists |-> managed, changes |-> 0, told |-> 0]
  /\ tools = IdleTools /\ worker = IdleWorker /\ unsaved = {}

(* The document on disk is the one the window opened. *)
WindowOpens ==
  /\ win.at = "opens"
  /\ file' = [file EXCEPT !.document = win.original]
  /\ win' = [win EXCEPT !.at = "shown"]
  /\ UNCHANGED <<backups, lock, call, offer, left, packageVars, unsaved>>

Shown == win.at = "shown"
Valid(draft) == ListsApart(draft)
Told(s) == [s EXCEPT !.told = s.changes]

-------------------------------------------------------------------------------
(* Editing, and saving the draft. *)
EditDraft ==
  /\ Shown /\ Use("edits")
  /\ \E draft \in {[win.draft EXCEPT !.language = "de"],
                   [win.draft EXCEPT !.dictionary = @ \cup {OfferedWord}],
                   [win.draft EXCEPT !.dictionary = {}, !.exclusions = {}]} :
       /\ win' = [win EXCEPT !.draft = draft]
       /\ unsaved' = {a \in Aspects :
            IF Aspect(draft, a) = Aspect(win.draft, a) THEN a \in unsaved
            ELSE Aspect(draft, a) # Aspect(win.original, a)}
  /\ UNCHANGED <<file, backups, lock, call, offer, packageVars>>

(* Apply or OK. *)
SaveRequested ==
  /\ Shown /\ ~tools.busy /\ Valid(win.draft)
  /\ \E close \in BOOLEAN : win' = [win EXCEPT !.at = "saving", !.close = close]
  /\ call' = [call EXCEPT !["window"] = SaveCall(win.original, win.draft)]
  /\ UNCHANGED <<file, backups, lock, offer, left, packageVars, unsaved>>

(* on_save_requested once something was saved: the window shows it, tells the agent, and closes on OK. *)
SavedAs(document) ==
  /\ win' = [win EXCEPT !.at = IF win.close THEN "closed" ELSE "shown", !.original = document, !.draft = document]
  /\ store' = Told(store)

SavedAsDrafted ==
  /\ win.at = "saving" /\ call["window"].at = "saved"
  /\ SavedAs(win.draft)
  /\ call' = [call EXCEPT !["window"] = NoCall]
  /\ UNCHANGED <<file, backups, lock, offer, left, tools, worker, unsaved>>

SaveGivenUp ==
  /\ win.at \in {"saving", "retrying"} /\ call["window"].at = "failed"
  /\ win' = [win EXCEPT !.at = "shown"]
  /\ call' = [call EXCEPT !["window"] = NoCall]
  /\ UNCHANGED <<file, backups, lock, offer, left, packageVars, unsaved>>

(* Somebody else saved since: merge at most three times. *)
SaveFoundChange ==
  /\ win.at \in {"saving", "retrying"} /\ call["window"].at = "changed"
  /\ LET tries == IF win.at = "saving" THEN 3 ELSE win.tries - 1
     IN  win' = [win EXCEPT !.at = IF tries = 0 THEN "shown" ELSE "merging", !.tries = tries]
  /\ call' = [call EXCEPT !["window"] = NoCall]
  /\ UNCHANGED <<file, backups, lock, offer, left, packageVars, unsaved>>

(* The window's values over the configuration as it is now: the next Apply saves them. *)
OnConflict(merged, current) == [win EXCEPT !.at = "shown", !.original = current, !.draft = merged]

MergeDraft ==
  /\ win.at = "merging"
  /\ IF ~Readable(file)
     THEN win' = [win EXCEPT !.at = "shown"] /\ UNCHANGED call
     ELSE LET current == file.document
              merged == Merge(win.original, win.draft, current)
          IN  IF merged.conflicts
              THEN win' = OnConflict(merged.document, current) /\ UNCHANGED call
              ELSE /\ win' = [win EXCEPT !.at = "retrying", !.current = merged.document]
                   /\ call' = [call EXCEPT !["window"] = SaveCall(current, merged.document)]
  /\ UNCHANGED <<file, backups, lock, offer, left, packageVars, unsaved>>

(* What was merged is read back, outside the lock; a file that cannot be read is an error. *)
MergedSaved ==
  /\ win.at = "retrying" /\ call["window"].at = "saved"
  /\ call' = [call EXCEPT !["window"] = NoCall]
  /\ IF Readable(file) THEN SavedAs(file.document)
     ELSE win' = [win EXCEPT !.at = "shown"] /\ UNCHANGED store
  /\ UNCHANGED <<file, backups, lock, offer, left, tools, worker, unsaved>>

(* The writers' steps; a save of the window writes what the user changed. *)
WindowSaveStep(w) ==
  /\ SaveStep(w) /\ UNCHANGED <<win, packageVars>>
  /\ unsaved' = IF w = "window" /\ call'[w].at = "saved" THEN {} ELSE unsaved

-------------------------------------------------------------------------------
(* Closing. *)
Work == IF ~tools.busy THEN "idle" ELSE IF tools.readonly THEN "readonly" ELSE "changing"
EditsSaved == Valid(win.draft) /\ win.draft = win.original
CloseRefused(discards) == Work = "changing" \/ (~discards /\ ~EditsSaved)

Close(discards) ==
  /\ Shown /\ ~CloseRefused(discards)
  /\ win' = [win EXCEPT !.at = "closed"]
  /\ unsaved' = IF discards THEN {} ELSE unsaved
  /\ worker' = IdleWorker /\ UNCHANGED <<tools, store>>
  /\ UNCHANGED <<file, backups, lock, call, offer, left>>

(* The process ends: the mutex it held is abandoned, which counts as free. *)
WindowCrashes ==
  /\ win.at \notin {"opens", "closed", "crashed"} /\ Use("crashes")
  /\ win' = [win EXCEPT !.at = "crashed"]
  /\ call' = [call EXCEPT !["window"] = NoCall, !["worker"] = NoCall]
  /\ lock' = IF lock \in {"window", "worker"} THEN "free" ELSE lock
  /\ worker' = IdleWorker /\ unsaved' = {}
  /\ UNCHANGED <<file, backups, offer, tools, store>>

-------------------------------------------------------------------------------
(* The package tools. *)
Preparing == [import |-> "import", removal |-> "removal", rollback |-> "rollback", migration |-> "migration",
              download |-> "online"]

(* start: one thread and one receiver; the thread may not start. *)
Started(t, kind) ==
  \/ /\ tools' = [t EXCEPT !.running = TRUE, !.busy = TRUE, !.readonly = (kind = "listing")]
     /\ worker' = [at |-> "works", kind |-> kind] /\ Use("tools")
  \/ /\ tools' = [t EXCEPT !.network = FALSE, !.readonly = @ \/ kind = "listing"]
     /\ UNCHANGED worker /\ Use("failures")

ToolMayStart == win.allowed /\ ~tools.busy /\ ~tools.running /\ tools.pending = "none"
OnlyTools == <<file, backups, lock, call, offer, win, store, unsaved>>

(* Refresh, choose a package, review a removal or a rollback. *)
PrepareTool(kind) ==
  /\ Shown /\ ToolMayStart
  /\ Started([tools EXCEPT !.ready = FALSE], kind)
  /\ UNCHANGED OnlyTools

(* A migration discards what was prepared before, and needs a draft without changes. *)
PrepareMigration ==
  /\ Shown /\ ~win.allowed /\ ~tools.busy /\ ~tools.running
  /\ win.original.mode = "legacy" /\ EditsSaved
  /\ Started([tools EXCEPT !.pending = "none", !.ready = FALSE], "migration")
  /\ UNCHANGED OnlyTools

CheckCatalog ==
  /\ Shown /\ win.allowed /\ ~tools.busy /\ ~tools.ready /\ ~tools.running
  /\ Started([tools EXCEPT !.catalog = FALSE, !.network = TRUE, !.cancelled = FALSE], "catalog")
  /\ UNCHANGED OnlyTools

StartDownload ==
  /\ Shown /\ win.allowed /\ ~tools.busy /\ ~tools.ready /\ ~tools.running /\ tools.catalog
  /\ Started([tools EXCEPT !.catalog = FALSE, !.network = TRUE, !.cancelled = FALSE], "download")
  /\ UNCHANGED OnlyTools

CancelDownload ==
  /\ Shown /\ tools.network /\ ~tools.cancelled
  /\ tools' = [tools EXCEPT !.cancelled = TRUE]
  /\ UNCHANGED <<OnlyTools, left, worker>>

CancelPackage ==
  /\ Shown /\ ~tools.busy /\ ~tools.running /\ tools.pending # "none"
  /\ tools' = [tools EXCEPT !.pending = "none", !.ready = FALSE]
  /\ UNCHANGED <<OnlyTools, left, worker>>

ConfirmPackage ==
  /\ Shown /\ ~tools.busy /\ ~tools.running /\ tools.pending # "none"
  /\ tools.pending = "migration" => EditsSaved
  /\ Started([tools EXCEPT !.pending = "none", !.ready = FALSE], "confirm-" \o tools.pending)
  /\ UNCHANGED <<OnlyTools>>

-------------------------------------------------------------------------------
(* The worker. It answers, or panics and hangs up. *)
Answer(result) == worker' = [at |-> "answered", result |-> result]
OnlyWorker == <<file, backups, lock, offer, win, tools, unsaved>>
Confirms == {"confirm-" \o p : p \in {"import", "removal", "rollback", "online", "migration"}}
NotOriginal == ~Readable(file) \/ file.document # win.original

WorkerPrepares ==
  /\ worker.at = "works" /\ worker.kind \notin Confirms \cup {"inspect"}
  /\ \/ worker.kind \in DOMAIN Preparing /\ ~(worker.kind = "migration" /\ NotOriginal)
        /\ Answer(Preparing[worker.kind])
     \/ worker.kind \in {"listing", "catalog"} /\ Answer(worker.kind)
     \/ Answer("refused")
  /\ UNCHANGED <<OnlyWorker, call, left, store>>

(* The store's answer: done, uncertain with or without the change, or refused. *)
StoreAnswers(s, migrates) ==
  {[s |-> [s EXCEPT !.exists = TRUE, !.changes = @ + 1], at |-> IF migrates THEN "activate" ELSE "notify", done |-> TRUE],
   [s |-> [s EXCEPT !.exists = TRUE, !.changes = @ + 1], at |-> IF migrates THEN "inspect" ELSE "notify", done |-> FALSE],
   [s |-> s, at |-> IF migrates THEN "inspect" ELSE "notify", done |-> FALSE]}

WorkerConfirms ==
  /\ worker.at = "works" /\ worker.kind \in Confirms
  /\ LET migrates == worker.kind = "confirm-migration"
         refused == IF migrates THEN NotOriginal
                    ELSE ~Readable(file) \/ file.document.mode # "managed"
     IN  \/ Answer("refused") /\ UNCHANGED store
         \/ /\ ~refused
            /\ \E answer \in StoreAnswers(store, migrates) :
                 store' = answer.s /\ worker' = [at |-> answer.at, done |-> answer.done]
  /\ UNCHANGED <<OnlyWorker, call, left>>

(* The mode is saved last, after the store answered for certain. *)
WorkerActivates ==
  /\ worker.at = "activate"
  /\ call' = [call EXCEPT !["worker"] = SaveCall(win.original, [win.original EXCEPT !.mode = "managed"])]
  /\ worker' = [at |-> "activating"]
  /\ UNCHANGED <<OnlyWorker, left, store>>

WorkerActivated ==
  /\ worker.at = "activating" /\ Ended("worker")
  /\ call' = [call EXCEPT !["worker"] = NoCall]
  /\ IF call["worker"].at = "saved"
     THEN store' = Told(store) /\ Answer("migrated")
     ELSE worker' = [at |-> "inspect"] /\ UNCHANGED store
  /\ UNCHANGED <<OnlyWorker, left>>

WorkerNotifies ==
  /\ worker.at = "notify"
  /\ store' = Told(store)
  /\ \/ Answer("changed")
     \/ Answer("unknown")       \* the store or its packages cannot be read
  /\ UNCHANGED <<OnlyWorker, call, left>>

(* inspect_uncertain_write: read once, tell the agent, confirm nothing. *)
WorkerInspects ==
  /\ (worker.at = "inspect" \/ (worker.at = "works" /\ worker.kind = "inspect"))
  /\ store' = Told(store) /\ Answer("uncertain")
  /\ UNCHANGED <<OnlyWorker, call, left>>

(* A panic hangs up; a guard the thread held is dropped. *)
WorkerPanics ==
  /\ worker.at \notin {"none", "answered"} /\ Use("failures")
  /\ Answer("disconnected")
  /\ call' = [call EXCEPT !["worker"] = NoCall]
  /\ lock' = IF lock = "worker" THEN "free" ELSE lock
  /\ UNCHANGED <<file, backups, offer, win, tools, unsaved, store>>

-------------------------------------------------------------------------------
(* The timer of the window takes the answer. *)
Poll == worker.at = "answered" /\ Shown
AfterPoll == [tools EXCEPT !.running = FALSE, !.busy = FALSE, !.readonly = FALSE, !.network = FALSE,
                           !.cancelled = FALSE, !.inspecting = FALSE]
(* Mutant: a cancelled download is shown when it was finished already. *)
NeverCancelled == FALSE
WasCancelled == tools.network /\ tools.cancelled

(* Mutant: a lost answer is waited for. *)
OnlyUnknown == {"unknown"}
(* A write may have happened: it is inspected once, and never repeated. *)
Inspected == {"unknown", "disconnected"}

PollCancelled ==
  /\ Poll /\ WasCancelled
  /\ tools' = [AfterPoll EXCEPT !.catalog = FALSE, !.pending = "none", !.ready = FALSE]
  /\ worker' = IdleWorker
  /\ UNCHANGED <<OnlyTools, left>>

PollPrepared ==
  /\ Poll /\ ~WasCancelled /\ worker.result \in {Preparing[k] : k \in DOMAIN Preparing}
  /\ tools' = [AfterPoll EXCEPT !.pending = worker.result, !.ready = TRUE,
                                !.catalog = @ /\ worker.result # "online"]
  /\ worker' = IdleWorker
  /\ UNCHANGED <<OnlyTools, left>>

PollShown ==
  /\ Poll /\ ~WasCancelled /\ worker.result \in {"listing", "catalog", "refused", "changed", "migrated", "uncertain"}
  /\ tools' = [AfterPoll EXCEPT
       !.catalog = CASE worker.result = "catalog" -> TRUE
                     [] worker.result \in {"changed", "migrated", "uncertain"} -> FALSE
                     [] worker.result = "refused" -> @ /\ ~tools.network
                     [] OTHER -> @,
       !.pending = IF worker.result = "uncertain" THEN "none" ELSE @,
       !.ready = @ /\ worker.result # "uncertain"]
  /\ worker' = IdleWorker
  /\ win' = IF worker.result = "migrated"
            THEN [win EXCEPT !.original.mode = "managed", !.draft.mode = "managed", !.allowed = TRUE] ELSE win
  /\ UNCHANGED <<file, backups, lock, call, offer, store, unsaved, left>>

(* The inspection runs on a thread of its own, which may not start; a second failure is only shown. *)
PollUnknown ==
  /\ Poll /\ ~WasCancelled /\ worker.result \in Inspected
  /\ LET t == [AfterPoll EXCEPT !.pending = "none", !.ready = FALSE, !.catalog = FALSE]
     IN  IF tools.inspecting
         THEN tools' = AfterPoll /\ worker' = IdleWorker /\ UNCHANGED left
         ELSE \/ tools' = [t EXCEPT !.running = TRUE, !.busy = TRUE, !.inspecting = TRUE]
                   /\ worker' = [at |-> "works", kind |-> "inspect"] /\ UNCHANGED left
              \/ Use("failures") /\ tools' = t /\ worker' = IdleWorker
  /\ UNCHANGED <<OnlyTools>>

-------------------------------------------------------------------------------
UserOfTools ==
  \/ PrepareMigration \/ CheckCatalog \/ StartDownload \/ CancelDownload \/ CancelPackage
  \/ ConfirmPackage \/ \E kind \in {"listing", "import", "removal", "rollback"} : PrepareTool(kind)
WorkerStep ==
  \/ WorkerPrepares \/ WorkerConfirms \/ WorkerActivates \/ WorkerActivated \/ WorkerNotifies \/ WorkerInspects
  \/ WindowSaveStep("worker")
PollStep == PollCancelled \/ PollPrepared \/ PollShown \/ PollUnknown
SavingStep ==
  \/ SavedAsDrafted \/ SaveGivenUp \/ SaveFoundChange \/ MergeDraft \/ MergedSaved \/ WindowSaveStep("window")
OthersStep ==
  (HandEdit \/ OfferMade \/ AddRecentLexiconOffer \/ SaverStep \/ \E w \in Writers : SaveFails(w))
  /\ win.at # "opens" /\ UNCHANGED <<win, packageVars, unsaved>>

WindowNext ==
  \/ WindowOpens \/ EditDraft \/ SaveRequested \/ SavingStep \/ (\E discards \in BOOLEAN : Close(discards))
  \/ WindowCrashes \/ UserOfTools \/ WorkerStep \/ WorkerPanics \/ PollStep \/ OthersStep

(* Threads and the window's timer run; nobody has to edit, choose or close anything. *)
WindowFairness ==
  /\ WF_uvars(WorkerStep) /\ WF_uvars(PollStep) /\ WF_uvars(SavingStep)
  /\ WF_uvars(SaverStep /\ win.at # "opens" /\ UNCHANGED <<win, packageVars, unsaved>>)

WindowSpec == WindowInit /\ [][WindowNext]_uvars /\ WindowFairness
===============================================================================
