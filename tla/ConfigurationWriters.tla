-------------------------- MODULE ConfigurationWriters --------------------------
(***************************************************************************)
(* Everyone who writes config.ini. The settings window, its package worker and the tray's *)
(* "add word" hold one lock for their whole read-compare-write; a person with an editor holds    *)
(* none. A save compares what it read with what its draft was made from, backs an older text       *)
(* up, writes a temporary file and moves it over the configuration. It may fail at any step, and    *)
(* the process may end there.                                                                     *)
(*                                                                           *)
(* What is written is a document of ConfigurationDocument with the number of its schema; the        *)
(* temporary file is part of the step that moves it.                                              *)
(***************************************************************************)
EXTENDS ConfigurationDocument

CONSTANTS
  OfferedWord,     \* the word the tray offers to save
  Budgets          \* how often each of "hand" edit, "offers" and "failures" may happen, for a run

ASSUME WritersAssumption ==
  \A budget \in Budgets : \A what \in {"hand", "offers", "failures"} : budget[what] \in Nat

VARIABLES
  file,      \* the text of config.ini
  backups,   \* name of a backup |-> the text it keeps
  lock,      \* the writer that holds the mutex, or "free"
  call,      \* each writer's save in progress
  offer,     \* LexiconSaves and the offer of the tray
  left       \* what is left of the bounds

wvars == <<file, backups, lock, call, offer, left>>

Writers == {"window", "worker", "saver"}
NoCall == [at |-> "idle"]
Text(schema, document) == [schema |-> schema, document |-> document]
UnreadableText == Text(SchemaVersion, Unreadable)
Readable(text) == text.document # Unreadable

WritersInit ==
  /\ file \in {Text(schema, DefaultDocument) : schema \in {0, 3, SchemaVersion}}   \* 0: no file yet
  /\ backups = <<>>
  /\ lock = "free"
  /\ call = [w \in Writers |-> NoCall]
  /\ offer = [made |-> FALSE, target |-> "dictionary", saving |-> FALSE, finished |-> "none"]
  /\ left \in Budgets

Use(what) == left[what] > 0 /\ left' = [left EXCEPT ![what] = @ - 1]

-------------------------------------------------------------------------------
(* One save. `expected` is the document the draft was made from; the tray takes whatever it finds. *)
SaveCall(expected, document) == [at |-> "begin", expected |-> expected, document |-> document]
Idle(w) == call[w].at = "idle"
Ended(w) == call[w].at \in {"saved", "changed", "failed"}
End(w, outcome) == call' = [call EXCEPT ![w] = [at |-> outcome]]

(* Mutant: the lock is not asked for. *)
LockIgnored == TRUE
LockFree == lock = "free"

(* save_configuration_if_unchanged: the draft was made from something else. *)
Changed(w) == w # "saver" /\ file.document # call[w].expected

(* persist_lexicon_candidate moves the word out of the other list. *)
WithWord(document, target) ==
  IF target = "dictionary"
  THEN [document EXCEPT !.dictionary = @ \cup {OfferedWord}, !.exclusions = @ \ {OfferedWord}]
  ELSE [document EXCEPT !.exclusions = @ \cup {OfferedWord}, !.dictionary = @ \ {OfferedWord}]

(* The mutex could not be had within 250 ms. *)
SaveIsBusy(w) ==
  /\ call[w].at = "begin" /\ ~LockFree
  /\ End(w, "failed")
  /\ UNCHANGED <<file, backups, lock, offer, left>>

SaveBegins(w) ==
  /\ call[w].at = "begin" /\ LockFree
  /\ \/ ~Readable(file) /\ End(w, "failed") /\ UNCHANGED lock
     \/ Readable(file) /\ Changed(w) /\ End(w, "changed") /\ UNCHANGED lock
     \/ /\ Readable(file) /\ ~Changed(w)
        /\ lock' = w
        /\ call' = [call EXCEPT ![w] =
             [at |-> "prepare", hand |-> left.hand,
              document |-> IF w = "saver" THEN WithWord(file.document, offer.target) ELSE call[w].document]]
  /\ UNCHANGED <<file, backups, offer, left>>

(* The backups a text needs before `next` replaces it, by name. *)
SchemaBackup == [i \in 1..SchemaVersion |-> "schema-" \o ToString(i)]
NeededBackups(next) ==
  IF file.schema = 0 THEN {} ELSE
  (IF file.schema < SchemaVersion THEN {SchemaBackup[file.schema]} ELSE {})
  \cup (IF next.mode = "managed" /\ file.document.mode = "legacy" THEN {"packages-legacy"} ELSE {})

(* A backup of another text is never replaced: the save is refused. *)
TakenByOther(name) == name \in DOMAIN backups /\ backups[name] # file

SavePrepares(w) ==
  /\ call[w].at = "prepare"
  /\ LET needed == IF Readable(file) THEN NeededBackups(call[w].document) ELSE {}
         taken == {name \in needed : TakenByOther(name)}
         refused == ~Readable(file) \/ taken # {}
         written == IF taken \ {"packages-legacy"} = {} THEN needed \ taken ELSE {}
     IN  /\ backups' = [name \in DOMAIN backups \cup written |->
                          IF name \in written THEN file ELSE backups[name]]
         /\ IF refused THEN End(w, "failed") /\ lock' = "free"
            ELSE call' = [call EXCEPT ![w].at = "replace"] /\ UNCHANGED lock
  /\ UNCHANGED <<file, offer, left>>

SaveReplaces(w) ==
  /\ call[w].at = "replace"
  /\ file' = Text(SchemaVersion, call[w].document)
  /\ End(w, "saved") /\ lock' = "free"
  /\ UNCHANGED <<backups, offer, left>>

Unlocked(w) == IF lock = w THEN "free" ELSE lock

(* A write, a backup or the move fails; the guard is dropped, the temporary file removed. *)
SaveFails(w) ==
  /\ call[w].at \in {"prepare", "replace"} /\ Use("failures")
  /\ End(w, "failed") /\ lock' = Unlocked(w)
  /\ UNCHANGED <<file, backups, offer>>

-------------------------------------------------------------------------------
(* Somebody edits the file, or puts an old one back. *)
HandEdit ==
  /\ Use("hand")
  /\ \/ file' = UnreadableText
     \/ Readable(file) /\ file' = [file EXCEPT !.document.language = "uk"]
     \/ Readable(file) /\ file' = Text(3, [file.document EXCEPT !.exclusions = {}, !.mode = "legacy"])
     \/ Readable(file) /\ file' = [file EXCEPT !.document.exclusions = {OfferedWord}, !.document.dictionary = {}]
  /\ UNCHANGED <<backups, lock, call, offer>>

(* The agent offers a word; the user takes the offer, perhaps twice. *)
OfferMade ==
  /\ Use("offers") /\ ~offer.saving
  /\ \E target \in {"dictionary", "exclusions"} :
       offer' = [offer EXCEPT !.made = TRUE, !.target = target]
  /\ UNCHANGED <<file, backups, lock, call>>

(* LexiconSaves::begin; the save runs on a thread of its own, which may not start. *)
AddRecentLexiconOffer ==
  /\ offer.made /\ ~offer.saving /\ Idle("saver")
  /\ \/ /\ offer' = [offer EXCEPT !.saving = TRUE]
        /\ call' = [call EXCEPT !["saver"] = SaveCall("any", "any")] /\ UNCHANGED left
     \/ Use("failures") /\ UNCHANGED <<offer, call>>
  /\ UNCHANGED <<file, backups, lock>>

LexiconSaveFinishes ==
  /\ offer.saving /\ Ended("saver")
  /\ offer' = [offer EXCEPT !.finished = call["saver"].at]
  /\ call' = [call EXCEPT !["saver"] = NoCall]
  /\ UNCHANGED <<file, backups, lock, left>>

StillSaving(outcome) == FALSE

(* finish_lexicon_saves, on its message or the timer: the offer ends once its word is saved. *)
FinishLexiconSaves ==
  /\ offer.finished # "none"
  /\ offer' = [offer EXCEPT !.finished = "none", !.saving = StillSaving(offer.finished),
                            !.made = @ /\ offer.finished # "saved"]
  /\ UNCHANGED <<file, backups, lock, call, left>>

SaveStep(w) == SaveBegins(w) \/ SaveIsBusy(w) \/ SavePrepares(w) \/ SaveReplaces(w)
SaverStep == SaveStep("saver") \/ LexiconSaveFinishes \/ FinishLexiconSaves
===============================================================================
