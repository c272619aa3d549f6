---- MODULE TypingSession ----
(***************************************************************************)
(* What the input worker knows of the word before the caret: the session that follows the typed      *)
(* characters, the keys it could type again, the word kept for the hotkey, the cycle of the hotkey,   *)
(* the undo record and the verdict of the privacy check. Beside it stands what is really in the      *)
(* fields, which the worker never reads before it decides.                                        *)
(*                                                                           *)
(* A key is handled before the next one arrives; an edit, decided at a Space or at the hotkey, is     *)
(* a step of its own, with every outcome its guards, its pastes and its replayed keys may have. How   *)
(* keys are held and drained meanwhile is the subject of CorrectionGate. The detector's answer is    *)
(* any language: which one it is, is the subject of WordDetection.                                 *)
(***************************************************************************)
EXTENDS Naturals, Sequences, SequencesExt, FiniteSets

CONSTANTS
  None,       \* no value
  Languages,  \* the enabled languages, each with one layout of its own
  Foreign,    \* the languages whose layouts read a letter otherwise than the rest
  Windows,    \* input targets
  Owner,      \* the program of each window
  Blind,      \* windows edited by replayed keys (PhysicalReplay), where nothing is read back
  Forms,      \* windows whose focus may go to a password field without a focus change
  Terminals,  \* blind windows the user lets convert by the hotkey though they cannot be inspected
  Lenient,    \* the suppress_after_* rules the user switched off
  MaxWord,    \* the longest word and the longest token the worker follows
  MaxText,    \* bound: characters before a caret
  Scenarios   \* bounds: how often each of the rarer things happens, and "all" of them together

ASSUME TypingAssumption ==
  /\ Foreign \subseteq Languages
  /\ Blind \subseteq Windows /\ Forms \subseteq Windows \ Blind /\ Terminals \subseteq Blind
  /\ Lenient \subseteq {"backspace", "delete", "navigation", "layout"}
  /\ MaxWord \in Nat \ {0} /\ MaxText \in Nat
  /\ DOMAIN Owner = Windows /\ None \notin {Owner[w] : w \in Windows}
  /\ None \notin Windows /\ None \notin {"password", "field", "unavailable"}

VARIABLES
  a,         \* the worker: InputSession and the fields of EventProcessor that follow the typing
  auto,      \* auto_enabled
  epoch,     \* what moved the input epoch since the worker last looked: None, "clean" or "lost"
  field,     \* what stands before the caret of each window
  layout,    \* the layout of each window's thread
  focus,     \* the window that gets the keys
  secret,    \* the windows whose focused field is a password field
  provider,  \* what a check answers: None for the truth, or the failure it reports
  entry,     \* history: where in its field the word the worker follows may begin without a boundary
  resumed,   \* history: "resumed" while the word goes on from a completed one whose delimiter was
             \* erased, "emptied" once that word was erased to its start
  did,       \* history: the edit the last step made: None, "auto", "forced" or "undo"
  budget     \* what the scenario still allows

tvars == <<a, auto, epoch, field, layout, focus, secret, provider, entry, resumed, did, budget>>
world == <<layout, focus, secret, provider>>

(* "f" is the letter in a layout that reads it otherwise, "s" a letter of a password. *)
Letters == {"a", "f", "s"}
Boundaries == {" ", ".", "/"}
Reading(key, language) == IF key = "a" /\ language \in Foreign THEN "f" ELSE key
Read(keys, language) == [i \in DOMAIN keys |-> Reading(keys[i], language)]
With(text, delimiter) == IF delimiter = None THEN text ELSE Append(text, delimiter)

(*                        the session                        *)
NewWorker ==
  [word |-> <<>>, suppressed |-> FALSE, left |-> 0, lineStart |-> FALSE, wordAtLineStart |-> FALSE,
   keys |-> <<>>, manualOnly |-> FALSE, inspection |-> FALSE, tokenStartKnown |-> FALSE,
   openStart |-> FALSE, boundary |-> None, cycle |-> None,
   remembered |-> [w \in Windows |-> None], undo |-> None, pending |-> None, deferred |-> None,
   inFlight |-> None, lastLayout |-> None, lastFocus |-> None,
   process |-> None, reason |-> None, needsCheck |-> TRUE, recentOk |-> None, recovered |-> FALSE]

Clear(b) == [b EXCEPT !.word = <<>>, !.suppressed = FALSE, !.left = 0, !.lineStart = FALSE,
                      !.wordAtLineStart = FALSE]
Reset(b, suppress) == [Clear(b) EXCEPT !.suppressed = suppress]
Invalidate(b) == [b EXCEPT !.pending = None, !.deferred = None, !.boundary = None, !.cycle = None,
                           !.undo = None]
Suppress(b) == [Reset(b, TRUE) EXCEPT !.keys = <<>>, !.manualOnly = FALSE, !.inspection = FALSE]

(* A printable character that may belong to a word. *)
Printable(b, character) ==
  CASE b.suppressed -> [b EXCEPT !.left = 0]
    [] ~b.suppressed /\ Len(b.word) >= MaxWord -> [Reset(b, TRUE) EXCEPT !.keys = <<>>]
    [] OTHER -> [b EXCEPT !.word = Append(@, character), !.lineStart = FALSE,
                          !.wordAtLineStart = IF b.word = <<>> THEN b.lineStart ELSE @]

FirstWordErased(b) == [b EXCEPT !.word = <<>>, !.suppressed = FALSE, !.left = 0,
                                !.lineStart = @ \/ b.wordAtLineStart, !.wordAtLineStart = FALSE]

(* A Backspace under the rule that suppresses the rest of the word, until all of it is erased. *)
HandleBackspace(b) ==
  CASE b.suppressed /\ b.left = 0 -> b
    [] b.suppressed /\ b.left = 1 -> FirstWordErased(b)
    [] b.suppressed /\ b.left > 1 -> [b EXCEPT !.left = @ - 1, !.word = Front(@)]
    [] ~b.suppressed /\ b.word = <<>> -> [b EXCEPT !.suppressed = TRUE]
    [] ~b.suppressed /\ Len(b.word) = 1 -> FirstWordErased(b)
    [] OTHER -> [b EXCEPT !.word = Front(@), !.suppressed = TRUE, !.left = Len(b.word) - 1]

(* Under the other rule the last character leaves the word, which stays eligible. *)
EraseLastCharacter(b) ==
  IF Len(b.word) = 1
    THEN [b EXCEPT !.word = <<>>, !.left = 0, !.lineStart = b.wordAtLineStart, !.wordAtLineStart = FALSE,
                   !.keys = Front(@)]
    ELSE [b EXCEPT !.word = Front(@), !.left = 0, !.keys = Front(@)]

(*                        the privacy check                        *)
MayEditByHand(b, w) == b.reason = None \/ (b.reason = "field" /\ w \in Terminals)

SetReason(b, reason, exception) ==
  CASE reason = None -> [b EXCEPT !.reason = None]
    [] exception -> [b EXCEPT !.reason = reason, !.manualOnly = TRUE, !.inspection = TRUE,
                              !.pending = None, !.deferred = None, !.undo = None]
    [] OTHER -> [Suppress(Invalidate(b)) EXCEPT !.reason = reason, !.openStart = FALSE]

(* Mutant: what may move the focus inside a window leaves the last good check standing. *)
GoodCheckStands(b, pause) ==
  LET c == [b EXCEPT !.needsCheck = TRUE]
  IN  IF pause THEN [SetReason(c, "unavailable", FALSE) EXCEPT !.openStart = b.openStart] ELSE c

(* mark_privacy_dirty; a pause keeps what last reset the word. *)
Dirty(b, pause) ==
  LET c == [b EXCEPT !.needsCheck = TRUE, !.recentOk = None]
  IN  IF pause THEN [SetReason(c, "unavailable", FALSE) EXCEPT !.openStart = b.openStart] ELSE c

(* refresh_process_policy: another program than the last one seen is checked anew. *)
Refreshed(b, w) ==
  IF b.process = Owner[w] THEN b ELSE [b EXCEPT !.process = Owner[w], !.needsCheck = TRUE]

(* What a check answers: the truth, or that the field cannot be inspected or did not answer in time. *)
Answer(w) == IF provider # None THEN provider ELSE IF w \in secret THEN "password" ELSE None

Evaluate(b, w, trigger) ==
  LET answer == Answer(w)
      softened == answer = "field" /\ trigger = "typing" /\ b.recentOk = w
      reason == IF softened THEN None ELSE answer
      c == [b EXCEPT !.process = Owner[w], !.needsCheck = FALSE,
                     !.recentOk = IF answer = None THEN w ELSE IF softened THEN @ ELSE None]
      d == SetReason(c, reason, reason = "field" /\ w \in Terminals)
  IN  IF answer = None /\ d.inspection
        THEN [d EXCEPT !.manualOnly = FALSE, !.inspection = FALSE] ELSE d

Ensured(b, w) ==
  LET c == Refreshed(b, w) IN IF c.needsCheck THEN Evaluate(c, w, "typing") ELSE c

(*                        the word kept for the hotkey                        *)
Typed(keys, delimiter, w, language) ==
  [keys |-> keys, delimiter |-> delimiter, window |-> w, layout |-> language, stale |-> FALSE]
In(record, w) == record # None /\ record.window = w

(* What the hotkey knew of a window, before the worker stops following it. *)
Remember(b, w, language) ==
  LET word == CASE b.keys # <<>> /\ language # None -> Typed(b.keys, None, w, language)
                [] b.keys = <<>> /\ In(b.boundary, w) -> b.boundary
                [] OTHER -> None
      cycle == IF In(b.cycle, w) THEN b.cycle ELSE None
  IN  IF word = None /\ cycle = None THEN b
      ELSE [b EXCEPT !.remembered[w] = [word |-> word, cycle |-> cycle]]

(* It comes back once, and only where the edit reads the text before it replaces it. *)
Restore(b, w) ==
  LET kept == b.remembered[w]
      stale == kept # None /\ \E r \in {kept.word, kept.cycle} : r # None /\ r.stale
      seen == Refreshed(b, w)
      c == [seen EXCEPT !.remembered[w] = None]
  IN  IF w \in Blind \/ b.cycle # None \/ b.boundary # None \/ b.keys # <<>> \/ kept = None THEN seen
      ELSE IF stale THEN c ELSE [c EXCEPT !.cycle = kept.cycle, !.boundary = kept.word]

(* handle_switching_rule; what is not suppressed may go on in the middle of a word. *)
SwitchingRule(b, rule) ==
  [(CASE rule \in Lenient -> Clear(b)
      [] rule = "backspace" /\ rule \notin Lenient -> HandleBackspace(b)
      [] OTHER -> Reset(b, TRUE)) EXCEPT !.boundary = None, !.cycle = None]

(*                        the start of every event                        *)
(* Keys the worker never saw, lost or typed by a recovery, leave the word unknown until a boundary. *)
ResetForEpoch(b) ==
  CASE epoch = None -> b
    [] epoch = "lost" -> Dirty([Reset(Invalidate(b), TRUE) EXCEPT !.keys = <<>>], TRUE)
    [] epoch = "clean" /\ b.recovered ->
         Dirty([Reset(Invalidate(b), TRUE) EXCEPT !.keys = <<>>, !.recovered = FALSE], FALSE)
    [] epoch = "clean" /\ ~b.recovered -> Dirty([Clear(Invalidate(b)) EXCEPT !.keys = <<>>], FALSE)

FocusChanged(b) ==
  LET kept == IF b.lastFocus = None THEN b ELSE Remember(b, b.lastFocus, b.lastLayout)
      left == [Reset(Invalidate(kept), FALSE) EXCEPT !.keys = <<>>, !.inFlight = None,
                 !.openStart = FALSE, !.lastFocus = focus, !.lastLayout = layout[focus],
                 !.process = Owner[focus], !.recovered = FALSE]
  IN  Dirty(left, FALSE)

(* A manual switch ends automatic conversion of the word, not the hotkey. *)
LayoutChanged(b) ==
  LET kept == IF b.keys # <<>> THEN Typed(b.keys, None, focus, b.lastLayout) ELSE b.boundary
      c == SwitchingRule([Invalidate(b) EXCEPT !.keys = <<>>], "layout")
  IN  [c EXCEPT !.boundary = kept, !.cycle = b.cycle, !.lastLayout = layout[focus],
                !.inFlight = None, !.openStart = TRUE]

Arrived ==
  LET b == ResetForEpoch(a)
  IN  CASE b.lastFocus # focus -> FocusChanged(b)
        [] b.lastFocus = focus /\ b.lastLayout # layout[focus] /\ b.inFlight = layout[focus] ->
             [b EXCEPT !.lastLayout = layout[focus], !.inFlight = None]
        [] b.lastFocus = focus /\ b.lastLayout # layout[focus] /\ b.inFlight # layout[focus] ->
             LayoutChanged(b)
        [] OTHER -> b

(* Where the word that starts now may lack a boundary: the code says such a word was discarded. *)
ForgetsTheWord == epoch = "clean" /\ ~a.recovered
EntryAfterArrival ==
  IF a.lastFocus # focus \/ ForgetsTheWord \/ ("layout" \in Lenient /\ a.lastLayout # layout[focus])
    THEN Len(field[focus]) ELSE entry

(* Any key but a modifier or the hotkey: the undo and the cycle end, and the word kept; a Backspace   *)
(* still looks at the word kept, and a Space leaves a pending conversion.                        *)
KeyDown(b) == [b EXCEPT !.undo = None, !.boundary = None, !.cycle = None, !.pending = None,
                        !.deferred = None]

Idle == a.pending = None \/ a.deferred # None
Here == field[focus]
Counted(what) ==
  /\ budget[what] > 0 /\ budget["all"] > 0
  /\ budget' = [budget EXCEPT ![what] = @ - 1, !["all"] = @ - 1]
Sees(b) == a' = b /\ epoch' = None /\ did' = None
Shows(text) == field' = [field EXCEPT ![focus] = text]
EntryAt(n) == entry' = n
(* What moves the caret inside a form may lead to a password field or from it. *)
MayChangeField == secret' \in {secret} \cup (IF focus \in Forms THEN {{}, {focus}} ELSE {})

(*                        what the user types                        *)
TokenKeys(b, key) == IF Len(b.keys) < MaxWord THEN Append(b.keys, key) ELSE <<>>
Continues(b) == b.suppressed /\ b.keys # <<>>
StartsAfterShortcut(b) == b.suppressed /\ b.keys = <<>> /\ b.openStart

(* A letter: part of the word, or of a token that only the hotkey converts. *)
LetterTyped(b, key) ==
  LET blocked == b.reason # None
      c == IF b.word = <<>> THEN [b EXCEPT !.manualOnly = blocked, !.inspection = blocked] ELSE b
      d == Printable(c, Reading(key, layout[focus]))
  IN  CASE Continues(b) -> [d EXCEPT !.keys = TokenKeys(b, key)]
        [] StartsAfterShortcut(b) -> [d EXCEPT !.keys = TokenKeys(b, key), !.tokenStartKnown = FALSE]
        [] ~b.suppressed /\ Len(d.word) = Len(b.word) + 1 -> [d EXCEPT !.keys = Append(@, key)]
        [] OTHER -> d

(* A character no word holds: the token goes on for the hotkey, if its start is known to the keys. *)
DigitTyped(b) ==
  LET atWord == ~b.suppressed /\ Len(b.keys) = Len(b.word)
      kept == Continues(b) \/ atWord \/ StartsAfterShortcut(b)
  IN  [Reset(b, TRUE) EXCEPT !.openStart = FALSE, !.keys = IF kept THEN TokenKeys(b, "1") ELSE <<>>,
         !.tokenStartKnown = IF atWord \/ StartsAfterShortcut(b) THEN atWord ELSE @]

PunctuationTyped(b) ==
  [Clear(b) EXCEPT !.keys = <<>>, !.openStart = FALSE, !.needsCheck = TRUE, !.recovered = FALSE]

Refused(b) == [Suppress(b) EXCEPT !.openStart = FALSE]

TypeCharacter ==
  /\ Idle /\ Len(Here) < MaxText
  /\ \E key \in {"1", "."} \cup (IF focus \in secret THEN {"s"} ELSE {"a"}) :
       /\ IF key \in {"1", "."} THEN Counted(key) ELSE UNCHANGED budget
       /\ Shows(Append(Here, Reading(key, layout[focus])))
       /\ LET b == Ensured(KeyDown(Arrived), focus)
          IN  Sees(CASE ~MayEditByHand(b, focus) -> Refused(b)
                   [] MayEditByHand(b, focus) /\ key = "1" -> DigitTyped(b)
                   [] MayEditByHand(b, focus) /\ key = "." -> PunctuationTyped(b)
                   [] OTHER -> LetterTyped(b, key))
       /\ resumed' = IF Last(Here) \in Boundaries \/ (resumed = "resumed" /\ Arrived.word = <<>>)
                       THEN None ELSE resumed
  /\ EntryAt(EntryAfterArrival)
  /\ UNCHANGED <<auto, world>>

(* A key the worker drops: of an older epoch, or while a new configuration waits. *)
MissKey ==
  /\ Idle /\ Len(Here) < MaxText /\ focus \notin secret /\ Counted("missed")
  /\ Shows(Append(Here, Reading("a", layout[focus])))
  /\ \/ epoch # None /\ Sees(ResetForEpoch(a))
     \/ Sees([Clear(Invalidate(ResetForEpoch(a))) EXCEPT !.keys = <<>>])
  /\ EntryAt(Len(Here) + 1)
  /\ UNCHANGED <<auto, world, resumed>>

(* A Backspace under the lenient rule: the token or the word gets shorter, or the word whose          *)
(* delimiter was just erased is taken up again, for the hotkey alone; <<>> when neither may be.      *)
ErasedOrResumed(b, last) ==
  LET resumable ==
        /\ last # None /\ last.delimiter # None /\ last.window = focus /\ ~last.stale
        /\ last.layout = layout[focus] /\ MayEditByHand(b, focus)
        /\ Len(last.keys) <= MaxWord /\ ToSet(last.keys) \subseteq Letters
      shorter == [b EXCEPT !.keys = Front(@)]
  IN  CASE Continues(b) -> {IF shorter.keys = <<>> /\ b.tokenStartKnown THEN Clear(shorter) ELSE shorter}
        [] ~Continues(b) /\ b.word # <<>> ->
             IF Len(b.keys) = Len(b.word) /\ ~b.suppressed THEN {EraseLastCharacter(b)} ELSE {}
        [] ~Continues(b) /\ b.word = <<>> /\ ~b.suppressed /\ b.keys = <<>> /\ resumable ->
             {[Clear(b) EXCEPT !.word = Read(last.keys, last.layout), !.keys = last.keys,
                               !.manualOnly = TRUE, !.inspection = FALSE]}
        [] OTHER -> {}

Backspace ==
  LET text == IF Last(Here) = "?" THEN Here ELSE Front(Here)
      b == KeyDown(Arrived)
      gone == IF "backspace" \in Lenient THEN ErasedOrResumed(b, Arrived.boundary) ELSE {}
  IN  /\ Idle /\ Counted("backspace")
      /\ Shows(text)
      /\ \/ \E c \in gone : Sees(c)
         \/ gone = {} /\ Sees(SwitchingRule([b EXCEPT !.keys = <<>>, !.openStart = FALSE], "backspace"))
      /\ EntryAt(IF gone = {} /\ "backspace" \in Lenient THEN Len(text) ELSE EntryAfterArrival)
      /\ resumed' = CASE \E c \in gone : b.word = <<>> /\ c.word # <<>> -> "resumed"
                      [] resumed = "resumed" /\ (\E c \in gone : c.word = <<>>) -> "emptied"
                      [] OTHER -> resumed
      /\ UNCHANGED <<auto, world>>

(* Delete, or a key that moves the caret or the focus inside the window; Escape and the like always    *)
(* suppress.                                                                   *)
DeleteOrNavigate ==
  /\ Idle /\ Counted("moves")
  /\ LET b == [KeyDown(Arrived) EXCEPT !.keys = <<>>, !.openStart = FALSE]
     IN  \/ Sees(SwitchingRule(b, "delete")) /\ UNCHANGED <<field, secret>>
         \/ /\ \/ Sees(Dirty(SwitchingRule(b, "navigation"), FALSE))
               \/ Sees(Dirty(Reset(b, TRUE), FALSE))
            /\ Shows(<<"?">>) /\ MayChangeField
  /\ EntryAt(Len(field'[focus]))
  /\ UNCHANGED <<auto, layout, focus, provider, resumed>>

AfterShortcut(b) == Dirty([Reset(b, TRUE) EXCEPT !.openStart = TRUE], TRUE)

(* A shortcut may paste, move or select: the text typed after it is a token of unknown start. *)
Shortcut ==
  /\ Idle /\ Counted("moves")
  /\ LET b == [KeyDown(Remember(Arrived, focus, layout[focus])) EXCEPT !.keys = <<>>]
     IN  Sees(AfterShortcut(Ensured(b, focus)))
  /\ Shows(<<"?">>) /\ MayChangeField
  /\ EntryAt(EntryAfterArrival)
  /\ UNCHANGED <<auto, layout, focus, provider, resumed>>

(* Ctrl+Backspace erases the word before the caret; the worker follows it only for the first word of   *)
(* a line.                                                                    *)
EraseWord ==
  LET ends == {n \in 1..Len(Here) : Here[n] \in Boundaries \cup {"?"}}
      text == SubSeq(Here, 1, CHOOSE n \in ends : \A m \in ends : m <= n)
      b == [KeyDown(Remember(Arrived, focus, layout[focus])) EXCEPT !.keys = <<>>]
  IN  /\ Idle /\ Counted("moves") /\ Last(Here) \in Letters \cup {"1"}
      /\ Shows(text)
      /\ IF b.word # <<>> /\ b.wordAtLineStart
           THEN Sees(Dirty([Clear(b) EXCEPT !.lineStart = TRUE, !.openStart = TRUE], FALSE))
           ELSE Sees(AfterShortcut(Ensured(b, focus)))
      /\ EntryAt(EntryAfterArrival)
      /\ UNCHANGED <<auto, world, resumed>>

(* Tab and Enter end the word without an edit and may move the focus; Enter starts a line. *)
TabOrEnter ==
  /\ Idle /\ Len(Here) < MaxText /\ Counted("moves")
  /\ \E enter \in BOOLEAN :
       LET b == [Clear(KeyDown(Arrived)) EXCEPT !.keys = <<>>, !.manualOnly = FALSE, !.openStart = FALSE,
                                           !.recovered = FALSE]
       IN  /\ Sees([Dirty(b, FALSE) EXCEPT !.lineStart = enter])
           /\ Shows(<<"?">>) \/ (enter /\ Shows(Append(Here, "/")))
           /\ MayChangeField
  /\ EntryAt(Len(field'[focus]))
  /\ UNCHANGED <<auto, layout, focus, provider, resumed>>

(*                        the Space that ends a word                        *)
Planned(b, target, forced, order, keys, original, delimiter) ==
  [keys |-> keys, original |-> original, replacement |-> Read(keys, target), delimiter |-> delimiter,
   window |-> focus, from |-> layout[focus], to |-> target, forced |-> forced, order |-> order]

(* Mutant: a word taken up again may be converted at its next Space. *)
ResumedToo(b) ==
  IF b.reason = None /\ ~b.suppressed /\ b.word # <<>> THEN Languages \ {layout[focus]} ELSE {}

(* handle_boundary: a word of a field that passed its check, neither suppressed nor resumed. *)
Candidates(b) ==
  IF b.reason = None /\ ~b.manualOnly /\ ~b.suppressed /\ b.word # <<>>
    THEN Languages \ {layout[focus]} ELSE {}

WordEnded(b) ==
  [Clear(b) EXCEPT !.keys = <<>>, !.manualOnly = FALSE, !.openStart = FALSE, !.needsCheck = TRUE,
     !.recovered = FALSE, !.boundary = IF b.keys = <<>> THEN None ELSE Typed(b.keys, " ", focus, layout[focus])]

Space ==
  /\ Idle /\ Len(Here) < MaxText
  /\ Shows(Append(Here, " "))
  /\ LET b == Arrived
         c == KeyDown(b)
     IN  \/ /\ b.pending # None
            /\ Sees([b EXCEPT !.undo = None, !.boundary = None, !.cycle = None, !.deferred = "passed",
                            !.recovered = FALSE])
         \/ b.pending = None /\ Sees(WordEnded(c))
         \/ /\ b.pending = None /\ auto /\ Len(c.keys) = Len(c.word)
            /\ \E target \in Candidates(c), deferred \in {None, "current"} :
                 Sees([WordEnded(c) EXCEPT !.deferred = deferred,
                         !.pending = Planned(c, target, FALSE, <<>>, c.keys, c.word, " ")])
  /\ EntryAt(EntryAfterArrival)
  /\ UNCHANGED <<auto, world, resumed, budget>>

(* The keys of a gate were drained: the Space among them converts its word if nothing followed it. *)
DrainReady ==
  /\ a.deferred # None
  /\ a' = [a EXCEPT !.deferred = None, !.pending = IF a.deferred = "current" THEN @ ELSE None]
  /\ did' = None
  /\ UNCHANGED <<auto, epoch, field, world, entry, resumed, budget>>

(*                        the hotkey                        *)
Orders(source) == {order \in SetToAllKPermutations(Languages) :
                     Len(order) = Cardinality(Languages) /\ Head(order) = source}

(* The next layout that shows another text; one that reads the keys as the original stands aside for it. *)
NextReading(order, keys, language, text) ==
  LET at == CHOOSE i \in DOMAIN order : order[i] = language
      Step(i) == order[((at - 1 + i) % Len(order)) + 1]
      others == {i \in 1..Len(order) - 1 : Read(keys, Step(i)) # text}
      next == Step(CHOOSE i \in others : \A j \in others : i <= j)
  IN  IF others = {} THEN None
      ELSE IF Read(keys, next) = Read(keys, Head(order)) THEN Head(order) ELSE next

(* The word a press acts on: the cycle's, the keys typed since the last boundary, or the word kept. *)
Source(b) ==
  CASE In(b.cycle, focus) -> {<<b.cycle.keys, b.cycle.delimiter, b.cycle.language, b.cycle.text>>}
    [] ~In(b.cycle, focus) /\ b.keys # <<>> ->
         {<<b.keys, None, layout[focus], Read(b.keys, layout[focus])>>}
    [] ~In(b.cycle, focus) /\ b.keys = <<>> /\ In(b.boundary, focus) ->
         {<<b.boundary.keys, b.boundary.delimiter, b.boundary.layout,
            Read(b.boundary.keys, b.boundary.layout)>>}
    [] OTHER -> {}

(* A press plans its edit, which Convert makes. *)
Hotkey ==
  LET b == Arrived
      c == Restore(b, focus)
  IN  /\ Idle /\ a.deferred = None /\ Counted("hotkey")
      /\ In(b.cycle, focus) \/ b.undo = None
      /\ \/ Sees(b)
         \/ Source(c) = {} /\ Sees(c)
         \/ \E source \in Source(c) :
              LET d == Evaluate(c, focus, "manual")
                  orders == IF In(c.cycle, focus) THEN {c.cycle.order} ELSE Orders(source[3])
              IN  IF ~MayEditByHand(d, focus) THEN Sees(d)
                  ELSE \E order \in orders :
                         LET to == NextReading(order, source[1], source[3], source[4])
                         IN  IF to = None THEN Sees(d)
                             ELSE Sees([d EXCEPT !.pending =
                                          Planned(d, to, TRUE, order, source[1], source[4], source[2])])
      /\ EntryAt(EntryAfterArrival)
      /\ UNCHANGED <<auto, field, world, resumed>>

(*                        the edits                        *)
EndsWith(text, tail) == Len(tail) <= Len(text) /\ SubSeq(text, Len(text) - Len(tail) + 1, Len(text)) = tail
Replaced(text, old, new) ==
  IF Len(old) > Len(text) THEN new ELSE SubSeq(text, 1, Len(text) - Len(old)) \o new
(* A paste selects and reads the word before it replaces it; replayed keys only count Backspaces. *)
Editable(old) == focus \in Blind \/ EndsWith(Here, old)

(* record_conversion_failure: what the field holds is uncertain, and automatic conversion stops. *)
Failure(b) == [Suppress(Invalidate(b)) EXCEPT !.inFlight = None]

Converted(b, p) ==
  [b EXCEPT !.lastLayout = p.to, !.inFlight = None,
     !.boundary = IF p.delimiter = None THEN None ELSE Typed(p.keys, p.delimiter, focus, p.to),
     !.cycle = IF p.forced
                 THEN [keys |-> p.keys, delimiter |-> p.delimiter, window |-> focus, language |-> p.to,
                       text |-> p.replacement, order |-> p.order, stale |-> FALSE] ELSE None,
     !.undo = IF p.forced THEN None ELSE p]

(* A conversion: refused by what its guards see, or begun and cancelled, failed before or after text    *)
(* changed, applied, or sent without being confirmed.                                    *)
Convert ==
  LET p == a.pending
      old == With(p.original, p.delimiter)
      new == With(p.replacement, p.delimiter)
      refused == [a EXCEPT !.pending = None]
      begun == [Clear(Invalidate(a)) EXCEPT !.keys = <<>>]
      kind == IF p.forced THEN "forced" ELSE "auto"
  IN  /\ a.pending # None /\ a.deferred = None
      /\ \/ /\ a' = refused /\ did' = None
            /\ UNCHANGED <<auto, field, layout, entry>>
         \/ /\ a' = Failure(refused) /\ auto' = FALSE /\ did' = None
            /\ UNCHANGED <<field, layout, entry>>
         \/ /\ epoch = None /\ focus = p.window /\ layout[focus] = p.from /\ (p.forced \/ auto)
            /\ IF p.forced THEN MayEditByHand(a, focus) ELSE a.reason = None
            /\ \/ /\ \/ a' = begun
                     \/ a' = Suppress(begun) /\ p.forced /\ focus \in Blind
                  /\ did' = None /\ UNCHANGED <<auto, field, layout>>
               \/ /\ Editable(old) /\ a' = Failure(begun) /\ auto' = FALSE /\ did' = kind
                  /\ Shows(<<"?">>) /\ layout' \in {layout, [layout EXCEPT ![focus] = p.to]}
               \/ /\ Editable(old) /\ Shows(Replaced(Here, old, new)) /\ did' = kind
                  /\ \/ a' = Converted(begun, p)
                     \/ focus \in Blind /\ a' = [begun EXCEPT !.inFlight = p.to]
                  /\ layout' = [layout EXCEPT ![focus] = p.to] /\ auto' = auto
            /\ EntryAt(IF did' = None \/ p.delimiter = None THEN Len(field'[focus]) ELSE entry)
      /\ UNCHANGED <<epoch, focus, secret, provider, resumed, budget>>

(* The press that undoes the automatic conversion just made. *)
Undo ==
  LET b == Arrived
      u == b.undo
      old == With(u.replacement, u.delimiter)
      new == With(u.original, u.delimiter)
      begun == [b EXCEPT !.undo = None]
  IN  /\ Idle /\ a.deferred = None /\ b.undo # None /\ ~In(b.cycle, focus) /\ Counted("hotkey")
      /\ \/ a' = b /\ did' = None /\ UNCHANGED <<auto, field, layout>>
         \/ /\ b.reason = None /\ u.window = focus /\ layout[focus] = u.to
            /\ \/ /\ \/ a' = begun
                     \/ a' = Suppress(Invalidate(begun)) /\ focus \in Blind
                  /\ did' = None /\ UNCHANGED <<auto, field, layout>>
               \/ /\ Editable(old) /\ a' = Failure(begun) /\ auto' = FALSE /\ did' = "undo"
                  /\ Shows(<<"?">>) /\ layout' \in {layout, [layout EXCEPT ![focus] = u.from]}
               \/ /\ Editable(old) /\ Shows(Replaced(Here, old, new)) /\ did' = "undo"
                  /\ \/ a' = [Clear(begun) EXCEPT !.lastLayout = u.from, !.inFlight = None, !.cycle = None,
                                 !.boundary = Typed(u.keys, u.delimiter, focus, u.from)]
                     \/ focus \in Blind /\ a' = [Clear(begun) EXCEPT !.inFlight = u.from]
                  /\ layout' = [layout EXCEPT ![focus] = u.from] /\ auto' = auto
      /\ EntryAt(EntryAfterArrival)
      /\ epoch' = None
      /\ UNCHANGED <<focus, secret, provider, resumed>>

(*                        the rest of the world                        *)
(* A click, or input of another program. *)
MouseOrInjection ==
  /\ Idle /\ Counted("moves")
  /\ LET b == ResetForEpoch(a)
         kept == IF b.lastFocus = None THEN b ELSE Remember(b, b.lastFocus, b.lastLayout)
     IN  \/ /\ Sees(Dirty([Reset(Invalidate(kept), FALSE) EXCEPT !.keys = <<>>, !.openStart = FALSE,
                                                                   !.recovered = FALSE], FALSE))
            /\ EntryAt(1) /\ MayChangeField
         \/ /\ Sees(Dirty([Suppress(Invalidate(b)) EXCEPT !.openStart = FALSE], TRUE))
            /\ UNCHANGED <<entry, secret>>
  /\ Shows(<<"?">>)
  /\ UNCHANGED <<auto, layout, focus, provider, resumed>>

(* The user goes to another window, or switches the layout; the worker sees it at the next key. *)
Switch ==
  /\ Idle /\ Counted("switches") /\ did' = None
  /\ \/ \E w \in Windows \ {focus} : focus' = w /\ UNCHANGED layout
     \/ \E l \in Languages \ {layout[focus]} : layout' = [layout EXCEPT ![focus] = l] /\ UNCHANGED focus
  /\ UNCHANGED <<a, auto, epoch, field, secret, provider, entry, resumed>>

(* The provider of a busy window fails or answers late, for a while. *)
ProviderChanges ==
  /\ Idle /\ Counted("refreshes") /\ did' = None
  /\ provider' \in {None, "field", "unavailable"} \ {provider}
  /\ UNCHANGED <<a, auto, epoch, field, layout, focus, secret, entry, resumed>>

(* The input epoch moves: a mode, a configuration or an aborted gate, or an overflow that lost a key. *)
EpochMoves ==
  /\ Idle /\ epoch = None /\ did' = None
  /\ \/ /\ Counted("epochs") /\ epoch' = "clean" /\ auto' \in BOOLEAN /\ UNCHANGED <<field>>
     \/ /\ Counted("missed") /\ epoch' = "lost" /\ focus \notin secret /\ Len(Here) < MaxText
        /\ Shows(Append(Here, Reading("a", layout[focus]))) /\ UNCHANGED auto
  /\ UNCHANGED <<a, world, entry, resumed>>

(* The keys an aborted gate held are typed past the hooks, all or some of them, by the worker after a  *)
(* check of their field or by the UI thread, which hands them back; the abort's pause may end then.   *)
Recover ==
  LET b == ResetForEpoch(a)
      c == Evaluate(b, focus, "recovery")
      TypesBack(d, moved) ==
        /\ a' = [Suppress(Invalidate(d)) EXCEPT !.recovered = TRUE]
        /\ \/ UNCHANGED <<field, auto>> /\ epoch' = moved
           \/ /\ Shows(Append(Here, Reading(IF focus \in secret THEN "s" ELSE "a", layout[focus])))
              /\ \/ UNCHANGED auto /\ epoch' = moved
                 \/ ~auto /\ auto' = TRUE /\ epoch' = IF moved = "lost" THEN "lost" ELSE "clean"
  IN  /\ Idle /\ Len(Here) < MaxText /\ Counted("missed") /\ did' = None
      /\ \/ /\ \/ Sees(b) /\ UNCHANGED <<field, auto>>
               \/ Sees(c) /\ UNCHANGED <<field, auto>>
               \/ c.reason # "password" /\ TypesBack(c, None)
            /\ EntryAt(IF ForgetsTheWord THEN Len(Here) ELSE entry)
         \/ TypesBack(a, epoch) /\ UNCHANGED entry
      /\ UNCHANGED <<world, resumed>>

(* The check of a timer or of a foreground change. *)
PrivacyRefresh ==
  /\ Idle /\ Counted("refreshes")
  /\ Sees(Evaluate(ResetForEpoch(a), focus, "typing"))
  /\ EntryAt(IF ForgetsTheWord THEN Len(Here) ELSE entry)
  /\ UNCHANGED <<auto, field, world, resumed>>

(* apply_profile_refresh: the keyboard profiles changed, and what was planned under the old is stale. *)
ProfilesChange ==
  LET Aged(r) == IF r = None THEN None ELSE [r EXCEPT !.stale = TRUE]
      b == Invalidate(a)
      c == IF b.word = <<>> THEN b ELSE Suppress(b)
  IN  /\ Idle /\ Counted("refreshes") /\ did' = None
      /\ a' = [c EXCEPT !.keys = <<>>, !.inFlight = None,
                 !.remembered = [w \in Windows |->
                   IF @[w] = None THEN None ELSE [word |-> Aged(@[w].word), cycle |-> Aged(@[w].cycle)]]]
      /\ EntryAt(Len(Here))
      /\ UNCHANGED <<auto, epoch, field, world, resumed>>

(* A remembered word, a good check and an expected layout switch each stand for a time. *)
Expire ==
  /\ Idle /\ did' = None
  /\ \/ \E w \in Windows : a.remembered[w] # None /\ a' = [a EXCEPT !.remembered[w] = None]
     \/ a.recentOk # None /\ a' = [a EXCEPT !.recentOk = None]
     \/ a.inFlight # None /\ a' = [a EXCEPT !.inFlight = None]
  /\ UNCHANGED <<auto, epoch, field, world, entry, resumed, budget>>

TInit ==
  /\ a = NewWorker /\ auto = TRUE /\ epoch = None /\ did = None /\ resumed = None
  /\ field = [w \in Windows |-> <<"?">>]
  /\ layout \in [Windows -> {CHOOSE l \in Languages \ Foreign : TRUE}]
  /\ focus \in Windows /\ secret \in {{}} \cup {{w} : w \in Forms}
  /\ provider = None /\ entry = 1 /\ budget \in Scenarios

TNext ==
  \/ TypeCharacter \/ MissKey \/ Backspace \/ DeleteOrNavigate \/ Shortcut \/ EraseWord \/ TabOrEnter
  \/ Space \/ DrainReady \/ Hotkey \/ Convert \/ Undo
  \/ MouseOrInjection \/ Switch \/ EpochMoves \/ Recover \/ PrivacyRefresh \/ ProviderChanges \/ ProfilesChange \/ Expire

TypingSpec == TInit /\ [][TNext]_tvars

(*                        properties                        *)
(* Keys sent blindly erase the planned word and nothing else: where nothing is read back, what       *)
(* stands before the caret is what the planned keys typed, each in one layout or another, and the    *)
(* delimiter. (Which layout an undo that was sent but not confirmed left is not known.)              *)
TypedBy(text, keys) ==
  /\ Len(text) = Len(keys)
  /\ \A i \in DOMAIN keys : \E language \in Languages : text[i] = Reading(keys[i], language)
ErasesOnlyTheWord ==
  [][did' # None =>
       LET edit == IF did' = "undo" THEN a.undo ELSE a.pending
           from == Len(field[focus]) - Len(With(edit.keys, edit.delimiter))
       IN  /\ from >= 0
           /\ edit.delimiter # None => Last(field[focus]) = edit.delimiter
           /\ TypedBy(SubSeq(field[focus], from + 1, from + Len(edit.keys)), edit.keys)]_tvars

(* Automatic conversion takes whole words: a boundary stands before the word, or the worker began    *)
(* to follow the field there after a click, a focus change, an edit or a word it discarded; and it    *)
(* never takes a word the user went back to. (A resumed word erased to its start reopens automatic  *)
(* conversion there.)                                                              *)
BeforeTheWord == Len(field[focus]) - Len(With(a.pending.original, a.pending.delimiter))
StartsAWord == BeforeTheWord = entry \/ field[focus][BeforeTheWord] \in Boundaries
ConvertsWholeWords ==
  [][did' = "auto" => resumed # "resumed" /\ (StartsAWord \/ resumed = "emptied")]_tvars

(* Nothing typed into a password field is followed, kept for the hotkey, remembered for a window,    *)
(* planned or undoable.                                                            *)
Held(r) == IF r = None THEN {} ELSE ToSet(r.keys)
NoSecretHeld ==
  LET records == {a.boundary, a.cycle, a.pending, a.undo}
        \cup UNION {{a.remembered[w].word, a.remembered[w].cycle} :
                      w \in {v \in Windows : a.remembered[v] # None}}
  IN  "s" \notin ToSet(a.keys) \cup ToSet(a.word) \cup UNION {Held(r) : r \in records}
====
