------------------------- MODULE TypingSessionProofs -------------------------
(***************************************************************************)
(* NoSecretHeld, for any windows, languages, layouts and suppression rules,  *)
(* any length of a word and any number of keys, where no other window of the *)
(* program of a form takes part.                                             *)
(* What the worker keeps grows by a key only in TypeCharacter, after a check *)
(* of the field.  The invariant therefore follows the last check: a password *)
(* field that has the last key is one the worker will check again, or found  *)
(* blocked, or left for another program since, and no recent good check is   *)
(* one of a password field.                                                  *)
(***************************************************************************)
EXTENDS TypingSession, TLAPS

(* The keys that are no letters of a password. *)
Plain == {"a", "f", "1"}
Open == Seq(Plain)

Free(record) == record = None \/ ("keys" \in DOMAIN record /\ record.keys \in Open)
KeepsFree(remembered) ==
  /\ DOMAIN remembered = Windows
  /\ \A w \in Windows :
       remembered[w] = None \/ (Free(remembered[w].word) /\ Free(remembered[w].cycle))

Fields == DOMAIN NewWorker

(* A worker that holds no secret, that last handled a key of w, and whose checks would show that w is    *)
(* one of the secret fields S.                                                                           *)
Sound(b, S, w) ==
  /\ DOMAIN b = Fields
  /\ b.word \in Open /\ b.keys \in Open
  /\ Free(b.boundary) /\ Free(b.cycle) /\ Free(b.pending) /\ Free(b.undo) /\ KeepsFree(b.remembered)
  /\ b.lastFocus = w /\ b.recentOk \notin S
  /\ w \in S => b.needsCheck \/ b.reason # None \/ b.process # Owner[w]

SecretsKnown ==
  /\ focus \in Windows /\ secret \subseteq Forms /\ epoch \in {None, "clean", "lost"}
  /\ a.lastFocus \in Windows \cup {None}
  /\ Sound(a, secret, a.lastFocus)

-------------------------------------------------------------------------------
LEMMA FieldsNamed ==
  Fields = {"word", "suppressed", "left", "lineStart", "wordAtLineStart", "keys", "manualOnly",
            "inspection", "tokenStartKnown", "openStart", "boundary", "cycle", "remembered", "undo",
            "pending", "deferred", "inFlight", "lastLayout", "lastFocus", "process", "reason",
            "needsCheck", "recentOk", "recovered"}
  BY DEF Fields, NewWorker

LEMMA EmptyOpen == <<>> \in Open
  BY DEF Open

LEMMA FrontOpen ==
  ASSUME NEW s \in Open PROVE Front(s) \in Open
  BY DEF Front, Open

LEMMA AppendOpen ==
  ASSUME NEW s \in Open, NEW key \in Plain PROVE Append(s, key) \in Open
  BY DEF Open

LEMMA NoneFree ==
  Free(None)
  BY DEF Free

(* A worker whose keys were forgotten. *)
LEMMA ClearSound ==
  ASSUME NEW b, NEW S, NEW w, Sound(b, S, w) PROVE Sound(Clear(b), S, w)
  BY FieldsNamed, EmptyOpen DEF Sound, Clear

LEMMA ResetSound ==
  ASSUME NEW b, NEW S, NEW w, NEW suppress, Sound(b, S, w) PROVE Sound(Reset(b, suppress), S, w)
<1>1. ASSUME NEW c, Sound(c, S, w) PROVE Sound([c EXCEPT !.suppressed = suppress], S, w)
  BY <1>1, FieldsNamed DEF Sound
<1>2. Sound(Clear(b), S, w)
  BY ClearSound
<1> QED
  BY ONLY <1>1, <1>2 DEF Reset

LEMMA InvalidateSound ==
  ASSUME NEW b, NEW S, NEW w, Sound(b, S, w) PROVE Sound(Invalidate(b), S, w)
  BY FieldsNamed, NoneFree DEF Sound, Invalidate

LEMMA SuppressSound ==
  ASSUME NEW b, NEW S, NEW w, Sound(b, S, w) PROVE Sound(Suppress(b), S, w)
<1>1. Sound(Reset(b, TRUE), S, w)
  BY ResetSound
<1>2. ASSUME NEW c, Sound(c, S, w)
      PROVE  Sound([c EXCEPT !.keys = <<>>, !.manualOnly = FALSE, !.inspection = FALSE], S, w)
  BY <1>2, FieldsNamed, EmptyOpen DEF Sound
<1> QED
  BY ONLY <1>1, <1>2 DEF Suppress

LEMMA KeysForgotten ==
  ASSUME NEW b, NEW S, NEW w, Sound(b, S, w) PROVE Sound([b EXCEPT !.keys = <<>>], S, w)
  BY FieldsNamed, EmptyOpen DEF Sound

LEMMA PrintableSound ==
  ASSUME NEW b, NEW S, NEW w, NEW key \in Plain, Sound(b, S, w) PROVE Sound(Printable(b, key), S, w)
<1>1. Append(b.word, key) \in Open
  BY AppendOpen DEF Sound
<1>2. Sound([Reset(b, TRUE) EXCEPT !.keys = <<>>], S, w)
  BY ResetSound, KeysForgotten
<1>3. Sound([b EXCEPT !.left = 0], S, w)
  BY FieldsNamed DEF Sound
<1>4. ASSUME NEW l PROVE Sound([b EXCEPT !.word = Append(@, key), !.lineStart = FALSE, !.wordAtLineStart = l], S, w)
  BY <1>1, FieldsNamed DEF Sound
<1> QED
  BY <1>2, <1>3, <1>4 DEF Printable

LEMMA FirstWordErasedSound ==
  ASSUME NEW b, NEW S, NEW w, Sound(b, S, w) PROVE Sound(FirstWordErased(b), S, w)
  BY FieldsNamed, EmptyOpen DEF Sound, FirstWordErased

LEMMA HandleBackspaceSound ==
  ASSUME NEW b, NEW S, NEW w, Sound(b, S, w) PROVE Sound(HandleBackspace(b), S, w)
<1>1. Front(b.word) \in Open
  BY FrontOpen DEF Sound
<1>2. ASSUME NEW l PROVE Sound([b EXCEPT !.left = l, !.word = Front(@)], S, w)
  BY <1>1, FieldsNamed DEF Sound
<1>3. ASSUME NEW l PROVE Sound([b EXCEPT !.word = Front(@), !.suppressed = TRUE, !.left = l], S, w)
  BY <1>1, FieldsNamed DEF Sound
<1>4. Sound([b EXCEPT !.suppressed = TRUE], S, w)
  BY FieldsNamed DEF Sound
<1> QED
  BY <1>2, <1>3, <1>4, FirstWordErasedSound DEF HandleBackspace

LEMMA EraseLastCharacterSound ==
  ASSUME NEW b, NEW S, NEW w, Sound(b, S, w) PROVE Sound(EraseLastCharacter(b), S, w)
<1>1. Front(b.word) \in Open /\ Front(b.keys) \in Open
  BY FrontOpen DEF Sound
<1> QED
  BY <1>1, EmptyOpen, FieldsNamed DEF Sound, EraseLastCharacter
-------------------------------------------------------------------------------
(* The privacy check. *)
LEMMA Unchecked ==
  ASSUME NEW b, NEW S, NEW w, Sound(b, S, w) PROVE Sound(b, {}, w)
  BY DEF Sound

LEMMA SetReasonSound ==
  ASSUME NEW b, NEW S, NEW w, NEW reason, NEW exception, Sound(b, {}, w), b.recentOk \notin S,
         w \in S => b.needsCheck \/ reason # None \/ b.process # Owner[w]
  PROVE  Sound(SetReason(b, reason, exception), S, w)
<1>1. ASSUME reason = None PROVE Sound([b EXCEPT !.reason = None], S, w)
  BY <1>1, FieldsNamed DEF Sound
<1>2. Sound([b EXCEPT !.reason = reason, !.manualOnly = TRUE, !.inspection = TRUE,
                      !.pending = None, !.deferred = None, !.undo = None], S, w)
  BY FieldsNamed, NoneFree DEF Sound
<1> DEFINE c == Suppress(Invalidate(b))
<1>3. Sound(c, {}, w)
  BY InvalidateSound, SuppressSound
<1>4. c.needsCheck = b.needsCheck /\ c.process = b.process /\ c.recentOk = b.recentOk
  BY FieldsNamed DEF Sound, Suppress, Invalidate, Reset, Clear
<1> HIDE DEF c
<1>5. Sound([c EXCEPT !.reason = reason, !.openStart = FALSE], S, w)
  BY <1>3, <1>4, FieldsNamed DEF Sound
<1> QED
  BY <1>1, <1>2, <1>5 DEF SetReason, c

LEMMA SetReasonSets ==
  ASSUME NEW b, NEW w, NEW reason, NEW exception, Sound(b, {}, w)
  PROVE  LET c == SetReason(b, reason, exception)
         IN  c.reason = reason /\ c.needsCheck = b.needsCheck /\ c.process = b.process
  BY FieldsNamed DEF Sound, SetReason, Suppress, Invalidate, Reset, Clear

(* What marked the field for a check: whatever the focus does inside the window, it will be checked. *)
LEMMA DirtySound ==
  ASSUME NEW b, NEW S, NEW T, NEW w, NEW pause, Sound(b, S, w), None \notin T
  PROVE  Sound(Dirty(b, pause), T, w)
<1> DEFINE c == [b EXCEPT !.needsCheck = TRUE, !.recentOk = None]
<1>1. Sound(c, T, w)
  BY FieldsNamed DEF Sound
<1>2. c.needsCheck
  BY FieldsNamed DEF Sound
<1> HIDE DEF c
<1>3. Sound(SetReason(c, "unavailable", FALSE), T, w)
  <2>1. Sound(c, {}, w) /\ c.recentOk \notin T
    BY <1>1 DEF Sound
  <2> QED
    BY <1>2, <2>1, SetReasonSound
<1>4. ASSUME NEW d, Sound(d, T, w) PROVE Sound([d EXCEPT !.openStart = b.openStart], T, w)
  BY <1>4, FieldsNamed DEF Sound
<1>5. Sound([SetReason(c, "unavailable", FALSE) EXCEPT !.openStart = b.openStart], T, w)
  BY ONLY <1>3, <1>4
<1> QED
  BY <1>1, <1>5 DEF Dirty, c

LEMMA RefreshedSound ==
  ASSUME NEW b, NEW S, NEW w, NEW v, Sound(b, S, w)
  PROVE  Sound(Refreshed(b, v), S, w) /\ Refreshed(b, v).process = Owner[v]
<1>1. Sound(Refreshed(b, v), S, w)
  BY FieldsNamed DEF Sound, Refreshed
<1>2. Refreshed(b, v).process = Owner[v]
  BY FieldsNamed DEF Sound, Refreshed
<1> QED
  BY ONLY <1>1, <1>2

(* No sibling window: no other window of the program of a form takes part. *)
NoSibling == \A w \in Forms : \A v \in Windows \ {w} : Owner[v] # Owner[w]

LEMMA EvaluateSound ==
  ASSUME NoSibling, secret \subseteq Forms, NEW b, NEW w, NEW v \in Windows, NEW trigger,
         Sound(b, secret, w)
  PROVE  /\ Sound(Evaluate(b, v, trigger), secret, w)
         /\ ~Evaluate(b, v, trigger).needsCheck
         /\ Evaluate(b, v, trigger).process = Owner[v]
<1> DEFINE answer == Answer(v)
           softened == answer = "field" /\ trigger = "typing" /\ b.recentOk = v
           reason == IF softened THEN None ELSE answer
           recent == IF answer = None THEN v ELSE IF softened THEN b.recentOk ELSE None
           c == [b EXCEPT !.process = Owner[v], !.needsCheck = FALSE, !.recentOk = recent]
           exception == reason = "field" /\ v \in Terminals
           d == SetReason(c, reason, exception)
<1>1. None \notin secret
  BY TypingAssumption
<1>2. b.recentOk \notin secret
  BY DEF Sound
<1>3. v \in secret => answer # None /\ reason # None
  BY <1>2, TypingAssumption DEF Answer
<1>4. recent \notin secret
  BY <1>1, <1>2, <1>3
<1>5. w \in secret => reason # None \/ Owner[v] # Owner[w]
  BY <1>3 DEF NoSibling
<1> HIDE DEF reason, recent, exception
<1>6. Sound(c, {}, w) /\ c.recentOk = recent
  BY FieldsNamed DEF Sound
<1>7. c.process = Owner[v] /\ ~c.needsCheck
  BY FieldsNamed DEF Sound
<1> HIDE DEF c
<1>8. Sound(d, secret, w)
  BY <1>4, <1>5, <1>6, <1>7, SetReasonSound
<1>9. d.process = Owner[v] /\ ~d.needsCheck
  BY <1>6, <1>7, SetReasonSets
<1> HIDE DEF d
<1>10. LET e == [d EXCEPT !.manualOnly = FALSE, !.inspection = FALSE]
       IN  Sound(e, secret, w) /\ e.process = Owner[v] /\ ~e.needsCheck
  BY <1>8, <1>9, FieldsNamed DEF Sound
<1>11. \/ Evaluate(b, v, trigger) = d
       \/ Evaluate(b, v, trigger) = [d EXCEPT !.manualOnly = FALSE, !.inspection = FALSE]
  BY DEF Evaluate, answer, softened, reason, recent, c, exception, d
<1> QED
  BY <1>8, <1>9, <1>10, <1>11
(* A key of the window whose field was just checked: what the worker then may follow is no secret. *)
LEMMA EnsuredSound ==
  ASSUME NoSibling, secret \subseteq Forms, NEW b, NEW w, NEW v \in Windows, Sound(b, secret, w)
  PROVE  /\ Sound(Ensured(b, v), secret, w)
         /\ w = v => Ensured(b, v).reason # None \/ v \notin secret
<1> DEFINE c == Refreshed(b, v)
           d == Evaluate(c, v, "typing")
<1>1. Sound(c, secret, w) /\ c.process = Owner[v]
  BY RefreshedSound
<1> HIDE DEF c
<1>2. Sound(d, secret, w) /\ ~d.needsCheck /\ d.process = Owner[v]
  BY <1>1, EvaluateSound
<1> HIDE DEF d
<1>3. Ensured(b, v) = IF c.needsCheck THEN d ELSE c
  BY DEF Ensured, c, d
<1>4. ~Ensured(b, v).needsCheck /\ Ensured(b, v).process = Owner[v]
  BY ONLY <1>1, <1>2, <1>3
<1>5. Sound(Ensured(b, v), secret, w)
  BY ONLY <1>1, <1>2, <1>3
<1>6. w = v => Ensured(b, v).reason # None \/ v \notin secret
  BY ONLY <1>4, <1>5 DEF Sound
<1> QED
  BY ONLY <1>5, <1>6

-------------------------------------------------------------------------------
(* The words kept for the hotkey. *)
LEMMA TypedFree ==
  ASSUME NEW keys \in Open, NEW delimiter, NEW w, NEW language
  PROVE  Free(Typed(keys, delimiter, w, language))
  BY DEF Free, Typed

LEMMA RememberSound ==
  ASSUME NEW b, NEW S, NEW w, NEW v \in Windows, NEW language, Sound(b, S, w)
  PROVE  Sound(Remember(b, v, language), S, w)
<1> DEFINE word == CASE b.keys # <<>> /\ language # None -> Typed(b.keys, None, v, language)
                     [] b.keys = <<>> /\ In(b.boundary, v) -> b.boundary
                     [] OTHER -> None
           cycle == IF In(b.cycle, v) THEN b.cycle ELSE None
           record == [word |-> word, cycle |-> cycle]
           kept == [b.remembered EXCEPT ![v] = record]
<1>1. Free(Typed(b.keys, None, v, language))
  BY TypedFree DEF Sound
<1>2. Free(b.boundary) /\ Free(b.cycle) /\ KeepsFree(b.remembered)
  BY DEF Sound
<1>3. Free(word) /\ Free(cycle)
  BY ONLY <1>1, <1>2, NoneFree
<1>4. record.word = word /\ record.cycle = cycle
  OBVIOUS
<1>5. Remember(b, v, language) = b \/ Remember(b, v, language) = [b EXCEPT !.remembered = kept]
  BY DEF Remember
<1> HIDE DEF word, cycle, record
<1>6. KeepsFree(kept)
  BY <1>2, <1>3, <1>4 DEF KeepsFree
<1> HIDE DEF kept
<1>7. Sound([b EXCEPT !.remembered = kept], S, w)
  BY <1>6, FieldsNamed DEF Sound
<1> QED
  BY ONLY <1>5, <1>7, Sound(b, S, w)

LEMMA RestoreSound ==
  ASSUME NEW b, NEW S, NEW w, NEW v \in Windows, Sound(b, S, w)
  PROVE  Sound(Restore(b, v), S, w)
<1> DEFINE kept == b.remembered[v]
           seen == Refreshed(b, v)
           rest == [seen.remembered EXCEPT ![v] = None]
           c == [seen EXCEPT !.remembered = rest]
<1>1. Sound(seen, S, w) /\ seen.remembered = b.remembered
  BY RefreshedSound, FieldsNamed DEF Sound, Refreshed
<1>2. kept # None => Free(kept.word) /\ Free(kept.cycle)
  BY DEF Sound, KeepsFree
<1> HIDE DEF seen
<1>3. KeepsFree(rest)
  BY <1>1 DEF Sound, KeepsFree
<1> HIDE DEF rest
<1>4. Sound(c, S, w)
  BY <1>1, <1>3, FieldsNamed DEF Sound
<1> HIDE DEF c
<1>5. kept # None => Sound([c EXCEPT !.cycle = kept.cycle, !.boundary = kept.word], S, w)
  BY <1>2, <1>4, FieldsNamed DEF Sound
<1>6. \/ Restore(b, v) = seen
      \/ Restore(b, v) = c
      \/ kept # None /\ Restore(b, v) = [c EXCEPT !.cycle = kept.cycle, !.boundary = kept.word]
  BY DEF Restore, seen, rest, c
<1> QED
  BY ONLY <1>1, <1>4, <1>5, <1>6

LEMMA SwitchingRuleSound ==
  ASSUME NEW b, NEW S, NEW w, NEW rule, Sound(b, S, w)
  PROVE  Sound(SwitchingRule(b, rule), S, w)
<1> DEFINE c == CASE rule \in Lenient -> Clear(b)
                  [] rule = "backspace" /\ rule \notin Lenient -> HandleBackspace(b)
                  [] OTHER -> Reset(b, TRUE)
<1>1. Sound(Clear(b), S, w) /\ Sound(HandleBackspace(b), S, w) /\ Sound(Reset(b, TRUE), S, w)
  BY ClearSound, HandleBackspaceSound, ResetSound
<1>2. Sound(c, S, w)
  BY ONLY <1>1
<1>3. SwitchingRule(b, rule) = [c EXCEPT !.boundary = None, !.cycle = None]
  BY DEF SwitchingRule
<1> HIDE DEF c
<1> QED
  BY <1>2, <1>3, NoneFree, FieldsNamed DEF Sound

LEMMA KeyDownSound ==
  ASSUME NEW b, NEW S, NEW w, Sound(b, S, w) PROVE Sound(KeyDown(b), S, w)
  BY FieldsNamed, NoneFree DEF Sound, KeyDown
-------------------------------------------------------------------------------
(* The start of every event. *)
LEMMA ResetForEpochSound ==
  ASSUME SecretsKnown PROVE Sound(ResetForEpoch(a), secret, a.lastFocus)
<1> DEFINE b == Reset(Invalidate(a), TRUE)
           c == Clear(Invalidate(a))
<1>1. Sound(a, secret, a.lastFocus) /\ None \notin secret
  BY TypingAssumption DEF SecretsKnown
<1>2. Sound(b, secret, a.lastFocus) /\ Sound(c, secret, a.lastFocus)
  BY ONLY <1>1, InvalidateSound, ResetSound, ClearSound
<1> HIDE DEF b, c
<1>3. Sound([b EXCEPT !.keys = <<>>], secret, a.lastFocus) /\ Sound([c EXCEPT !.keys = <<>>], secret, a.lastFocus)
  BY ONLY <1>2, KeysForgotten
<1> DEFINE d == [b EXCEPT !.keys = <<>>, !.recovered = FALSE]
<1>4. Sound(d, secret, a.lastFocus)
  BY <1>2, FieldsNamed, EmptyOpen DEF Sound
<1> HIDE DEF d
<1>5. /\ Sound(Dirty([b EXCEPT !.keys = <<>>], TRUE), secret, a.lastFocus)
      /\ Sound(Dirty([c EXCEPT !.keys = <<>>], FALSE), secret, a.lastFocus)
      /\ Sound(Dirty(d, FALSE), secret, a.lastFocus)
  BY ONLY <1>1, <1>3, <1>4, DirtySound
<1>6. epoch \in {None, "clean", "lost"}
  BY DEF SecretsKnown
<1>7. CASE epoch = "clean" /\ a.recovered
  BY <1>1, <1>5, <1>7 DEF ResetForEpoch, b, c, d
<1>8. CASE ~(epoch = "clean" /\ a.recovered)
  BY <1>1, <1>5, <1>6, <1>8 DEF ResetForEpoch, b, c, d
<1> QED
  BY ONLY <1>7, <1>8

LEMMA FocusChangedSound ==
  ASSUME NEW b, NEW w \in Windows \cup {None}, Sound(b, secret, w), focus \in Windows, None \notin secret
  PROVE  Sound(FocusChanged(b), secret, focus)
<1> DEFINE kept == IF b.lastFocus = None THEN b ELSE Remember(b, b.lastFocus, b.lastLayout)
           c == Reset(Invalidate(kept), FALSE)
           left == [c EXCEPT !.keys = <<>>, !.inFlight = None, !.openStart = FALSE, !.lastFocus = focus,
                             !.lastLayout = layout[focus], !.process = Owner[focus],
                             !.recovered = FALSE]
<1>1. b.lastFocus = w
  BY DEF Sound
<1>2. Sound(kept, secret, w)
  BY <1>1, RememberSound
<1> HIDE DEF kept
<1>3. Sound(c, {}, w)
  BY <1>2, InvalidateSound, ResetSound, Unchecked
<1> HIDE DEF c
<1>4. Sound(left, {}, focus)
  BY <1>3, FieldsNamed, EmptyOpen DEF Sound
<1> HIDE DEF left
<1>5. Sound(Dirty(left, FALSE), secret, focus)
  BY <1>4, DirtySound
<1> QED
  BY <1>5 DEF FocusChanged, kept, c, left

LEMMA LayoutChangedSound ==
  ASSUME NEW b, NEW S, NEW w, Sound(b, S, w) PROVE Sound(LayoutChanged(b), S, w)
<1> DEFINE kept == IF b.keys # <<>> THEN Typed(b.keys, None, focus, b.lastLayout) ELSE b.boundary
           i == Invalidate(b)
           c == SwitchingRule([i EXCEPT !.keys = <<>>], "layout")
<1>1. Free(kept) /\ Free(b.cycle)
  <2>1. Free(Typed(b.keys, None, focus, b.lastLayout))
    BY TypedFree DEF Sound
  <2> QED
    BY <2>1 DEF Sound
<1>2. Sound(i, S, w)
  BY InvalidateSound
<1> HIDE DEF i
<1>3. Sound(c, S, w)
  BY <1>2, KeysForgotten, SwitchingRuleSound
<1> HIDE DEF kept, c
<1>4. Sound([c EXCEPT !.boundary = kept, !.cycle = b.cycle, !.lastLayout = layout[focus],
                      !.inFlight = None, !.openStart = TRUE], S, w)
  BY <1>1, <1>3, FieldsNamed DEF Sound
<1> QED
  BY <1>4 DEF LayoutChanged, kept, i, c

LEMMA ArrivedSound ==
  ASSUME SecretsKnown PROVE Sound(Arrived, secret, focus)
<1> DEFINE b == ResetForEpoch(a)
<1>1. Sound(b, secret, a.lastFocus) /\ b.lastFocus = a.lastFocus
  BY ResetForEpochSound DEF Sound
<1>2. focus \in Windows /\ a.lastFocus \in Windows \cup {None} /\ None \notin secret
  BY TypingAssumption DEF SecretsKnown
<1>3. Sound(FocusChanged(b), secret, focus)
  BY <1>1, <1>2, FocusChangedSound
<1>4. Sound(LayoutChanged(b), secret, a.lastFocus)
  BY <1>1, LayoutChangedSound
<1>5. Sound([b EXCEPT !.lastLayout = layout[focus], !.inFlight = None], secret, a.lastFocus)
  BY <1>1, FieldsNamed DEF Sound
<1> HIDE DEF b
<1> QED
  BY <1>1, <1>3, <1>4, <1>5 DEF Arrived, b
-------------------------------------------------------------------------------
(* What the user types. *)
LEMMA ReadingPlain ==
  ASSUME NEW key \in Plain, NEW language PROVE Reading(key, language) \in Plain
  BY DEF Reading, Plain

LEMMA ReadOpen ==
  ASSUME NEW keys \in Open, NEW language PROVE Read(keys, language) \in Open
<1>1. keys \in Seq(Plain) /\ DOMAIN keys = 1..Len(keys) /\ \A i \in DOMAIN keys : keys[i] \in Plain
  BY DEF Open
<1>2. \A i \in DOMAIN keys : Reading(keys[i], language) \in Plain
  BY <1>1, ReadingPlain
<1> QED
  BY <1>1, <1>2 DEF Read, Open

LEMMA TokenKeysOpen ==
  ASSUME NEW b, NEW key \in Plain, b.keys \in Open PROVE TokenKeys(b, key) \in Open
  BY AppendOpen, EmptyOpen DEF TokenKeys

LEMMA LetterTypedSound ==
  ASSUME NEW b, NEW S, NEW w, NEW key \in Plain, Sound(b, S, w) PROVE Sound(LetterTyped(b, key), S, w)
<1> DEFINE blocked == b.reason # None
           c == IF b.word = <<>> THEN [b EXCEPT !.manualOnly = blocked, !.inspection = blocked] ELSE b
           d == Printable(c, Reading(key, layout[focus]))
<1>1. Sound(c, S, w)
  BY FieldsNamed DEF Sound
<1> HIDE DEF c
<1>2. Sound(d, S, w)
  BY <1>1, ReadingPlain, PrintableSound
<1> HIDE DEF d
<1>3. b.keys \in Open /\ d.keys \in Open
  BY <1>2 DEF Sound
<1>4. TokenKeys(b, key) \in Open /\ Append(d.keys, key) \in Open
  BY <1>3, TokenKeysOpen, AppendOpen
<1>5. /\ Sound([d EXCEPT !.keys = TokenKeys(b, key)], S, w)
      /\ Sound([d EXCEPT !.keys = TokenKeys(b, key), !.tokenStartKnown = FALSE], S, w)
      /\ Sound([d EXCEPT !.keys = Append(@, key)], S, w)
  BY <1>2, <1>4, FieldsNamed DEF Sound
<1> QED
  BY <1>2, <1>5 DEF LetterTyped, c, d

LEMMA DigitTypedSound ==
  ASSUME NEW b, NEW S, NEW w, Sound(b, S, w) PROVE Sound(DigitTyped(b), S, w)
<1> DEFINE atWord == ~b.suppressed /\ Len(b.keys) = Len(b.word)
           kept == Continues(b) \/ atWord \/ StartsAfterShortcut(b)
           keys == IF kept THEN TokenKeys(b, "1") ELSE <<>>
           c == Reset(b, TRUE)
           known == IF atWord \/ StartsAfterShortcut(b) THEN atWord ELSE c.tokenStartKnown
<1>1. Sound(c, S, w)
  BY ResetSound
<1>2. keys \in Open
  <2>1. TokenKeys(b, "1") \in Open
    BY TokenKeysOpen DEF Sound, Plain
  <2> QED
    BY <2>1, EmptyOpen
<1>3. DigitTyped(b) = [c EXCEPT !.openStart = FALSE, !.keys = keys, !.tokenStartKnown = known]
  BY DEF DigitTyped
<1> HIDE DEF keys, c, known
<1> QED
  BY <1>1, <1>2, <1>3, FieldsNamed DEF Sound

LEMMA PunctuationTypedSound ==
  ASSUME NEW b, NEW S, NEW w, Sound(b, S, w) PROVE Sound(PunctuationTyped(b), S, w)
<1> DEFINE c == Clear(b)
<1>1. Sound(c, S, w)
  BY ClearSound
<1> HIDE DEF c
<1>2. Sound([c EXCEPT !.keys = <<>>, !.openStart = FALSE, !.needsCheck = TRUE, !.recovered = FALSE], S, w)
  BY <1>1, FieldsNamed, EmptyOpen DEF Sound
<1> QED
  BY <1>2 DEF PunctuationTyped, c

LEMMA RefusedSound ==
  ASSUME NEW b, NEW S, NEW w, Sound(b, S, w) PROVE Sound(Refused(b), S, w)
<1> DEFINE c == Suppress(b)
<1>1. Sound(c, S, w)
  BY SuppressSound
<1> HIDE DEF c
<1>2. Sound([c EXCEPT !.openStart = FALSE], S, w)
  BY <1>1, FieldsNamed DEF Sound
<1> QED
  BY <1>2 DEF Refused, c

(* A worker that is sound for the fields as they are after the step. *)
LEMMA SoundKeeps ==
  ASSUME NEW b, NEW w \in Windows \cup {None}, a' = b, epoch' \in {None, "clean", "lost"},
         focus' \in Windows, secret' \subseteq Forms, Sound(b, secret', w)
  PROVE  SecretsKnown'
<1>1. b.lastFocus = w
  BY DEF Sound
<1> QED
  BY <1>1 DEF SecretsKnown

LEMMA SeenKeeps ==
  ASSUME SecretsKnown, NEW b, NEW w \in Windows \cup {None}, Sees(b), Sound(b, secret, w),
         UNCHANGED <<focus, secret>>
  PROVE  SecretsKnown'
<1>1. a' = b /\ epoch' = None /\ focus' \in Windows /\ secret' = secret /\ secret' \subseteq Forms
  BY DEF Sees, SecretsKnown
<1>2. Sound(b, secret', w)
  BY <1>1
<1> QED
  BY <1>1, <1>2, SoundKeeps

LEMMA TypeCharacterKeeps ==
  ASSUME NoSibling, SecretsKnown, TypeCharacter PROVE SecretsKnown'
<1> DEFINE b == Ensured(KeyDown(Arrived), focus)
<1>1. focus \in Windows /\ secret \subseteq Forms
  BY DEF SecretsKnown
<1>2. Sound(b, secret, focus) /\ (b.reason # None \/ focus \notin secret)
  BY <1>1, ArrivedSound, KeyDownSound, EnsuredSound
<1> HIDE DEF b
<1>3. MayEditByHand(b, focus) => focus \notin secret
  BY <1>1, <1>2, TypingAssumption DEF MayEditByHand
<1>4. PICK key \in {"1", "."} \cup (IF focus \in secret THEN {"s"} ELSE {"a"}) :
        Sees(CASE ~MayEditByHand(b, focus) -> Refused(b)
               [] MayEditByHand(b, focus) /\ key = "1" -> DigitTyped(b)
               [] MayEditByHand(b, focus) /\ key = "." -> PunctuationTyped(b)
               [] OTHER -> LetterTyped(b, key))
  BY DEF TypeCharacter, b
<1>5. UNCHANGED <<focus, secret>>
  BY DEF TypeCharacter, world
<1>6. MayEditByHand(b, focus) /\ key # "." => key \in Plain
  BY <1>3 DEF Plain
<1>7. PICK c : Sees(c) /\ Sound(c, secret, focus)
  <2>1. Sound(Refused(b), secret, focus) /\ Sound(DigitTyped(b), secret, focus)
        /\ Sound(PunctuationTyped(b), secret, focus)
    BY <1>2, RefusedSound, DigitTypedSound, PunctuationTypedSound
  <2>2. key \in Plain => Sound(LetterTyped(b, key), secret, focus)
    BY <1>2, LetterTypedSound
  <2>3. \/ Sees(Refused(b)) \/ Sees(DigitTyped(b)) \/ Sees(PunctuationTyped(b))
        \/ MayEditByHand(b, focus) /\ key # "." /\ Sees(LetterTyped(b, key))
    BY <1>4
  <2> QED
    BY <1>6, <2>1, <2>2, <2>3
<1> QED
  BY <1>1, <1>5, <1>7, SeenKeeps
LEMMA MissKeyKeeps ==
  ASSUME SecretsKnown, MissKey PROVE SecretsKnown'
<1> DEFINE b == ResetForEpoch(a)
           c == Clear(Invalidate(b))
           d == [c EXCEPT !.keys = <<>>]
<1>1. Sound(b, secret, a.lastFocus)
  BY ResetForEpochSound
<1>2. Sound(d, secret, a.lastFocus)
  BY <1>1, InvalidateSound, ClearSound, KeysForgotten
<1>3. Sees(b) \/ Sees(d)
  BY DEF MissKey
<1>4. UNCHANGED <<focus, secret>> /\ a.lastFocus \in Windows \cup {None}
  BY DEF MissKey, world, SecretsKnown
<1> HIDE DEF b, d
<1> QED
  BY <1>1, <1>2, <1>3, <1>4, SeenKeeps

LEMMA ErasedOrResumedSound ==
  ASSUME NEW b, NEW S, NEW w, NEW last, Sound(b, S, w), Free(last), NEW c \in ErasedOrResumed(b, last)
  PROVE  Sound(c, S, w)
<1> DEFINE shorter == [b EXCEPT !.keys = Front(@)]
           taken == [Clear(b) EXCEPT !.word = Read(last.keys, last.layout), !.keys = last.keys,
                                     !.manualOnly = TRUE, !.inspection = FALSE]
<1>1. Front(b.keys) \in Open
  BY FrontOpen DEF Sound
<1>2. Sound(shorter, S, w)
  BY <1>1, FieldsNamed DEF Sound
<1> HIDE DEF shorter
<1>3. Sound(Clear(shorter), S, w)
  BY <1>2, ClearSound
<1>4. Sound(EraseLastCharacter(b), S, w)
  BY EraseLastCharacterSound
<1>5. ASSUME last # None PROVE Sound(taken, S, w)
  <2>1. last.keys \in Open
    BY <1>5 DEF Free
  <2>2. Read(last.keys, last.layout) \in Open
    BY <2>1, ReadOpen
  <2>3. Sound(Clear(b), S, w)
    BY ClearSound
  <2> QED
    BY <2>1, <2>2, <2>3, FieldsNamed DEF Sound
<1> HIDE DEF taken
<1>6. \/ c = shorter \/ c = Clear(shorter) \/ c = EraseLastCharacter(b)
      \/ last # None /\ c = taken
  BY DEF ErasedOrResumed, shorter, taken
<1> QED
  BY ONLY <1>2, <1>3, <1>4, <1>5, <1>6

LEMMA BackspaceKeeps ==
  ASSUME SecretsKnown, Backspace PROVE SecretsKnown'
<1> DEFINE b == KeyDown(Arrived)
           last == Arrived.boundary
           c == [b EXCEPT !.keys = <<>>, !.openStart = FALSE]
           d == SwitchingRule(c, "backspace")
<1>1. Sound(b, secret, focus) /\ Free(last)
  BY ArrivedSound, KeyDownSound DEF Sound
<1> HIDE DEF b, last
<1>2. \A e \in ErasedOrResumed(b, last) : Sound(e, secret, focus)
  BY <1>1, ErasedOrResumedSound
<1>3. Sound(c, secret, focus)
  BY <1>1, FieldsNamed, EmptyOpen DEF Sound
<1> HIDE DEF c
<1>4. Sound(d, secret, focus)
  BY <1>3, SwitchingRuleSound
<1>5. (\E e \in ErasedOrResumed(b, last) : Sees(e)) \/ Sees(d)
  BY DEF Backspace, b, last, c
<1> HIDE DEF d
<1>6. UNCHANGED <<focus, secret>> /\ focus \in Windows
  BY DEF Backspace, world, SecretsKnown
<1> QED
  BY <1>2, <1>4, <1>5, <1>6, SeenKeeps

(* What may move the focus inside a window: the worker marked the field for a check. *)
LEMMA MovedKeeps ==
  ASSUME SecretsKnown, NEW b, NEW w \in Windows \cup {None}, Sound(b, secret, w), NEW pause,
         Sees(Dirty(b, pause)) \/ \E l : Sees([Dirty(b, pause) EXCEPT !.lineStart = l]),
         MayChangeField \/ UNCHANGED secret, UNCHANGED focus
  PROVE  SecretsKnown'
<1>1. secret' \subseteq Forms /\ focus' \in Windows /\ None \notin secret'
  BY TypingAssumption DEF MayChangeField, SecretsKnown
<1>2. Sound(Dirty(b, pause), secret', w)
  BY <1>1, DirtySound
<1>3. PICK c : Sees(c) /\ Sound(c, secret', w)
  <2>1. ASSUME NEW e, Sound(e, secret', w), NEW l PROVE Sound([e EXCEPT !.lineStart = l], secret', w)
    BY <2>1, FieldsNamed DEF Sound
  <2>2. \A l : Sound([Dirty(b, pause) EXCEPT !.lineStart = l], secret', w)
    BY ONLY <1>2, <2>1
  <2> QED
    BY <1>2, <2>2
<1>4. a' = c /\ epoch' = None
  BY <1>3 DEF Sees
<1> QED
  BY <1>1, <1>3, <1>4, SoundKeeps

LEMMA DeleteOrNavigateKeeps ==
  ASSUME SecretsKnown, DeleteOrNavigate PROVE SecretsKnown'
<1> DEFINE b == [KeyDown(Arrived) EXCEPT !.keys = <<>>, !.openStart = FALSE]
<1>1. Sound(b, secret, focus)
  <2>1. Sound(KeyDown(Arrived), secret, focus)
    BY ArrivedSound, KeyDownSound
  <2> QED
    BY <2>1, FieldsNamed, EmptyOpen DEF Sound
<1>2. focus \in Windows /\ UNCHANGED focus
  BY DEF SecretsKnown, DeleteOrNavigate
<1>3. \/ Sees(SwitchingRule(b, "delete")) /\ UNCHANGED secret
      \/ /\ Sees(Dirty(SwitchingRule(b, "navigation"), FALSE)) \/ Sees(Dirty(Reset(b, TRUE), FALSE))
         /\ MayChangeField
  BY DEF DeleteOrNavigate, b
<1> HIDE DEF b
<1>4. /\ Sound(SwitchingRule(b, "delete"), secret, focus)
      /\ Sound(SwitchingRule(b, "navigation"), secret, focus)
      /\ Sound(Reset(b, TRUE), secret, focus)
  BY <1>1, SwitchingRuleSound, ResetSound
<1>5. CASE Sees(SwitchingRule(b, "delete")) /\ UNCHANGED secret
  BY <1>2, <1>4, <1>5, SeenKeeps
<1>6. CASE Sees(Dirty(SwitchingRule(b, "navigation"), FALSE)) /\ MayChangeField
  BY <1>2, <1>4, <1>6, MovedKeeps
<1>7. CASE Sees(Dirty(Reset(b, TRUE), FALSE)) /\ MayChangeField
  BY <1>2, <1>4, <1>7, MovedKeeps
<1> QED
  BY <1>3, <1>5, <1>6, <1>7
LEMMA RememberedHere ==
  ASSUME SecretsKnown
  PROVE  Sound([KeyDown(Remember(Arrived, focus, layout[focus])) EXCEPT !.keys = <<>>], secret, focus)
<1>1. focus \in Windows
  BY DEF SecretsKnown
<1>2. Sound(Remember(Arrived, focus, layout[focus]), secret, focus)
  BY <1>1, ArrivedSound, RememberSound
<1> QED
  BY <1>2, KeyDownSound, KeysForgotten

LEMMA AfterShortcutBase ==
  ASSUME NoSibling, secret \subseteq Forms, NEW v \in Windows, NEW b, Sound(b, secret, v)
  PROVE  Sound([Reset(Ensured(b, v), TRUE) EXCEPT !.openStart = TRUE], secret, v)
<1> DEFINE c == Reset(Ensured(b, v), TRUE)
<1>1. Sound(Ensured(b, v), secret, v)
  BY EnsuredSound
<1>2. Sound(c, secret, v)
  BY <1>1, ResetSound
<1> HIDE DEF c
<1>3. Sound([c EXCEPT !.openStart = TRUE], secret, v)
  BY <1>2, FieldsNamed DEF Sound
<1> QED
  BY <1>3 DEF c

LEMMA ShortcutKeeps ==
  ASSUME NoSibling, SecretsKnown, Shortcut PROVE SecretsKnown'
<1> DEFINE b == [KeyDown(Remember(Arrived, focus, layout[focus])) EXCEPT !.keys = <<>>]
           c == [Reset(Ensured(b, focus), TRUE) EXCEPT !.openStart = TRUE]
<1>1. focus \in Windows /\ secret \subseteq Forms /\ UNCHANGED focus /\ MayChangeField
  BY DEF SecretsKnown, Shortcut
<1>2. Sound(b, secret, focus)
  BY RememberedHere
<1>3. Sees(Dirty(c, TRUE))
  BY DEF Shortcut, AfterShortcut
<1> HIDE DEF b
<1>4. Sound(c, secret, focus)
  BY <1>1, <1>2, AfterShortcutBase
<1> HIDE DEF c
<1> QED
  BY <1>1, <1>3, <1>4, MovedKeeps

LEMMA EraseWordKeeps ==
  ASSUME NoSibling, SecretsKnown, EraseWord PROVE SecretsKnown'
<1> DEFINE b == [KeyDown(Remember(Arrived, focus, layout[focus])) EXCEPT !.keys = <<>>]
           c == [Reset(Ensured(b, focus), TRUE) EXCEPT !.openStart = TRUE]
           d == [Clear(b) EXCEPT !.lineStart = TRUE, !.openStart = TRUE]
<1>1. focus \in Windows /\ secret \subseteq Forms /\ UNCHANGED <<focus, secret>>
  BY DEF SecretsKnown, EraseWord, world
<1>2. Sound(b, secret, focus)
  BY RememberedHere
<1>3. Sees(Dirty(c, TRUE)) \/ Sees(Dirty(d, FALSE))
  BY DEF EraseWord, AfterShortcut
<1> HIDE DEF b
<1>4. Sound(c, secret, focus)
  BY <1>1, <1>2, AfterShortcutBase
<1>5. Sound(d, secret, focus)
  <2>1. Sound(Clear(b), secret, focus)
    BY <1>2, ClearSound
  <2> QED
    BY <2>1, FieldsNamed DEF Sound
<1> HIDE DEF c, d
<1> QED
  BY <1>1, <1>3, <1>4, <1>5, MovedKeeps

LEMMA TabOrEnterKeeps ==
  ASSUME SecretsKnown, TabOrEnter PROVE SecretsKnown'
<1> DEFINE c == Clear(KeyDown(Arrived))
           b == [c EXCEPT !.keys = <<>>, !.manualOnly = FALSE, !.openStart = FALSE, !.recovered = FALSE]
<1>1. focus \in Windows /\ UNCHANGED focus /\ MayChangeField
  BY DEF SecretsKnown, TabOrEnter
<1>2. Sound(c, secret, focus)
  BY ArrivedSound, KeyDownSound, ClearSound
<1>3. PICK enter \in BOOLEAN : Sees([Dirty(b, FALSE) EXCEPT !.lineStart = enter])
  BY DEF TabOrEnter
<1> HIDE DEF c
<1>4. Sound(b, secret, focus)
  BY <1>2, FieldsNamed, EmptyOpen DEF Sound
<1> HIDE DEF b
<1>5. \E l : Sees([Dirty(b, FALSE) EXCEPT !.lineStart = l])
  BY <1>3
<1> QED
  BY <1>1, <1>4, <1>5, MovedKeeps

-------------------------------------------------------------------------------
(* The Space, the hotkey and the edits: what is planned, undone or kept has the keys it came from. *)
LEMMA PlannedFree ==
  ASSUME NEW b, NEW target, NEW forced, NEW order, NEW keys \in Open, NEW original, NEW delimiter
  PROVE  Free(Planned(b, target, forced, order, keys, original, delimiter))
  BY DEF Free, Planned

LEMMA WordEndedSound ==
  ASSUME NEW b, NEW S, NEW w, Sound(b, S, w) PROVE Sound(WordEnded(b), S, w)
<1> DEFINE c == Clear(b)
           kept == IF b.keys = <<>> THEN None ELSE Typed(b.keys, " ", focus, layout[focus])
<1>1. Sound(c, S, w)
  BY ClearSound
<1>2. Free(kept)
  <2>1. Free(Typed(b.keys, " ", focus, layout[focus]))
    BY TypedFree DEF Sound
  <2> QED
    BY <2>1, NoneFree
<1>3. WordEnded(b) = [c EXCEPT !.keys = <<>>, !.manualOnly = FALSE, !.openStart = FALSE,
                               !.needsCheck = TRUE, !.recovered = FALSE, !.boundary = kept]
  BY DEF WordEnded
<1> HIDE DEF c, kept
<1> QED
  BY <1>1, <1>2, <1>3, FieldsNamed, EmptyOpen DEF Sound

LEMMA SpaceKeeps ==
  ASSUME SecretsKnown, Space PROVE SecretsKnown'
<1> DEFINE b == Arrived
           c == KeyDown(b)
           e == WordEnded(c)
           passed == [b EXCEPT !.undo = None, !.boundary = None, !.cycle = None, !.deferred = "passed",
                                !.recovered = FALSE]
<1>1. Sound(b, secret, focus)
  BY ArrivedSound
<1>2. focus \in Windows /\ UNCHANGED <<focus, secret>>
  BY DEF SecretsKnown, Space, world
<1>3. \/ Sees(passed)
      \/ Sees(e)
      \/ \E target, deferred :
           Sees([e EXCEPT !.deferred = deferred,
                          !.pending = Planned(c, target, FALSE, <<>>, c.keys, c.word, " ")])
  BY DEF Space
<1> HIDE DEF b
<1>4. Sound(passed, secret, focus)
  BY <1>1, NoneFree, FieldsNamed DEF Sound
<1>5. Sound(c, secret, focus)
  BY <1>1, KeyDownSound
<1> HIDE DEF c, passed
<1>6. Sound(e, secret, focus) /\ c.keys \in Open
  BY <1>5, WordEndedSound DEF Sound
<1> HIDE DEF e
<1>7. ASSUME NEW target, NEW deferred
      PROVE  Sound([e EXCEPT !.deferred = deferred,
                             !.pending = Planned(c, target, FALSE, <<>>, c.keys, c.word, " ")],
                   secret, focus)
  <2>1. Free(Planned(c, target, FALSE, <<>>, c.keys, c.word, " "))
    BY <1>6, PlannedFree
  <2> QED
    BY <1>6, <2>1, FieldsNamed DEF Sound
<1> QED
  BY <1>2, <1>3, <1>4, <1>6, <1>7, SeenKeeps

LEMMA DrainReadyKeeps ==
  ASSUME SecretsKnown, DrainReady PROVE SecretsKnown'
<1> DEFINE next == IF a.deferred = "current" THEN a.pending ELSE None
           b == [a EXCEPT !.deferred = None, !.pending = next]
<1>1. Sound(a, secret, a.lastFocus) /\ a.lastFocus \in Windows \cup {None}
  BY DEF SecretsKnown
<1>2. Free(next)
  BY <1>1, NoneFree DEF Sound
<1>3. a' = b /\ UNCHANGED <<focus, secret, epoch>>
  BY DEF DrainReady, world
<1> HIDE DEF next
<1>4. Sound(b, secret, a.lastFocus)
  BY <1>1, <1>2, FieldsNamed DEF Sound
<1> HIDE DEF b
<1> QED
  BY <1>1, <1>3, <1>4, SoundKeeps DEF SecretsKnown
(* The four parts of a word that a press acts on begin with its keys. *)
LEMMA SourceOpen ==
  ASSUME NEW b, NEW S, NEW w, Sound(b, S, w), NEW source \in Source(b) PROVE source[1] \in Open
<1>1. \/ In(b.cycle, focus) /\ source[1] = b.cycle.keys
      \/ source[1] = b.keys
      \/ In(b.boundary, focus) /\ source[1] = b.boundary.keys
  BY DEF Source
<1>2. Free(b.cycle) /\ Free(b.boundary) /\ b.keys \in Open
  BY DEF Sound
<1> QED
  BY <1>1, <1>2 DEF In, Free

LEMMA PlanSound ==
  ASSUME NEW b, NEW S, NEW w, NEW plan, Sound(b, S, w), Free(plan)
  PROVE  Sound([b EXCEPT !.pending = plan], S, w)
  BY FieldsNamed DEF Sound

LEMMA HotkeyKeeps ==
  ASSUME NoSibling, SecretsKnown, Hotkey PROVE SecretsKnown'
<1> DEFINE b == Arrived
           c == Restore(b, focus)
           d == Evaluate(c, focus, "manual")
<1>1. focus \in Windows /\ secret \subseteq Forms /\ UNCHANGED <<focus, secret>>
  BY DEF SecretsKnown, Hotkey, world
<1>2. Sound(b, secret, focus)
  BY ArrivedSound
<1>3. \/ Sees(b) \/ Sees(c) \/ Sees(d)
      \/ \E source \in Source(c) : \E to, order :
           Sees([d EXCEPT !.pending = Planned(d, to, TRUE, order, source[1], source[4], source[2])])
  BY DEF Hotkey
<1> HIDE DEF b
<1>4. Sound(c, secret, focus)
  BY <1>1, <1>2, RestoreSound
<1> HIDE DEF c
<1>5. Sound(d, secret, focus)
  BY <1>1, <1>4, EvaluateSound
<1> HIDE DEF d
<1>6. ASSUME NEW source \in Source(c), NEW to, NEW order
      PROVE  Sound([d EXCEPT !.pending = Planned(d, to, TRUE, order, source[1], source[4], source[2])],
                   secret, focus)
  <2>1. source[1] \in Open
    BY <1>4, SourceOpen
  <2>2. Free(Planned(d, to, TRUE, order, source[1], source[4], source[2]))
    BY <2>1, PlannedFree
  <2> QED
    BY <1>5, <2>2, PlanSound
<1> QED
  BY <1>1, <1>2, <1>3, <1>4, <1>5, <1>6, SeenKeeps

LEMMA FailureSound ==
  ASSUME NEW b, NEW S, NEW w, Sound(b, S, w) PROVE Sound(Failure(b), S, w)
<1> DEFINE c == Suppress(Invalidate(b))
<1>1. Sound(c, S, w)
  BY InvalidateSound, SuppressSound
<1> HIDE DEF c
<1>2. Sound([c EXCEPT !.inFlight = None], S, w)
  BY <1>1, FieldsNamed DEF Sound
<1> QED
  BY <1>2 DEF Failure, c

LEMMA ConvertedSound ==
  ASSUME NEW b, NEW S, NEW w, NEW p, Sound(b, S, w), Free(p), p # None
  PROVE  Sound(Converted(b, p), S, w)
<1> DEFINE kept == IF p.delimiter = None THEN None ELSE Typed(p.keys, p.delimiter, focus, p.to)
           cycle == IF p.forced
                      THEN [keys |-> p.keys, delimiter |-> p.delimiter, window |-> focus,
                            language |-> p.to, text |-> p.replacement, order |-> p.order,
                            stale |-> FALSE] ELSE None
           undo == IF p.forced THEN None ELSE p
<1>1. p.keys \in Open
  BY DEF Free
<1>2. Free(kept)
  BY <1>1, TypedFree, NoneFree
<1>3. Free(cycle)
  BY <1>1, NoneFree DEF Free
<1>4. Free(undo)
  BY NoneFree
<1>5. Converted(b, p) = [b EXCEPT !.lastLayout = p.to, !.inFlight = None, !.boundary = kept,
                                  !.cycle = cycle, !.undo = undo]
  BY DEF Converted
<1> HIDE DEF kept, cycle, undo
<1> QED
  BY <1>2, <1>3, <1>4, <1>5, FieldsNamed DEF Sound

LEMMA InFlightSound ==
  ASSUME NEW b, NEW S, NEW w, NEW language, Sound(b, S, w)
  PROVE  Sound([b EXCEPT !.inFlight = language], S, w)
  BY FieldsNamed DEF Sound

LEMMA ConvertKeeps ==
  ASSUME SecretsKnown, Convert PROVE SecretsKnown'
<1> DEFINE p == a.pending
           refused == [a EXCEPT !.pending = None]
           begun == [Clear(Invalidate(a)) EXCEPT !.keys = <<>>]
           w == a.lastFocus
<1>1. Sound(a, secret, w) /\ w \in Windows \cup {None} /\ epoch \in {None, "clean", "lost"}
      /\ focus \in Windows /\ secret \subseteq Forms
  BY DEF SecretsKnown
<1>2. Free(p)
  BY <1>1 DEF Sound
<1>3. UNCHANGED <<focus, secret, epoch>> /\ p # None
  BY DEF Convert
<1>4. \/ a' = refused \/ a' = Failure(refused) \/ a' = begun \/ a' = Suppress(begun)
      \/ a' = Failure(begun) \/ a' = Converted(begun, p) \/ a' = [begun EXCEPT !.inFlight = p.to]
  BY DEF Convert
<1>5. Sound(refused, secret, w)
  BY <1>1, NoneFree, PlanSound
<1>6. Sound(begun, secret, w)
  BY <1>1, InvalidateSound, ClearSound, KeysForgotten
<1> HIDE DEF refused, begun, p
<1>7. /\ Sound(Failure(refused), secret, w) /\ Sound(Suppress(begun), secret, w)
      /\ Sound(Failure(begun), secret, w) /\ Sound(Converted(begun, p), secret, w)
      /\ Sound([begun EXCEPT !.inFlight = p.to], secret, w)
  BY <1>2, <1>3, <1>5, <1>6, FailureSound, SuppressSound, ConvertedSound, InFlightSound
<1>8. Sound(a', secret, w)
  BY ONLY <1>4, <1>5, <1>6, <1>7
<1> QED
  BY <1>1, <1>3, <1>8, SoundKeeps

LEMMA UndoKeeps ==
  ASSUME SecretsKnown, Undo PROVE SecretsKnown'
<1> DEFINE b == Arrived
           u == b.undo
           begun == [b EXCEPT !.undo = None]
           c == Clear(begun)
           kept == Typed(u.keys, u.delimiter, focus, u.from)
           undone == [c EXCEPT !.lastLayout = u.from, !.inFlight = None, !.cycle = None, !.boundary = kept]
<1>1. Sound(b, secret, focus)
  BY ArrivedSound
<1>2. focus \in Windows /\ secret \subseteq Forms /\ UNCHANGED <<focus, secret>> /\ epoch' = None
  BY DEF SecretsKnown, Undo
<1>3. u # None
  BY DEF Undo
<1>4. \/ a' = b \/ a' = begun \/ a' = Suppress(Invalidate(begun)) \/ a' = Failure(begun)
      \/ a' = undone \/ a' = [c EXCEPT !.inFlight = u.from]
  BY DEF Undo
<1> HIDE DEF b
<1>5. Free(kept)
  <2>1. u.keys \in Open
    BY <1>1, <1>3 DEF Sound, Free
  <2> QED
    BY <2>1, TypedFree
<1>6. Sound(begun, secret, focus)
  BY <1>1, NoneFree, FieldsNamed DEF Sound
<1> HIDE DEF u, begun, kept
<1>7. Sound(c, secret, focus)
  BY <1>6, ClearSound
<1> HIDE DEF c
<1>8. Sound(undone, secret, focus)
  BY <1>5, <1>7, NoneFree, FieldsNamed DEF Sound
<1> HIDE DEF undone
<1>9. /\ Sound(Suppress(Invalidate(begun)), secret, focus) /\ Sound(Failure(begun), secret, focus)
      /\ Sound([c EXCEPT !.inFlight = u.from], secret, focus)
  BY <1>6, <1>7, InvalidateSound, SuppressSound, FailureSound, InFlightSound
<1>10. Sound(a', secret, focus)
  BY ONLY <1>1, <1>4, <1>6, <1>8, <1>9
<1> QED
  BY <1>2, <1>10, SoundKeeps
-------------------------------------------------------------------------------
(* The rest of the world. *)
LEMMA MouseOrInjectionKeeps ==
  ASSUME SecretsKnown, MouseOrInjection PROVE SecretsKnown'
<1> DEFINE b == ResetForEpoch(a)
           w == a.lastFocus
           kept == IF b.lastFocus = None THEN b ELSE Remember(b, b.lastFocus, b.lastLayout)
           c == Reset(Invalidate(kept), FALSE)
           d == Suppress(Invalidate(b))
           clicked == [c EXCEPT !.keys = <<>>, !.openStart = FALSE, !.recovered = FALSE]
           injected == [d EXCEPT !.openStart = FALSE]
<1>1. Sound(b, secret, w) /\ w \in Windows \cup {None} /\ b.lastFocus = w
  BY ResetForEpochSound DEF SecretsKnown, Sound
<1>2. UNCHANGED focus /\ \/ Sees(Dirty(clicked, FALSE)) /\ MayChangeField
                         \/ Sees(Dirty(injected, TRUE)) /\ UNCHANGED secret
  BY DEF MouseOrInjection
<1> HIDE DEF b
<1>3. Sound(kept, secret, w)
  BY <1>1, RememberSound
<1> HIDE DEF kept
<1>4. Sound(c, secret, w) /\ Sound(d, secret, w)
  BY <1>1, <1>3, InvalidateSound, ResetSound, SuppressSound
<1> HIDE DEF c, d
<1>5. Sound(clicked, secret, w) /\ Sound(injected, secret, w)
  BY <1>4, FieldsNamed, EmptyOpen DEF Sound
<1> HIDE DEF clicked, injected
<1> QED
  BY <1>1, <1>2, <1>5, MovedKeeps

LEMMA PrivacyRefreshKeeps ==
  ASSUME NoSibling, SecretsKnown, PrivacyRefresh PROVE SecretsKnown'
<1> DEFINE b == Evaluate(ResetForEpoch(a), focus, "typing")
<1>1. focus \in Windows /\ secret \subseteq Forms /\ a.lastFocus \in Windows \cup {None}
      /\ UNCHANGED <<focus, secret>> /\ Sees(b)
  BY DEF SecretsKnown, PrivacyRefresh, world
<1>2. Sound(b, secret, a.lastFocus)
  BY <1>1, ResetForEpochSound, EvaluateSound
<1> HIDE DEF b
<1> QED
  BY <1>1, <1>2, SeenKeeps

(* Keys typed past the hooks are not followed, wherever they go. *)
LEMMA RecoverKeeps ==
  ASSUME NoSibling, SecretsKnown, Recover PROVE SecretsKnown'
<1> DEFINE w == a.lastFocus
           b == ResetForEpoch(a)
           c == Evaluate(b, focus, "recovery")
           TypedBack(d) == [Suppress(Invalidate(d)) EXCEPT !.recovered = TRUE]
<1>1. /\ focus \in Windows /\ secret \subseteq Forms /\ w \in Windows \cup {None}
      /\ epoch \in {None, "clean", "lost"} /\ Sound(a, secret, w) /\ UNCHANGED <<focus, secret>>
  BY DEF SecretsKnown, Recover, world
<1>2. Sound(b, secret, w)
  BY ResetForEpochSound
<1>3. /\ a' = b \/ a' = c \/ a' = TypedBack(c) \/ a' = TypedBack(a)
      /\ epoch' \in {None, "clean", "lost"}
  BY <1>1 DEF Recover, Sees
<1> HIDE DEF b
<1>4. Sound(c, secret, w)
  BY <1>1, <1>2, EvaluateSound
<1> HIDE DEF c
<1>5. ASSUME NEW d, Sound(d, secret, w) PROVE Sound(TypedBack(d), secret, w)
  <2> DEFINE e == Suppress(Invalidate(d))
  <2>1. Sound(e, secret, w)
    BY <1>5, InvalidateSound, SuppressSound
  <2> HIDE DEF e
  <2>2. Sound([e EXCEPT !.recovered = TRUE], secret, w)
    BY <2>1, FieldsNamed DEF Sound
  <2> QED
    BY <2>2 DEF e
<1> HIDE DEF TypedBack
<1>6. Sound(a', secret, w)
  BY ONLY <1>1, <1>2, <1>3, <1>4, <1>5
<1> QED
  BY <1>1, <1>3, <1>6, SoundKeeps

(* An aged record has the keys it had. *)
LEMMA AgedFree ==
  ASSUME NEW r, Free(r), r # None PROVE Free([r EXCEPT !.stale = TRUE])
  BY DEF Free

LEMMA ProfilesChangeKeeps ==
  ASSUME SecretsKnown, ProfilesChange PROVE SecretsKnown'
<1> DEFINE Aged(r) == IF r = None THEN None ELSE [r EXCEPT !.stale = TRUE]
           w == a.lastFocus
           b == Invalidate(a)
           c == IF b.word = <<>> THEN b ELSE Suppress(b)
           kept == [v \in Windows |->
                      IF c.remembered[v] = None THEN None
                      ELSE [word |-> Aged(c.remembered[v].word), cycle |-> Aged(c.remembered[v].cycle)]]
           d == [c EXCEPT !.keys = <<>>, !.inFlight = None, !.remembered = kept]
<1>1. /\ Sound(a, secret, w) /\ w \in Windows \cup {None} /\ epoch' = epoch
      /\ focus \in Windows /\ secret \subseteq Forms /\ UNCHANGED <<focus, secret>>
      /\ epoch \in {None, "clean", "lost"}
  BY DEF SecretsKnown, ProfilesChange, world
<1>2. a' = d
  BY DEF ProfilesChange
<1>3. Sound(b, secret, w)
  BY <1>1, InvalidateSound
<1> HIDE DEF b
<1>4. Sound(c, secret, w)
  BY <1>3, SuppressSound
<1> HIDE DEF c
<1>5. ASSUME NEW r, Free(r) PROVE Free(Aged(r))
  BY <1>5, NoneFree, AgedFree
<1>6. KeepsFree(kept)
  <2> HIDE DEF Aged
  <2>1. ASSUME NEW v \in Windows, kept[v] # None PROVE Free(kept[v].word) /\ Free(kept[v].cycle)
    <3>1. c.remembered[v] # None /\ kept[v].word = Aged(c.remembered[v].word)
          /\ kept[v].cycle = Aged(c.remembered[v].cycle)
      BY <2>1
    <3>2. Free(c.remembered[v].word) /\ Free(c.remembered[v].cycle)
      BY <1>4, <3>1 DEF Sound, KeepsFree
    <3> QED
      BY ONLY <1>5, <3>1, <3>2
  <2>2. DOMAIN kept = Windows
    OBVIOUS
  <2> HIDE DEF kept
  <2> QED
    BY <2>1, <2>2 DEF KeepsFree
<1> HIDE DEF kept
<1>7. Sound(d, secret, w)
  BY <1>4, <1>6, FieldsNamed, EmptyOpen DEF Sound
<1> HIDE DEF d
<1> QED
  BY <1>1, <1>2, <1>7, SoundKeeps

LEMMA ExpireKeeps ==
  ASSUME SecretsKnown, Expire PROVE SecretsKnown'
<1> DEFINE w == a.lastFocus
<1>1. /\ Sound(a, secret, w) /\ w \in Windows \cup {None} /\ epoch \in {None, "clean", "lost"}
      /\ focus \in Windows /\ secret \subseteq Forms /\ None \notin secret
  BY TypingAssumption DEF SecretsKnown
<1>2. UNCHANGED <<focus, secret, epoch>>
  BY DEF Expire, world
<1>3. ASSUME NEW v \in Windows PROVE Sound([a EXCEPT !.remembered[v] = None], secret, w)
  <2> DEFINE kept == [a.remembered EXCEPT ![v] = None]
  <2>1. KeepsFree(kept)
    BY <1>1 DEF Sound, KeepsFree
  <2> HIDE DEF kept
  <2>2. Sound([a EXCEPT !.remembered = kept], secret, w)
    BY <1>1, <2>1, FieldsNamed DEF Sound
  <2> QED
    BY <2>2 DEF kept
<1>4. Sound([a EXCEPT !.recentOk = None], secret, w)
  BY <1>1, FieldsNamed DEF Sound
<1>5. Sound([a EXCEPT !.inFlight = None], secret, w)
  BY <1>1, InFlightSound
<1>6. \/ \E v \in Windows : a' = [a EXCEPT !.remembered[v] = None]
      \/ a' = [a EXCEPT !.recentOk = None] \/ a' = [a EXCEPT !.inFlight = None]
  BY DEF Expire
<1>7. Sound(a', secret, w)
  BY <1>3, <1>4, <1>5, <1>6
<1> QED
  BY <1>1, <1>2, <1>7, SoundKeeps

-------------------------------------------------------------------------------
LEMMA SecretsKnownInit ==
  ASSUME TInit PROVE SecretsKnown
<1>1. a = NewWorker /\ epoch = None /\ focus \in Windows /\ secret \subseteq Forms
  BY DEF TInit
<1>2. Sound(NewWorker, secret, None)
  <2>1. None \notin secret
    BY <1>1, TypingAssumption
  <2>2. KeepsFree([w \in Windows |-> None])
    BY DEF KeepsFree
  <2> QED
    BY <2>1, <2>2, NoneFree, EmptyOpen DEF Sound, NewWorker, Fields
<1>3. NewWorker.lastFocus = None
  BY DEF NewWorker
<1> QED
  BY <1>1, <1>2, <1>3 DEF SecretsKnown

LEMMA SecretsKnownNext ==
  ASSUME NoSibling, SecretsKnown, [TNext]_tvars PROVE SecretsKnown'
<1>1. CASE UNCHANGED tvars
  BY <1>1 DEF tvars, SecretsKnown, Sound, KeepsFree, Free
<1>2. CASE Switch \/ EpochMoves \/ ProviderChanges
  <2>1. a' = a /\ secret' = secret /\ focus' \in Windows /\ epoch' \in {None, "clean", "lost"}
    BY <1>2 DEF Switch, EpochMoves, ProviderChanges, world, SecretsKnown
  <2> QED
    BY <2>1, SoundKeeps DEF SecretsKnown
<1>3. CASE TypeCharacter \/ MissKey \/ Backspace \/ DeleteOrNavigate \/ Shortcut \/ EraseWord \/ TabOrEnter
  BY <1>3, TypeCharacterKeeps, MissKeyKeeps, BackspaceKeeps, DeleteOrNavigateKeeps, ShortcutKeeps,
     EraseWordKeeps, TabOrEnterKeeps
<1>4. CASE Space \/ DrainReady \/ Hotkey \/ Convert \/ Undo
  BY <1>4, SpaceKeeps, DrainReadyKeeps, HotkeyKeeps, ConvertKeeps, UndoKeeps
<1>5. CASE MouseOrInjection \/ Recover \/ PrivacyRefresh \/ ProfilesChange \/ Expire
  BY <1>5, MouseOrInjectionKeeps, RecoverKeeps, PrivacyRefreshKeeps, ProfilesChangeKeeps, ExpireKeeps
<1> QED
  BY <1>1, <1>2, <1>3, <1>4, <1>5 DEF TNext

LEMMA OpenHoldsNoSecret ==
  ASSUME NEW s \in Open PROVE "s" \notin ToSet(s)
  BY DEF Open, Plain, ToSet

LEMMA SecretsKnownEnough ==
  ASSUME SecretsKnown PROVE NoSecretHeld
<1>1. Sound(a, secret, a.lastFocus)
  BY DEF SecretsKnown
<1>2. ASSUME NEW r, Free(r) PROVE "s" \notin Held(r)
  BY <1>2, OpenHoldsNoSecret DEF Held, Free
<1>3. "s" \notin ToSet(a.keys) /\ "s" \notin ToSet(a.word)
  BY <1>1, OpenHoldsNoSecret DEF Sound
<1> DEFINE words == UNION {{a.remembered[w].word, a.remembered[w].cycle} :
                             w \in {v \in Windows : a.remembered[v] # None}}
           records == {a.boundary, a.cycle, a.pending, a.undo} \cup words
<1>4. \A r \in words : Free(r)
  BY <1>1 DEF Sound, KeepsFree
<1>5. \A r \in {a.boundary, a.cycle, a.pending, a.undo} : Free(r)
  BY <1>1 DEF Sound
<1>6. \A r \in records : "s" \notin Held(r)
  BY ONLY <1>2, <1>4, <1>5
<1>7. SUFFICES "s" \notin ToSet(a.keys) \cup ToSet(a.word) \cup UNION {Held(r) : r \in records}
  BY DEF NoSecretHeld
<1> HIDE DEF records
<1> QED
  BY ONLY <1>3, <1>6

(* Nothing typed into a password field is followed, kept for the hotkey, remembered, planned or        *)
(* undoable (process_key, ensure_privacy, remember_word, handle_boundary), while no other window of     *)
(* the program of a form takes part.                                                                   *)
THEOREM NoSecretEverHeld ==
  ASSUME NoSibling PROVE TypingSpec => []NoSecretHeld
<1>1. TInit => SecretsKnown
  BY SecretsKnownInit
<1>2. SecretsKnown /\ [TNext]_tvars => SecretsKnown'
  BY SecretsKnownNext
<1>3. SecretsKnown => NoSecretHeld
  BY SecretsKnownEnough
<1> QED
  BY <1>1, <1>2, <1>3, PTL DEF TypingSpec
===============================================================================
