---- MODULE WordDetection ----
(***************************************************************************)
(* Which layout a completed word was meant for: the dictionary stage of the detector, the list policy *)
(* of single letters, and the optional layout model after them.                                *)
(*                                                                           *)
(* A word is what the detector may ask about it: its length, what it is made of, and for each        *)
(* language the reading of its keys (whether the alphabet accepts it, which lists hold it, how it     *)
(* scores). Scores and probabilities are the comparisons made with them.                           *)
(***************************************************************************)
EXTENDS Naturals, FiniteSets

CONSTANTS
  Unknown,  \* no language
  Typed,    \* the language of the layout the word was typed in
  Targets   \* the other languages with an eligible binding of their own (automatic_targets)

(* A word w: its length, its reading as typed, its readings in the targets, the reading its layout's    *)
(* model ranks best and how sure it is ("none", "most", "three"), and w.kind, what rules of their own      *)
(* apply to: "edge", punctuation around letters the typed language knows; "code", a contraction, a file    *)
(* name, a path, or a capital read from punctuation. A reading is the text some layout gives the keys:     *)
(* whether it is a word, the lists it is in, whether it is strong (it reaches the minimum score, with the  *)
(* margin over the word as typed) and statistical (its model allows targets outside the dictionary).       *)
InDictionary(reading) == reading.lists # {}
(* The general lists hold every letter and many abbreviations. *)
CommonOrUser(reading) == reading.lists \cap {"short", "user"} # {}

(*                        the dictionary stage                        *)
KnownAsTyped(w) == IF w.length < 4 THEN CommonOrUser(w.typed) ELSE InDictionary(w.typed)

(* Mutant: a reading of a short word may come from the general list. *)
AnyListPlausible(w) ==
  {target \in Targets :
     LET reading == w.readings[target]
     IN  /\ reading.word /\ reading.strong
         /\ InDictionary(reading) \/ reading.statistical
         /\ w.typed.word \/ InDictionary(reading)}

Plausible(w) ==
  {target \in Targets :
     LET reading == w.readings[target]
     IN  /\ reading.word /\ reading.strong
         /\ InDictionary(reading) \/ reading.statistical
         /\ w.length < 4 => CommonOrUser(reading)
         /\ w.typed.word \/ InDictionary(reading)}

Only(found) == IF Cardinality(found) = 1 THEN CHOOSE target \in found : TRUE ELSE Unknown

(* Readings in the dictionary come first; two of either kind fail closed, even beside one of the other. *)
DictionaryChoice(w) ==
  LET listed == {target \in Plausible(w) : InDictionary(w.readings[target])}
      guessed == Plausible(w) \ listed
  IN  IF Cardinality(listed) > 1 \/ Cardinality(guessed) > 1 THEN Unknown
      ELSE IF listed # {} THEN Only(listed) ELSE Only(guessed)

(* Lists alone decide a single letter, and only where the user asked for it. *)
SingleLetter(w) ==
  IF w.typed.word /\ CommonOrUser(w.typed) THEN Unknown
  ELSE Only({target \in Targets : w.readings[target].word /\ CommonOrUser(w.readings[target])})

DetectMapped(w, singleLetters) ==
  CASE w.length = 1 -> IF singleLetters /\ w.kind # "excluded" THEN SingleLetter(w) ELSE Unknown
    [] w.length > 1 /\ (w.kind \in {"excluded", "edge"} \/ (w.typed.word /\ KnownAsTyped(w))) -> Unknown
    [] OTHER -> DictionaryChoice(w)

(*                        the layout model                        *)
MayJudge(w) == w.length >= 3 /\ w.kind = "plain" /\ ~InDictionary(w.typed)

(* The most probable layout, if it is sure enough: words of three letters need more. *)
ModelChoice(w) ==
  IF /\ MayJudge(w) /\ w.best # Typed
     /\ w.sure = "three" \/ (w.sure = "most" /\ w.length # 3)
     /\ w.readings[w.best].word
  THEN w.best ELSE Unknown

Detect(w, singleLetters, model) ==
  LET found == DetectMapped(w, singleLetters)
  IN  IF found = Unknown /\ model THEN ModelChoice(w) ELSE found

(*                        properties of every word                        *)
(* A word of the typed language is left alone by both stages: one of the user or of the common list at *)
(* any length, one of the general list from four letters on. So is what the user excluded.         *)
KnownWordsStay(w) ==
  \A single, model \in BOOLEAN :
    \/ w.kind = "excluded"
    \/ w.typed.word /\ (CommonOrUser(w.typed) \/ (w.length >= 4 /\ InDictionary(w.typed)))
    => Detect(w, single, model) = Unknown

(* Without the model no word of one to three letters turns into one that only the general lists hold,  *)
(* and with it no code, path or file name turns into what no dictionary holds.                     *)
GuessesAreBounded(w) ==
  \A single, model \in BOOLEAN :
    LET found == Detect(w, single, model)
    IN  found # Unknown =>
          /\ w.readings[found].word
          /\ ~model /\ w.length < 4 => CommonOrUser(w.readings[found])
          /\ w.kind = "code" => InDictionary(w.readings[found]) \/ w.readings[found].statistical

(* Without the model, a conversion has no rival: no other reading in a dictionary that would do.      *)
NoRival(w) ==
  \A single \in BOOLEAN :
    LET found == Detect(w, single, FALSE)
    IN  found # Unknown => \A other \in Plausible(w) \ {found} :
                              w.length > 1 => InDictionary(w.readings[found]) /\ ~InDictionary(w.readings[other])
SoundDecision(w) == KnownWordsStay(w) /\ GuessesAreBounded(w) /\ NoRival(w)
====
