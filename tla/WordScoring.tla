---- MODULE WordScoring ----
(***************************************************************************)
(* What the detector knows of a language and how it weighs a word: the scoring model of a package,    *)
(* the words the user added, the rules on punctuation that keep code and contractions from the layout *)
(* model, and what that model's answer must be to count.                                     *)
(*                                                                           *)
(* Characters are numbers. Scores are in twentieths. The layout model's exponentials are powers of    *)
(* two: what is said of its answers holds for any growing function.                             *)
(***************************************************************************)
EXTENDS Integers, FiniteSets, SequencesExt, Functions

CONSTANTS
  Failed, None,
  Overflow,     \* a logit that is not finite
  Alphabetic,   \* characters that are letters, of either case
  Marks,        \* characters that are combining marks; some are letters too
  Lower(_),     \* the lower-case form of a character, a sequence
  Apostrophe, Period,
  Longest,      \* characters a stored word may have
  MaxRange      \* characters the ranges of a model may hold

ScoringAssumption ==
  {Apostrophe, Period} \cap (Alphabetic \cup Marks) = {} /\ Longest \in Nat

Span(range) == range[1]..range[2]
IsLower(c) == Lower(c) = <<c>>
LowerWord(word) == FoldLeft(LAMBDA sofar, c : sofar \o Lower(c), <<>>, word)
Distinct(s) == \A i, j \in DOMAIN s : (s[i] = s[j]) => (i = j)

(*                        ScoringModel                        *)
Legacy == [bigrams |-> TRUE, trigrams |-> TRUE, vowels |-> TRUE, statistical |-> TRUE]

(* Formats: 1 has no policy, 3 adds marks, 4 has letters in place of ranges. *)
Marked(d) == IF d.format \in {3, 4} THEN d.marks ELSE <<>>
Lettered(d) == IF d.format = 4 THEN d.letters ELSE <<>>
Ranged(d) == IF d.format = 4 THEN <<>> ELSE d.ranges
Policy(d) == IF d.format = 1 THEN Legacy ELSE d.policy

PolicyHolds(d) ==
  /\ \A feature \in {"bigrams", "trigrams", "vowels"} : Policy(d)[feature] <=> (d[feature] # <<>>)
  /\ Policy(d).statistical => (Policy(d).bigrams \/ Policy(d).trigrams)

RangesHold(d) ==
  /\ \A i \in DOMAIN Ranged(d) :
       /\ Ranged(d)[i][1] <= Ranged(d)[i][2]
       /\ \A c \in Span(Ranged(d)[i]) :
            c \in Alphabetic /\ IsLower(c) /\ (d.format = 3 => c \notin Marks)
       /\ \A j \in DOMAIN Ranged(d) \ {i} : Span(Ranged(d)[i]) \cap Span(Ranged(d)[j]) = {}
  /\ Cardinality(UNION {Span(Ranged(d)[i]) : i \in DOMAIN Ranged(d)}) <= MaxRange

Model(d) ==
  [letters |-> ToSet(Lettered(d)) \cup UNION {Span(Ranged(d)[i]) : i \in DOMAIN Ranged(d)},
   marks |-> ToSet(Marked(d)), vowels |-> ToSet(d.vowels), bigrams |-> ToSet(d.bigrams),
   trigrams |-> ToSet(d.trigrams), rare |-> ToSet(d.rare), policy |-> Policy(d)]

Accepts(m, c) == c \in m.letters \cup m.marks
AcceptsWord(m, word) == word # <<>> /\ (\A i \in DOMAIN word : Accepts(m, word[i])) /\ word[1] \notin m.marks

SequencesHold(d, list, shortest, longest) ==
  /\ Distinct(list)
  /\ \A i \in DOMAIN list :
       /\ Len(list[i]) \in shortest..longest /\ LowerWord(list[i]) = list[i]
       /\ \A k \in DOMAIN list[i] : Accepts(Model(d), list[i][k])

(* from_json: anything out of place refuses the whole document. *)
ReadModel(d) ==
  IF /\ d.format \in 1..4 /\ (Ranged(d) # <<>> \/ Lettered(d) # <<>>)
     /\ d.format >= 2 => PolicyHolds(d)
     /\ Distinct(Lettered(d)) /\ \A i \in DOMAIN Lettered(d) :
          Lettered(d)[i] \in Alphabetic \ Marks /\ IsLower(Lettered(d)[i])
     /\ Distinct(Marked(d)) /\ \A i \in DOMAIN Marked(d) : Marked(d)[i] \in Marks /\ IsLower(Marked(d)[i])
     /\ RangesHold(d)
     /\ Distinct(d.vowels) /\ \A i \in DOMAIN d.vowels : Accepts(Model(d), d.vowels[i]) /\ IsLower(d.vowels[i])
     /\ SequencesHold(d, d.bigrams, 2, 2) /\ SequencesHold(d, d.trigrams, 3, 3) /\ SequencesHold(d, d.rare, 2, 8)
  THEN Model(d) ELSE Failed

(*                        score_word                        *)
Bonus == 200
NGramsOf(word, width) == {SubSeq(word, i, i + width - 1) : i \in 1..(Len(word) - width + 1)}
Hits(word, common, width) == Cardinality({i \in 1..(Len(word) - width + 1) : SubSeq(word, i, i + width - 1) \in common})
NgramScore(word, common, width, hit, miss) ==
  IF Len(word) < width THEN 0
  ELSE hit * Hits(word, common, width) + miss * (Len(word) - width + 1 - Hits(word, common, width))

VowelScore(m, word) ==
  LET vowels == Cardinality({i \in DOMAIN word : word[i] \in m.vowels})
  IN  IF Len(word) >= 4 /\ vowels = 0 THEN -100
      ELSE IF 100 * vowels >= 15 * Len(word) /\ 100 * vowels <= 70 * Len(word) THEN 30 ELSE 0

Score(m, text, listed) ==
  LET word == LowerWord(text) IN
  IF ~AcceptsWord(m, word) THEN -400
  ELSE 25 * Len(word) + (IF listed THEN Bonus ELSE 0)
       + (IF m.policy.bigrams THEN NgramScore(word, m.bigrams, 2, 18, -4) ELSE 0)
       + (IF m.policy.trigrams THEN NgramScore(word, m.trigrams, 3, 30, -2) ELSE 0)
       + (IF m.policy.vowels THEN VowelScore(m, word) ELSE 0)
       - 30 * Cardinality({r \in m.rare : \E n \in {Len(r)} : r \in NGramsOf(word, n)})

(* rank_candidates: the best first; equal scores keep their order. *)
RankCandidates(scores) ==
  SortSeq([i \in DOMAIN scores |-> i],
          LAMBDA i, j : (scores[i] > scores[j]) \/ (scores[i] = scores[j] /\ i < j))

(*                        UserLexicon                        *)
NormalizeWord(word) ==
  IF word = <<>> \/ Len(LowerWord(word)) > Longest THEN None ELSE LowerWord(word)

(* A line is an entry only with a known language before its first colon. *)
NormalizeEntry(line) ==
  IF line.comment \/ ~line.colon \/ line.language = None \/ NormalizeWord(line.word) = None THEN None
  ELSE [language |-> line.language, word |-> NormalizeWord(line.word)]
FormatEntry(language, word) ==
  IF NormalizeWord(word) = None THEN None
  ELSE [comment |-> FALSE, colon |-> TRUE, language |-> language, word |-> NormalizeWord(word)]

Lexicon(lines) == {NormalizeEntry(lines[i]) : i \in DOMAIN lines} \ {None}
InLexicon(lexicon, language, word) == [language |-> language, word |-> LowerWord(word)] \in lexicon

(*                        what the layout model may see                        *)
(* m: the typed language's model; known: the words that language knows, in lower case. *)
AcceptsCharacter(m, c) == \A i \in DOMAIN Lower(c) : Accepts(m, Lower(c)[i])
Letterwise(m, word) == {i \in DOMAIN word : AcceptsCharacter(m, word[i])}
LetterCore(m, word) ==
  LET inside == Letterwise(m, word)
      first == CHOOSE i \in inside : \A j \in inside : i <= j
      last == CHOOSE i \in inside : \A j \in inside : j <= i
  IN  IF inside = {} THEN <<>> ELSE SubSeq(word, first, last)

IsContraction(word, known) ==
  LET marks == {i \in DOMAIN word : word[i] = Apostrophe} IN
  marks # {} /\ LET first == CHOOSE i \in marks : \A j \in marks : i <= j
                IN  \/ LowerWord(SubSeq(word, 1, first - 1)) \in known
                    \/ Cardinality(marks) = 1 /\ first > 3 /\ first = Len(word) - 1

(* The run of letters before each other character, one character after another. *)
FollowsKnownWord(m, word, known) ==
  FoldLeft(LAMBDA at, c :
             IF AcceptsCharacter(m, c) THEN [at EXCEPT !.run = Append(@, c)]
             ELSE [run |-> <<>>, found |-> at.found \/ (Len(at.run) >= 3 /\ LowerWord(at.run) \in known)],
           [run |-> <<>>, found |-> FALSE], word).found

(* Two letters or more on both sides of a period. *)
PeriodBetweenLetters(word) ==
  \E i \in DOMAIN word :
    /\ word[i] = Period /\ i > 2 /\ i + 2 <= Len(word)
    /\ {word[i - 2], word[i - 1], word[i + 1], word[i + 2]} \subseteq Alphabetic

MayJudge(m, word, known) ==
  /\ Len(word) >= 3
  /\ LetterCore(m, word) = word /\ ~IsContraction(word, known)
  /\ ~FollowsKnownWord(m, word, known) /\ ~PeriodBetweenLetters(word)
  /\ LowerWord(word) \notin known

(*                        LayoutModel                        *)
(* parse: what the header announces is exactly what the rest of the file holds. *)
DenseWidth(layouts) == 5 + 2 * layouts
Payload(h) ==
  h.buckets * (4 + h.dim) + (h.hidden * (h.dim + DenseWidth(Len(h.languages))) + 2 * h.hidden + 1) * 4
ParseModel(h) ==
  IF /\ h.magic /\ h.version = 1 /\ Len(h.languages) \in 2..8 /\ Distinct(h.languages)
     /\ h.buckets > 0 /\ h.dim > 0 /\ h.hidden > 0 /\ h.widest \in 1..8 /\ h.ngrams > 0 /\ h.context <= 16
     /\ h.length = Payload(h) /\ h.finite
  THEN h ELSE Failed

(* The languages of the last words, each counting half of the one after it. *)
ContextOf(previous, context, language) ==
  LET recent == SubSeq(previous, Len(previous) - context + 1, Len(previous))
      used == IF Len(previous) <= context THEN previous ELSE recent
  IN  FoldLeft(LAMBDA sum, i : sum + (IF used[i] = language THEN 2 ^ (i - 1) ELSE 0), 0, [i \in DOMAIN used |-> i])

(* ngram_ids: single characters without the padding, then longer windows, up to a bound. *)
NgramCount(length, widest, ngrams) ==
  LET all == FoldLeft(LAMBDA sum, n : sum + (IF n = 1 THEN length ELSE IF length + 3 > n THEN length + 3 - n ELSE 0),
                      0, [n \in 1..widest |-> n])
  IN  IF all < ngrams THEN all ELSE ngrams

(* A logit for every reading there is; None where a layout has none. *)
Read(logits) == {l \in DOMAIN logits : logits[l] # None}
Finite(logits) == {l \in Read(logits) : logits[l] # Overflow}
Weights(logits) == [l \in DOMAIN logits |-> IF l \in Finite(logits) THEN 2 ^ logits[l] ELSE 0]
TotalWeight(logits) == FoldFunction(LAMBDA w, sum : w + sum, 0, Weights(logits))

Probabilities(logits, typed) ==
  IF typed \notin Read(logits) \/ Finite(logits) # Read(logits) THEN Failed ELSE Weights(logits)

Confident(logits, typed, percent) ==
  LET weights == Probabilities(logits, typed)
      sure == {l \in DOMAIN logits : weights[l] * 100 >= percent * TotalWeight(logits)}
  IN  IF weights = Failed THEN None ELSE IF sure = {} THEN None ELSE CHOOSE l \in sure : TRUE

(*                        Properties                        *)
(* A model that is read knows only sequences that can occur in a word it accepts: there is no evidence   *)
(* that never counts and no letter outside the alphabet it was read with (ScoringModel::from_json).      *)
EvidenceCanOccur(d) ==
  ReadModel(d) # Failed =>
    LET m == ReadModel(d) IN
    /\ \A sequence \in m.bigrams \cup m.trigrams \cup m.rare :
         \E letter \in m.letters : AcceptsWord(m, <<letter>> \o sequence)
    /\ m.letters # {} /\ m.vowels \subseteq m.letters \cup m.marks

(* Of two readings one of which its alphabet refuses, Pause takes the other, unless rare sequences alone *)
(* pull it below that (rank_candidates).                                                      *)
RefusedReadingsComeLast(m, first, second) ==
  (AcceptsWord(m, LowerWord(first)) /\ ~AcceptsWord(m, LowerWord(second)) /\ m.rare = {}) =>
    /\ RankCandidates(<<Score(m, first, FALSE), Score(m, second, TRUE)>>)[1] = 1
    /\ RankCandidates(<<Score(m, second, TRUE), Score(m, first, FALSE)>>)[1] = 2

(* A word the program writes to the user's lists is found there when it is read again, also when lower   *)
(* case is longer than what was typed (normalize_word).                                         *)
EntriesReadBack(language, word) ==
  LET line == FormatEntry(language, word) IN
  line # None => /\ NormalizeEntry(line) = [language |-> language, word |-> line.word]
                 /\ FormatEntry(language, line.word) = line
                 /\ InLexicon(Lexicon(<<line>>), language, word)

(* The layout model judges no word in which three letters or more that the typed language knows come      *)
(* directly before another character, and none with such a character at an edge; a known word between      *)
(* others is not taken for one (follows_known_word).                                            *)
KnownPart(m, word, known) ==
  \E i, j \in DOMAIN word :
    /\ i + 2 <= j /\ j < Len(word)
    /\ i..j \subseteq Letterwise(m, word) /\ j + 1 \notin Letterwise(m, word)
    /\ i > 1 => i - 1 \notin Letterwise(m, word)
    /\ LowerWord(SubSeq(word, i, j)) \in known
CodeIsNotJudged(m, word, known) ==
  /\ FollowsKnownWord(m, word, known) <=> KnownPart(m, word, known)
  /\ MayJudge(m, word, known) => {1, Len(word)} \subseteq Letterwise(m, word)

(* The last word says more of the next one's layout than all before it together (context), a header that  *)
(* is accepted announces no table the file does not hold (parse), and no word gets more n-grams than that. *)
LastWordWeighsMost(previous, context) ==
  (previous # <<>> /\ context > 0) =>
    \A other \in ToSet(previous) \ {Last(previous)} :
      ContextOf(previous, context, other) < ContextOf(previous, context, Last(previous))
TablesFit(h) ==
  ParseModel(h) # Failed =>
    /\ h.buckets * h.dim + 4 * h.hidden * h.dim < h.length
    /\ \A length \in 1..4 : NgramCount(length, h.widest, h.ngrams) \in 1..h.ngrams

(* The layout model is sure only of a reading it compared with every other there is: one it could not     *)
(* weigh leaves it without an answer, and at nine to one no other reading comes near (probabilities).     *)
SureAfterComparing(logits, typed) ==
  \A percent \in {90, 97} :
    LET best == Confident(logits, typed, percent) IN
    best # None => /\ typed \in Read(logits) /\ best \in Read(logits)
                   /\ \A other \in Read(logits) \ {best} :
                        logits[other] # Overflow /\ logits[other] + 3 <= logits[best]
====
