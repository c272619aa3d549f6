------------------------------- MODULE MCTables -------------------------------
(***************************************************************************)
(* The pure parts on every small input, one input to a behaviour: how a configuration is read, written    *)
(* and merged, how the detector decides about a word, what packs, word lists, models and catalogs of      *)
(* texts are taken.                                                                                       *)
(***************************************************************************)
EXTENDS Naturals, Sequences, FiniteSets

CONSTANTS None, Failed, Overflow

VARIABLE subject   \* the kind of the input, and the input

SeqsUpTo(set, n) == UNION {[1..k -> set] : k \in 0..n}

-------------------------------------------------------------------------------
(* The configuration. "#x" is a program whose stored name would be read as a comment. *)
Document == INSTANCE ConfigurationDocument WITH
  BoolKeys <- {},
  Canonical <- [text \in {"w", "W", "#x"} |-> IF text = "#x" THEN "#" ELSE "w"],
  TypingChords <- {<<"A", "Shift">>},
  Hotkeys <- {<<"Pause", "">>, <<"A", "Ctrl">>, <<"Pause", "Shift">>}

Line(text) == [is |-> "line", text |-> text]
Chord(key, modifiers) ==
  <<Document!Pair("force_hotkey_key", key), Document!Pair("force_hotkey_modifiers", modifiers)>>
SettingsRows ==
  {<<>>, Chord("A", "Ctrl"), Chord("A", "Shift"), Chord("A", ""), <<Document!Pair("enable_english", FALSE)>>,
   <<Document!Pair("enabled_input_packs", {"et"})>>, <<Document!Pair("enable_english", FALSE), Document!Pair("enable_english", TRUE)>>,
   <<Document!Pair("enable_english", FALSE), Document!Pair("enabled_input_packs", {"et"})>>}
Entries == {<<>>, <<Line("w")>>, <<Line("W")>>, <<Line("w"), Line("#x")>>}

Texts ==
  {<<Document!Pair("schema_version", schema)>>
   \o (IF mode = "none" THEN <<>> ELSE Document!Titled("packages", <<Document!Pair("mode", mode)>>))
   \o Document!Titled("settings", settings)
   \o Document!Titled("user_dictionary", dictionary) \o Document!Titled("word_exclusions", exclusions)
   \o Document!Titled("process_exclusions", programs) \o rules :
     schema \in 2..4, mode \in {"none", "managed"}, settings \in SettingsRows,
     dictionary \in {<<>>, <<Line("w")>>, <<Document!Pair("w", "w")>>}, exclusions \in {<<>>, <<Line("W")>>}, programs \in Entries,
     rules \in {<<>>, Document!Titled("backend_rules", <<Document!Pair("w", "observe-only")>>)}}

(* The files of earlier versions have no sections. *)
EarlierFiles ==
  [settings : SettingsRows, dictionary : {<<>>, <<Line("w")>>, <<Line("W"), Line("w")>>}, exclusions : {<<>>, <<Line("W")>>},
   programs : Entries]

Drafts ==
  {[Document!DefaultDocument EXCEPT !.mode = mode, !.settings.hotkey.chord = chord,
      !.dictionary = lists[1], !.exclusions = lists[2]] :
     mode \in {"legacy", "managed"}, chord \in {<<"Pause", "">>, <<"A", "Ctrl">>, <<"Pause", "Shift">>},
     lists \in {<<{}, {}>>, <<{"w"}, {}>>, <<{}, {"w"}>>}}

(* A configuration that loads can be saved and is then the one that was loaded, so that no entry turns     *)
(* into a comment or a section and no earlier format loses a setting; and a hotkey that types text never    *)
(* stays on (from_text, to_text, process_name_reads_back).                                                 *)
CanBeSaved(document) ==
  document # Document!Unreadable =>
    /\ Document!ToText(document) # Document!Unreadable
    /\ Document!FromText(Document!ToText(document)) = document
    /\ document.dictionary \cap document.exclusions = {}
LoadedCanBeSaved ==
  /\ subject.kind = "earlier" =>
       CanBeSaved(Document!FromLegacy(subject.it.settings, subject.it.dictionary, subject.it.exclusions, subject.it.programs))
  /\ subject.kind = "text" =>
       LET document == Document!FromText(subject.it) IN
       /\ CanBeSaved(document)
       /\ document # Document!Unreadable =>
            \A i \in DOMAIN subject.it :
              subject.it[i] = Document!Pair("force_hotkey_modifiers", "Shift") => ~document.settings.hotkey.on

(* Saving over what another writer saved loses neither side's changes: what only one side changed is as     *)
(* that side has it, whichever of the two saves last, and nothing is in the result that no side had: no     *)
(* removed word, no shortcut put together from both, no word in both lists (merge, MergeEntries).           *)
MergeKeepsBothSides ==
  subject.kind = "merge" =>
    LET base == subject.base
        ours == subject.ours
        theirs == subject.theirs
        merged == Document!Merge(base, ours, theirs)
    IN  /\ ~merged.conflicts =>
             /\ Document!Merge(base, theirs, ours) = merged
             /\ \A part \in DOMAIN base :
                  /\ ours[part] = base[part] => merged.document[part] = theirs[part]
                  /\ theirs[part] = base[part] => merged.document[part] = ours[part]
        /\ merged.document.settings.hotkey \in {d.settings.hotkey : d \in {base, ours, theirs}}
        /\ merged.document.dictionary \cap merged.document.exclusions = {}
        /\ \A list \in {"dictionary", "exclusions"} :
             merged.document[list] \subseteq (ours[list] \cup theirs[list]) /\
             ours[list] \cap theirs[list] \subseteq merged.document[list]

-------------------------------------------------------------------------------
(* The decision about a word, with two languages to turn to. *)
Detector == INSTANCE WordDetection WITH Unknown <- None, Typed <- "en", Targets <- {"et", "ru"}

Read(word, lists, strong, statistical) ==
  [word |-> word, lists |-> lists, strong |-> strong, statistical |-> statistical]
Held == {{}, {"base"}, {"user"}}
TypedReadings == {Read(FALSE, {}, FALSE, FALSE)} \cup {Read(TRUE, lists, FALSE, FALSE) : lists \in Held}
TargetReadings ==
  {Read(FALSE, {}, TRUE, TRUE)}
  \cup {Read(TRUE, lists, strong, statistical) : lists \in Held, strong \in BOOLEAN, statistical \in BOOLEAN}
DecidedWords ==
  [length : 1..4, kind : {"plain", "excluded", "edge", "code"}, typed : TypedReadings,
   readings : [{"et", "ru"} -> TargetReadings], best : {"en", "et"}, sure : {"none", "most", "three"}]

-------------------------------------------------------------------------------
(* Scoring: 1 and 2 are letters, 3 a mark, 4 the capital of 1, 5 a period, 6 an apostrophe, and 7 a capital
   that becomes a letter and a mark. *)
LowerOf(c) == CASE c = 4 -> <<1>> [] c = 7 -> <<1, 3>> [] OTHER -> <<c>>
Scoring == INSTANCE WordScoring WITH
  Alphabetic <- {1, 2, 4, 7}, Marks <- {3}, Lower <- LowerOf, Apostrophe <- 6, Period <- 5, Longest <- 3, MaxRange <- 3

ModelTexts ==
  [format : 1..4, ranges : {<<>>, <<<<1, 1>>>>, <<<<1, 2>>>>, <<<<2, 2>>, <<1, 1>>>>, <<<<2, 3>>>>},
   letters : {<<>>, <<2>>}, marks : {<<>>, <<3>>}, vowels : {<<>>, <<1>>},
   bigrams : {<<>>, <<<<1, 2>>>>, <<<<3, 1>>>>}, trigrams : {<<>>, <<<<1, 3, 2>>>>}, rare : {<<>>, <<<<2, 2>>>>},
   policy : [bigrams : BOOLEAN, trigrams : BOOLEAN, vowels : BOOLEAN, statistical : {TRUE}]]
Model ==
  [letters |-> {1, 2}, marks |-> {3}, vowels |-> {1}, bigrams |-> {<<1, 2>>}, trigrams |-> {<<1, 2, 1>>},
   rare |-> {}, policy |-> Scoring!Legacy]
ScoredWords == SeqsUpTo(1..7, 5)
KnownWords == {<<1, 1, 1>>, <<1, 2, 1>>, <<1>>}
Logits == [{"a", "b", "c"} -> {0, 1, 4, 5, None, Overflow}]
Headers ==
  {h \in [magic : {TRUE}, version : {1, 2}, languages : {<<"a">>, <<"a", "b">>, <<"a", "a">>}, buckets : 0..2,
          dim : 0..2, hidden : 0..2, widest : {1, 3}, ngrams : {0, 4}, context : {2, 17}, length : 20..100,
          finite : {TRUE}] : h.length = Scoring!Payload(h) \/ h.length % 13 = 0}

(* The decision turns no word the user or the typed language has, invents none from a short word or a       *)
(* path, and has no rival; and what it rests on is sound: a model counts only what its words can contain,    *)
(* a stored word is found again as it was stored, code is not judged by its letters, refused readings come   *)
(* last, and a layout is sure only after it was compared with others (detect_mapped_candidates,              *)
(* ScoringModel::parse, normalize_word, score_reading, probabilities).                                      *)
DecisionsAreSound ==
  /\ subject.kind = "decision" => Detector!SoundDecision(subject.it)
  /\ subject.kind = "model" => Scoring!EvidenceCanOccur(subject.it)
  /\ subject.kind = "word" =>
       /\ Scoring!EntriesReadBack("en", subject.it) /\ Scoring!CodeIsNotJudged(Model, subject.it, KnownWords)
       /\ Scoring!RefusedReadingsComeLast(Model, subject.it, <<5, 5>>)
  /\ subject.kind = "logits" => \A layout \in {"a", "b"} : Scoring!SureAfterComparing(subject.it, layout)
  /\ subject.kind = "header" => Scoring!TablesFit(subject.it)
  /\ subject.kind = "history" => \A k \in 0..3 : Scoring!LastWordWeighsMost(subject.it, k)

-------------------------------------------------------------------------------
(* Packs: "xx" is a profile the program has no adapter for, "r" a pack that is enabled and not there. *)
Packs == INSTANCE InputPacks WITH
  Known <- {"en", "et"}, Partial <- "et", MaxRows <- 4, MaxEnabled <- 3, MaxWords <- 2, MaxBytes <- 4

ExactProfiles == {"en", "et", "xx"}
Needs == {<<"physical">>, <<"physical", "altgr", "deadkey">>, <<"physical", "other">>}
Profiles == [exact : {TRUE}, profile : ExactProfiles] \cup [exact : {FALSE}, profile : {"en"}]
Declared(needs) ==
  {Packs!WithDescriptor("p", <<[bytes |-> 1, lower |-> "x", lowered |-> 1, bad |-> FALSE]>>, "p", rows) :
     rows \in SeqsUpTo([profile : Profiles, needs : needs], 3)} \ {Failed}
Snapshots ==
  {[packs |-> Packs!Inserted(Packs!Inserted(<<>>, "p", first), "q", second),
    enabled |-> {"p", "q", "r"}, choices |-> choices] :
     first \in Declared(Needs), second \in Declared({<<"physical">>}),
     choices \in UNION {[chosen -> ExactProfiles] : chosen \in SUBSET {"p", "q"}}}
ListedWords ==
  {[bytes |-> bytes, lower |-> lower, lowered |-> lowered, bad |-> FALSE] :
     bytes \in {1, 2}, lower \in {"x", "y"}, lowered \in 1..3}

(* Which language a layout stands for never depends on the order packs are read in nor on a pack that is     *)
(* not there, the detector is given a language exactly where the worker has its layout, the page shows the   *)
(* profiles the worker uses and keeps what is enabled, and a word list keeps its bounds after its words were brought to one form       *)
(* (InputPackRegistry, eligible_profiles, compile_words).                                                    *)
LanguagesFollowLayouts ==
  /\ subject.kind = "packs" =>
       /\ Packs!BindingsStayPut(subject.it) /\ Packs!PageKeepsSelection(subject.it)
       /\ \A layouts \in [{1, 2} -> ExactProfiles] :
            Packs!LayoutsAndLanguagesAgree(subject.it, layouts) /\ Packs!RowsTellTheWorker(subject.it, layouts)
  /\ subject.kind = "list" => Packs!KeptWithinBounds(subject.it)

-------------------------------------------------------------------------------
(* The texts of the interface: catalogs of one directory beside the program's own, English first. *)
Catalogs == INSTANCE UiCatalogs WITH Scripts <- {"hans", "hant"}, MaxEntries <- 2, MaxBytes <- 3, MaxAliases <- 1

English == [locale |-> <<"en">>, aliases |-> <<>>, messages |-> [a |-> {}, b |-> {"n"}]]
Locales ==
  {<<"zh">>, <<"zh", "hant">>, <<"zh", "hans">>, <<"zh", "tw">>, <<"zh", "hant", "tw">>, <<"ru">>, <<"en", "gb">>,
   <<"system">>, Failed}
Catalog(locale, aliases, messages) == [locale |-> locale, aliases |-> aliases, messages |-> messages]
Good ==
  {c \in {Catalog(locale, aliases, messages) : locale \in Locales, messages \in {[a |-> {}], [b |-> {}]},
            aliases \in {<<>>} \cup {<<alias>> : alias \in Locales}} :
     Catalogs!Parsed(c, English) \/ c.locale = <<"zh">>}
Sized == [catalog : Good \cup {Failed}, size : {1}] \cup [catalog : {c \in Good : c.aliases = <<>>}, size : {3}]
File(name, sized) == [name |-> name, catalog |-> sized.catalog, size |-> sized.size]
Directories == {{}} \cup {{File(1, f)} : f \in Sized} \cup {{File(1, f), File(2, g)} : f, g \in Sized}

(* A name leads to one catalog, a locale without one is answered in its own script, every message that is    *)
(* shown can be formatted, and the language the user saved stays selected when its catalog is away           *)
(* (LocaleRegistry, closest_locale, message_fits).                                                           *)
TextsAreFound ==
  subject.kind = "catalogs" =>
    LET registry == subject.it.registry IN
    /\ Catalogs!NamesLeadToOne(registry)
    /\ \A locale \in Locales \ {Failed} :
         Catalogs!StaysInScript(registry, locale) /\ Catalogs!MessagesFormat(registry, locale)
    /\ Catalogs!SavedLanguageKept(registry, subject.it.saved, <<"zh", "hant", "hk">>)

-------------------------------------------------------------------------------
Subjects ==
  \/ subject \in [kind : {"text"}, it : Texts]
  \/ subject \in [kind : {"earlier"}, it : EarlierFiles]
  \/ subject \in [kind : {"merge"}, base : Drafts, ours : Drafts, theirs : Drafts]
  \/ subject \in [kind : {"decision"}, it : DecidedWords]
  \/ subject \in [kind : {"model"}, it : ModelTexts]
  \/ subject \in [kind : {"word"}, it : ScoredWords]
  \/ subject \in [kind : {"logits"}, it : Logits]
  \/ subject \in [kind : {"header"}, it : Headers]
  \/ subject \in [kind : {"history"}, it : SeqsUpTo({"a", "b", "c"}, 4)]
  \/ subject \in [kind : {"packs"}, it : Snapshots]
  \/ subject \in [kind : {"list"}, it : ListedWords \X ListedWords]
  \/ subject \in [kind : {"catalogs"},
                  it : [registry : {Catalogs!Initial(English, {File(1, f)}, files) : f \in Sized, files \in Directories},
                        saved : Locales \cup {<<>>}]]

TablesAssumption == Packs!PacksAssumption /\ Scoring!ScoringAssumption

Spec == Subjects /\ [][UNCHANGED subject]_subject
===============================================================================
