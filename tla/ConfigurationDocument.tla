------------------------- MODULE ConfigurationDocument -------------------------
(***************************************************************************)
(* The configuration as a value: how config.ini is read and written, and how a   *)
(* draft of the settings window is merged into what another writer saved.          *)
(*                                                                           *)
(* A text is a sequence of rows as the reader splits them: a comment, a section's   *)
(* name, a key and its value, or any other line. Words, programs, packs, keys and    *)
(* values are names; Canonical says what the stored form of one is. The settings     *)
(* that are plain switches are represented by BoolKeys.                             *)
(***************************************************************************)
EXTENDS Integers, Sequences, SequencesExt, FiniteSets

CONSTANTS
  BoolKeys,        \* settings that are switches, without pause_break_undo
  Canonical,       \* raw entry |-> stored form, for entries that have one
  TypingChords,    \* hotkeys <<key, modifiers>> that type text
  Hotkeys          \* hotkeys <<key, modifiers>> the agent takes

ASSUME DocumentAssumption == <<"Pause", "">> \in Hotkeys /\ TypingChords \cap Hotkeys = {}

SchemaVersion == 4
Unreadable == [unreadable |-> TRUE]
Absent == "absent"

DefaultSettings ==
  [switches |-> [key \in BoolKeys |-> FALSE],
   hotkey |-> [on |-> TRUE, chord |-> <<"Pause", "">>],
   packs |-> {"en-US", "ru-RU"}]

Strategies == {"capability-probe", "protected-paste", "physical-replay", "observe-only"}
DefaultRules ==
  [program \in {"notepad.exe", "*"} |-> IF program = "*" THEN "capability-probe" ELSE "protected-paste"]

DefaultDocument ==
  [mode |-> "legacy", language |-> "auto", settings |-> DefaultSettings, profiles |-> <<>>,
   dictionary |-> {}, exclusions |-> {}, programs |-> {}, rules |-> DefaultRules]

(* A function without its names of value Absent; a text of pairs names each once. *)
Present(f) == [x \in {y \in DOMAIN f : f[y] # Absent} |-> f[x]]
At(f, x) == IF x \in DOMAIN f THEN f[x] ELSE Absent

(* The key of a row, "" for a row that is no pair. *)
KeyOf(row) == IF row.is = "pair" THEN row.key ELSE ""
ValueOf(rows, key, default) ==
  IF \E i \in DOMAIN rows : KeyOf(rows[i]) = key
  THEN rows[CHOOSE i \in DOMAIN rows : KeyOf(rows[i]) = key].value ELSE default

-------------------------------------------------------------------------------
(* Settings::parse_text, strict: a known key once, values that are what they should be; an
   unknown key belongs to a later version and is passed over. *)
LegacyPacks == [enable_english |-> "en-US", enable_russian |-> "ru-RU"]
HotkeyKeys == {"force_hotkey_key", "force_hotkey_modifiers"}
KnownKeys == BoolKeys \cup {"pause_break_undo", "enabled_input_packs"} \cup HotkeyKeys \cup DOMAIN LegacyPacks

SettingsRowWrong(rows, i) ==
  LET key == KeyOf(rows[i])
      value == rows[i].value
  IN  \/ rows[i].is # "pair"
      \/ key \in KnownKeys /\ \E j \in 1..(i - 1) : rows[j].key = key
      \/ key \in BoolKeys \cup {"pause_break_undo"} \cup DOMAIN LegacyPacks /\ value \notin BOOLEAN
      \/ key \in {"enabled_input_packs"} \cup DOMAIN LegacyPacks
           /\ \E j \in 1..(i - 1) :
                rows[j].key \in {"enabled_input_packs"} \cup DOMAIN LegacyPacks
                /\ "enabled_input_packs" \in {key, rows[j].key}

(* A hotkey that types text is turned off, with the default one in its place. *)
LoadedHotkey(on, chord) ==
  IF chord \in Hotkeys THEN [on |-> on, chord |-> chord] ELSE [on |-> FALSE, chord |-> <<"Pause", "">>]

SettingsFrom(rows) ==
  LET chord == <<ValueOf(rows, "force_hotkey_key", "Pause"), ValueOf(rows, "force_hotkey_modifiers", "")>>
      legacy(pack, key) == ValueOf(rows, key, pack \in DefaultSettings.packs)
  IN  IF \/ \E i \in DOMAIN rows : SettingsRowWrong(rows, i)
         \/ chord \notin Hotkeys \cup TypingChords
      THEN Unreadable
      ELSE [switches |-> [key \in BoolKeys |-> ValueOf(rows, key, DefaultSettings.switches[key])],
            hotkey |-> LoadedHotkey(ValueOf(rows, "pause_break_undo", TRUE), chord),
            packs |-> IF \E i \in DOMAIN rows : KeyOf(rows[i]) = "enabled_input_packs"
                      THEN ValueOf(rows, "enabled_input_packs", {})
                      ELSE {pack \in DefaultSettings.packs :
                              \A key \in DOMAIN LegacyPacks : LegacyPacks[key] = pack => legacy(pack, key)}]

-------------------------------------------------------------------------------
(* ConfigurationDocument::from_text *)
Sections == {"packages", "settings", "input_profiles", "user_dictionary", "word_exclusions",
             "process_exclusions", "backend_rules"}
OnceOnly == {"packages", "input_profiles"}

(* The section each row is in, "" before the first. *)
SectionAt(rows, i) ==
  LET named == {j \in 1..i : rows[j].is = "section"}
  IN  IF named = {} THEN "" ELSE rows[CHOOSE j \in named : \A k \in named : k <= j].name

RowsOf(rows, section) ==
  LET in(i) == rows[i].is \notin {"comment", "section"} /\ SectionAt(rows, i) = section
  IN  [k \in 1..Cardinality({i \in DOMAIN rows : in(i)}) |->
         rows[CHOOSE i \in DOMAIN rows : in(i) /\ Cardinality({j \in 1..i : in(j)}) = k]]

HasSection(rows, section) == \E i \in DOMAIN rows : rows[i].is = "section" /\ rows[i].name = section

SchemaRefused(schema, rows) ==
  \/ schema \notin 1..SchemaVersion
  \/ HasSection(rows, "input_profiles") /\ schema < 3
  \/ HasSection(rows, "packages") /\ schema < 4
  \/ schema >= 4 /\ RowsOf(rows, "packages") = <<>>

PairsOnly(rows) == \A i \in DOMAIN rows : rows[i].is = "pair"
EachOnce(rows) == \A i, j \in DOMAIN rows : rows[i].key = rows[j].key => i = j
MapFrom(rows) == [key \in {rows[i].key : i \in DOMAIN rows} |-> ValueOf(rows, key, Absent)]
Stored(rows) == {Canonical[rows[i].text] : i \in DOMAIN rows}

(* process_name_reads_back *)
ReadsBack(entry) == entry \notin {"#", "[]"}

(* lexicon_entry, process_entry and BackendRules::from_lines *)
WordsOnly(rows) == \A i \in DOMAIN rows : rows[i].is = "line" /\ rows[i].text \in DOMAIN Canonical
ProgramsOnly(rows) == WordsOnly(rows) /\ \A i \in DOMAIN rows : ReadsBack(Canonical[rows[i].text])
RulesOnly(rows) == PairsOnly(rows) /\ EachOnce(rows) /\ \A i \in DOMAIN rows : rows[i].value \in Strategies
RulesFrom(rows) ==
  LET exact == MapFrom(rows)
  IN  [program \in DOMAIN exact \cup {"*"} |-> IF program \in DOMAIN exact THEN exact[program] ELSE "capability-probe"]

(* canonicalize_and_validate: a word is in one list only. *)
ListsApart(document) == document.dictionary \cap document.exclusions = {}

FromText(rows) ==
  LET header == RowsOf(rows, "")
      packages == RowsOf(rows, "packages")
      settings == SettingsFrom(SelectSeq(RowsOf(rows, "settings"), LAMBDA row : KeyOf(row) # "ui_language"))
      languages == SelectSeq(RowsOf(rows, "settings"), LAMBDA row : KeyOf(row) = "ui_language")
      document ==
        [mode |-> IF packages = <<>> THEN "legacy" ELSE packages[1].value,
         language |-> IF languages = <<>> THEN "auto" ELSE languages[1].value,
         settings |-> settings,
         profiles |-> MapFrom(RowsOf(rows, "input_profiles")),
         dictionary |-> Stored(RowsOf(rows, "user_dictionary")),
         exclusions |-> Stored(RowsOf(rows, "word_exclusions")),
         programs |-> Stored(RowsOf(rows, "process_exclusions")),
         rules |-> IF HasSection(rows, "backend_rules")
                   THEN RulesFrom(RowsOf(rows, "backend_rules")) ELSE DefaultRules]
      wrong ==
        \/ \E i \in DOMAIN rows : rows[i].is = "section" /\ rows[i].name \notin Sections
        \/ \E i, j \in DOMAIN rows : i # j /\ rows[i].is = "section" /\ rows[j].is = "section"
                                     /\ rows[i].name = rows[j].name /\ rows[i].name \in OnceOnly
        \/ Len(header) # 1 \/ ~PairsOnly(header) \/ header[1].key # "schema_version"
        \/ SchemaRefused(header[1].value, rows)
        \/ Len(packages) > 1 \/ ~PairsOnly(packages)
        \/ packages # <<>> /\ (packages[1].key # "mode" \/ packages[1].value \notin {"legacy", "managed"})
        \/ Len(languages) > 1
        \/ ~PairsOnly(RowsOf(rows, "input_profiles")) \/ ~EachOnce(RowsOf(rows, "input_profiles"))
        \/ ~WordsOnly(RowsOf(rows, "user_dictionary")) \/ ~WordsOnly(RowsOf(rows, "word_exclusions"))
        \/ ~ProgramsOnly(RowsOf(rows, "process_exclusions")) \/ ~RulesOnly(RowsOf(rows, "backend_rules"))
        \/ settings = Unreadable
  IN  IF wrong THEN Unreadable ELSE IF ListsApart(document) THEN document ELSE Unreadable

(* try_from_legacy: the files of earlier versions, each of which may be missing. *)
FromLegacy(settings, dictionary, exclusions, programs) ==
  LET document == [DefaultDocument EXCEPT !.settings = SettingsFrom(settings), !.dictionary = Stored(dictionary),
                                          !.exclusions = Stored(exclusions), !.programs = Stored(programs)]
  IN  IF /\ WordsOnly(dictionary) /\ WordsOnly(exclusions) /\ ProgramsOnly(programs)
         /\ SettingsFrom(settings) # Unreadable /\ ListsApart(document)
      THEN document ELSE Unreadable

-------------------------------------------------------------------------------
(* ConfigurationDocument::to_text. A stored entry that would be read as a comment or a section
   is no entry: process_entry refuses it, and the written text is read back before it is used. *)
Row(entry) ==
  CASE entry = "#" -> [is |-> "comment"]
    [] entry = "[]" -> [is |-> "section", name |-> ""]
    [] OTHER -> [is |-> "line", text |-> entry]
Pair(key, value) == [is |-> "pair", key |-> key, value |-> value]
Titled(name, rows) == <<[is |-> "section", name |-> name]>> \o rows
EntryRows(entries) == LET order == SetToSeq(entries) IN [i \in DOMAIN order |-> Row(order[i])]
PairRows(f) == LET order == SetToSeq(DOMAIN f) IN [i \in DOMAIN order |-> Pair(order[i], f[order[i]])]

Rows(document) ==
  <<Pair("schema_version", SchemaVersion)>>
  \o Titled("packages", <<Pair("mode", document.mode)>>)
  \o Titled("settings",
       <<Pair("ui_language", document.language),
         Pair("pause_break_undo", document.settings.hotkey.on),
         Pair("force_hotkey_key", document.settings.hotkey.chord[1]),
         Pair("force_hotkey_modifiers", document.settings.hotkey.chord[2]),
         Pair("enabled_input_packs", document.settings.packs)>> \o PairRows(document.settings.switches))
  \o Titled("user_dictionary", EntryRows(document.dictionary))
  \o Titled("input_profiles", PairRows(document.profiles))
  \o Titled("word_exclusions", EntryRows(document.exclusions))
  \o Titled("process_exclusions", EntryRows(document.programs))
  \o Titled("backend_rules", PairRows(document.rules))

ToText(document) == IF FromText(Rows(document)) = document THEN Rows(document) ELSE Unreadable

-------------------------------------------------------------------------------
(* ConfigurationDocument::merge: three ways, value by value and entry by entry. *)
MergeValue(base, ours, theirs) == IF ours = base THEN theirs ELSE ours
Conflicts(base, ours, theirs) == ours # base /\ theirs # base /\ theirs # ours

Names(base, ours, theirs) == DOMAIN base \cup DOMAIN ours \cup DOMAIN theirs
MergeMap(base, ours, theirs) ==
  Present([x \in Names(base, ours, theirs) |-> MergeValue(At(base, x), At(ours, x), At(theirs, x))])
MapConflicts(base, ours, theirs) ==
  \E x \in Names(base, ours, theirs) : Conflicts(At(base, x), At(ours, x), At(theirs, x))

(* Mutant: entries removed on the other side come back. *)
MergeEntriesKeeping(base, ours, theirs) == ours \cup {entry \in theirs : entry \notin base}
MergeEntries(base, ours, theirs) ==
  {entry \in ours : entry \in theirs \/ entry \notin base} \cup {entry \in theirs : entry \notin base}

(* The hotkey merges as one value: a key of one side with modifiers of the other would be a
   shortcut neither chose. *)
MergeHotkey(base, ours, theirs) == MergeValue(base, ours, theirs)

Merge(base, ours, theirs) ==
  LET b == base.settings
      o == ours.settings
      t == theirs.settings
      dictionary == MergeEntries(base.dictionary, ours.dictionary, theirs.dictionary)
      exclusions == MergeEntries(base.exclusions, ours.exclusions, theirs.exclusions)
      both == dictionary \cap exclusions
  IN  [document |->
         [mode |-> MergeValue(base.mode, ours.mode, theirs.mode),
          language |-> MergeValue(base.language, ours.language, theirs.language),
          settings |-> [switches |-> MergeMap(b.switches, o.switches, t.switches),
                        hotkey |-> MergeHotkey(b.hotkey, o.hotkey, t.hotkey),
                        packs |-> MergeValue(b.packs, o.packs, t.packs)],
          profiles |-> MergeMap(base.profiles, ours.profiles, theirs.profiles),
          dictionary |-> dictionary \ (both \cap ours.exclusions),
          exclusions |-> exclusions \ (both \ ours.exclusions),
          programs |-> MergeEntries(base.programs, ours.programs, theirs.programs),
          rules |-> MergeMap(base.rules, ours.rules, theirs.rules)],
       conflicts |->
         \/ Conflicts(base.mode, ours.mode, theirs.mode) \/ Conflicts(base.language, ours.language, theirs.language)
         \/ MapConflicts(b.switches, o.switches, t.switches)
         \/ Conflicts(b.hotkey, o.hotkey, t.hotkey) \/ Conflicts(b.packs, o.packs, t.packs)
         \/ MapConflicts(base.profiles, ours.profiles, theirs.profiles)
         \/ MapConflicts(base.rules, ours.rules, theirs.rules)
         \/ both # {}]
===============================================================================
