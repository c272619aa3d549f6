---- MODULE InputPacks ----
(***************************************************************************)
(* Which installed dictionaries take part in typing: what a package declares, what the user enabled   *)
(* and chose, what the agent's code can drive, and which layouts Windows has. Nothing here changes    *)
(* while a detector lives: a new selection makes a new detector.                             *)
(*                                                                           *)
(* A snapshot s has the packs installed (their model, and their descriptor: the profiles they declare *)
(* with the capabilities each requires), the packs enabled, and the profile chosen for some packs.    *)
(***************************************************************************)
EXTENDS Naturals, FiniteSets, SequencesExt

CONSTANTS
  Failed, None,
  Known,       \* the exact profiles the code has an adapter for
  Partial,     \* the one of them of which only the plain keys are driven
  MaxRows,     \* rows a page may send
  MaxEnabled,  \* packs that may be enabled
  MaxWords,    \* words of one list
  MaxBytes     \* bytes of one list

PacksAssumption == Partial \in Known /\ MaxEnabled \in Nat /\ MaxRows \in Nat

(*                        reading packages                        *)
(* Identifiers are compared without their case: a spelling stands for its lower-case form. *)
PackId(spelling) == IF spelling.valid THEN spelling.id ELSE Failed

(* WindowsKeyboardProfile::parse: a language and a layout, both there and neither zero. *)
ExactProfile(text) == IF text.exact THEN text.profile ELSE Failed

NoRepeat(s) == \A i, j \in DOMAIN s : (s[i] = s[j]) => (i = j)

(* InputPackDescriptor::from_json over the rows of profiles with their capabilities. *)
Descriptor(rows) ==
  LET profiles == [i \in DOMAIN rows |-> ExactProfile(rows[i].profile)] IN
  IF rows = <<>> \/ Len(rows) > 32 \/ ~NoRepeat(profiles) \/ Failed \in {profiles[i] : i \in DOMAIN rows}
     \/ \E i \in DOMAIN rows : rows[i].needs = <<>> \/ Len(rows[i].needs) > 8 \/ ~NoRepeat(rows[i].needs)
  THEN Failed
  ELSE [p \in {profiles[i] : i \in DOMAIN rows} |->
          LET i == CHOOSE i \in DOMAIN rows : profiles[i] = p
          IN {rows[i].needs[k] : k \in DOMAIN rows[i].needs}]

Total(size(_), words) == FoldFunction(+, 0, [i \in DOMAIN words |-> size(words[i])])
(* Lower-casing may lengthen a word: the list is bounded as read and as kept. *)
CompileWords(words) ==
  IF Len(words) > MaxWords \/ Total(LAMBDA w : w.bytes, words) > MaxBytes \/ \E i \in DOMAIN words : words[i].bad
     \/ Total(LAMBDA w : w.lowered, words) > MaxBytes
  THEN Failed ELSE {[word |-> words[i].lower, bytes |-> words[i].lowered] : i \in DOMAIN words}

(* DictionaryPack::with_input_descriptor: a descriptor of another pack is refused. *)
WithDescriptor(id, words, owner, rows) ==
  IF CompileWords(words) = Failed \/ Descriptor(rows) = Failed \/ owner # id THEN Failed
  ELSE [model |-> TRUE, profiles |-> Descriptor(rows)]

(* DictionaryRegistry::insert: an installed pack is never replaced. *)
Inserted(packs, id, pack) ==
  IF id \in DOMAIN packs \/ Cardinality(DOMAIN packs) >= MaxEnabled THEN Failed
  ELSE [i \in DOMAIN packs \cup {id} |-> IF i = id THEN pack ELSE packs[i]]

(* parse_selection: every row of the page counts, also those not ticked. *)
ParseSelection(rows) ==
  LET ids == [i \in DOMAIN rows |-> PackId(rows[i].spelling)]
      on == {ids[i] : i \in {k \in DOMAIN rows : rows[k].on}} IN
  IF Len(rows) > MaxRows \/ (\E i \in DOMAIN rows : ids[i] = Failed) \/ ~NoRepeat(ids)
     \/ Cardinality(on) > MaxEnabled
  THEN Failed ELSE on

(*                        with_profile_selections                        *)
Active(s, id) == id \in s.enabled /\ id \in DOMAIN s.packs
Declares(s, id) == DOMAIN s.packs[id].profiles
HasChoice(s, id) == id \in DOMAIN s.choices

(* A pack with a choice reserves that profile only; one without reserves all it declares. *)
Reserves(s, id) == IF HasChoice(s, id) THEN Declares(s, id) \cap {s.choices[id]} ELSE Declares(s, id)
Claims(s, profile) == {id \in s.enabled : Active(s, id) /\ profile \in Reserves(s, id)}

(* InputProfileSelections::resolve: an explicit choice the pack does not declare fails closed. *)
Resolve(s, id) ==
  IF HasChoice(s, id) THEN IF s.choices[id] \in Declares(s, id) THEN s.choices[id] ELSE None
  ELSE IF Cardinality(Declares(s, id)) = 1 THEN CHOOSE p \in Declares(s, id) : TRUE ELSE None

(* assess_profile_implementation, bind_conservative_profile. *)
Missing(needs) == needs \ {"physical"}
Drivable(profile, needs) ==
  /\ profile \in Known
  /\ \/ Missing(needs) = {}
     \/ profile = Partial /\ "physical" \in needs /\ Missing(needs) = {"altgr", "deadkey"}

(* Mutant: a profile two packs claim goes to both. *)
BoundShared(s, id) ==
  /\ Active(s, id) /\ s.packs[id].model /\ Resolve(s, id) # None
  /\ Drivable(Resolve(s, id), s.packs[id].profiles[Resolve(s, id)])
Bound(s, id) ==
  /\ Active(s, id) /\ s.packs[id].model /\ Resolve(s, id) # None
  /\ Claims(s, Resolve(s, id)) = {id}
  /\ Drivable(Resolve(s, id), s.packs[id].profiles[Resolve(s, id)])
Bindings(s) == [id \in {i \in s.enabled : Bound(s, i)} |-> Resolve(s, id)]

(*                        the layouts Windows has                        *)
(* handles gives the profile of every layout that has one; two layouts of a profile are ambiguous. *)
Handles(handles, profile) == {h \in DOMAIN handles : handles[h] = profile}
UniqueLayout(handles, profile) ==
  IF Cardinality(Handles(handles, profile)) = 1 THEN CHOOSE h \in Handles(handles, profile) : TRUE ELSE None

(* set_resolved_profiles, input_pack_is_eligible. *)
Eligible(s, handles) == {id \in DOMAIN Bindings(s) : UniqueLayout(handles, Bindings(s)[id]) # None}

AutomaticTargets(s, handles, source) ==
  IF source \in Eligible(s, handles) THEN Eligible(s, handles) \ {source} ELSE {}

LanguagesOf(s, handles, profile) == {id \in Eligible(s, handles) : Bindings(s)[id] = profile}
LanguageOf(s, handles, layout) ==
  IF Cardinality(LanguagesOf(s, handles, handles[layout])) = 1
  THEN CHOOSE id \in LanguagesOf(s, handles, handles[layout]) : TRUE ELSE None
FindLayout(s, handles, id) ==
  IF id \in DOMAIN Bindings(s) THEN UniqueLayout(handles, Bindings(s)[id]) ELSE None

(*                        selection_rows                        *)
RowIds(s) == DOMAIN s.packs \cup s.enabled \cup DOMAIN s.choices
Status(s, id) ==
  CASE id \notin DOMAIN s.packs -> "missing data"
    [] id \in DOMAIN s.packs /\ id \notin s.enabled -> "disabled"
    [] Active(s, id) /\ id \in DOMAIN Bindings(s) -> "conservative"
    [] OTHER -> "unavailable"
Row(s, id) ==
  [selected |-> id \in s.enabled, status |-> Status(s, id),
   missing |-> IF id \in DOMAIN Bindings(s) THEN Missing(s.packs[id].profiles[Bindings(s)[id]]) ELSE {},
   profiles |-> (IF id \in DOMAIN s.packs THEN Declares(s, id) ELSE {})
                  \cup (IF HasChoice(s, id) THEN {s.choices[id]} ELSE {})]

(*                        Properties                        *)
Without(s, id) == [s EXCEPT !.enabled = @ \ {id}]
Chosen(s, id, profile) ==
  [s EXCEPT !.choices = [i \in DOMAIN s.choices \cup {id} |-> IF i = id THEN profile ELSE s.choices[i]]]

(* Enabling a pack may unbind another but never binds it to another profile, and what it is bound to is *)
(* what the user chose for it; two packs never drive one profile. Choosing the profile a pack is bound  *)
(* to changes nothing for any other that does not claim it (with_profile_selections).                 *)
BindingsStayPut(s) ==
  /\ \A id \in DOMAIN Bindings(s) :
       /\ HasChoice(s, id) => Bindings(s)[id] = s.choices[id]
       /\ \A other \in s.enabled \ {id} :
            /\ id \in DOMAIN Bindings(Without(s, other)) /\ Bindings(Without(s, other))[id] = Bindings(s)[id]
            /\ other \in DOMAIN Bindings(s) => Bindings(s)[other] # Bindings(s)[id]
  /\ \A id \in s.enabled, other \in DOMAIN s.packs \cap s.enabled : 
       \A profile \in (IF id # other THEN Declares(s, other) ELSE {}) :
         (id \in DOMAIN Bindings(Without(s, other)) /\ profile # Bindings(Without(s, other))[id])
           => id \in DOMAIN Bindings(Chosen(s, other, profile))

(* The language of a layout and the layout of a language are inverse wherever both exist, so a conversion *)
(* that leaves a layout can come back to it, and a layout two handles share is neither (find_layout).     *)
LayoutsAndLanguagesAgree(s, handles) ==
  /\ \A layout \in DOMAIN handles :
       LanguageOf(s, handles, layout) # None => FindLayout(s, handles, LanguageOf(s, handles, layout)) = layout
  /\ \A source \in DOMAIN s.packs : \A target \in AutomaticTargets(s, handles, source) :
       /\ FindLayout(s, handles, target) # None /\ FindLayout(s, handles, target) # FindLayout(s, handles, source)
       /\ LanguageOf(s, handles, FindLayout(s, handles, target)) = target

(* Saving the page as it was opened keeps what is enabled, also a pack that is not installed, and a pack  *)
(* the page named twice is refused rather than one of its rows taken (selection_rows, parse_selection).  *)
PageKeepsSelection(s) ==
  \A order \in SetToSeqs(RowIds(s)) :
    LET rows == [i \in DOMAIN order |->
                   [spelling |-> [valid |-> TRUE, id |-> order[i]], on |-> order[i] \in s.enabled]] IN
    /\ ParseSelection(rows) = s.enabled
    /\ \A i \in DOMAIN rows : ParseSelection(Append(rows, [rows[i] EXCEPT !.on = ~@])) = Failed

(* What the page says of a pack is what the worker does with it, and a pack missing a capability is used *)
(* only for the one profile whose plain keys are driven (selection_rows_with_profiles).                  *)
RowsTellTheWorker(s, handles) ==
  \A id \in RowIds(s) :
    /\ id \in Eligible(s, handles) => Row(s, id).status = "conservative"
    /\ Row(s, id).missing # {} => /\ Row(s, id).status = "conservative"
                                  /\ Bindings(s)[id] = Partial /\ Row(s, id).missing = {"altgr", "deadkey"}
    /\ Row(s, id).status = "conservative" =>
         /\ Bindings(s)[id] \in Row(s, id).profiles /\ Bindings(s)[id] \in Known
         /\ \E h \in {[l \in {1} |-> Bindings(s)[id]]} : id \in Eligible(s, h)

(* A word list that is accepted fits its bound as it is kept, whatever lower-casing did to it. *)
KeptWithinBounds(words) ==
  CompileWords(words) # Failed =>
    FoldSet(LAMBDA w, sum : w.bytes + sum, 0, CompileWords(words)) <= MaxBytes
====
