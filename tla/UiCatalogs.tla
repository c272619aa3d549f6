---- MODULE UiCatalogs ----
(***************************************************************************)
(* The catalogs of the user interface: English is built in; others are data files, put there by the    *)
(* user, by the installation or by packages, which may be wrong in any way and may name each other's    *)
(* locales. A locale is a sequence of subtags; a message is the set of its placeholders.                *)
(***************************************************************************)
EXTENDS Naturals, Sequences
LOCAL INSTANCE SequencesExt
LOCAL INSTANCE FiniteSets

CONSTANTS
  Failed,
  Scripts,    \* subtags of four letters
  MaxEntries, \* catalogs of one directory
  MaxBytes,   \* bytes read of one directory
  MaxAliases  \* aliases of one catalog

En == <<"en">>
System == <<"system">>
Prefix(locale, length) == SubSeq(locale, 1, length)

(* normalize_locale, for names that are no names. *)
Normal(name, otherwise) == IF name = Failed THEN otherwise ELSE name

(* script_subtag *)
Script(locale) == IF Len(locale) > 1 /\ locale[2] \in Scripts THEN {locale[2]} ELSE {}

MessagesFit(catalog, english) ==
  \A id \in DOMAIN catalog.messages :
    id \in DOMAIN english.messages /\ catalog.messages[id] = english.messages[id]

(* parse_catalog: an alias stays in the language, and in the script if it names one. *)
Parsed(catalog, english) ==
  /\ catalog # Failed
  /\ Failed \notin {catalog.locale} \cup {catalog.aliases[i] : i \in DOMAIN catalog.aliases}
  /\ Len(catalog.aliases) <= MaxAliases
  /\ \A i \in DOMAIN catalog.aliases :
       LET alias == catalog.aliases[i] IN
       /\ alias[1] = catalog.locale[1] /\ Script(alias) \subseteq Script(catalog.locale)
       /\ alias # catalog.locale /\ \A j \in DOMAIN catalog.aliases : alias = catalog.aliases[j] => i = j
  /\ MessagesFit(catalog, english)

NamesOf(catalog) == {catalog.locale} \cup {catalog.aliases[i] : i \in DOMAIN catalog.aliases}

(* CatalogRegistry: catalogs by locale and by alias. *)
Empty(english) == [english |-> english, catalogs |-> {}, aliases |-> {}]
Named(registry) == {c.locale : c \in registry.catalogs} \cup {a.name : a \in registry.aliases}

(* CatalogRegistry::add: all names are free, or nothing is added. *)
Added(registry, catalog) ==
  IF \/ ~Parsed(catalog, registry.english)
     \/ \E n \in NamesOf(catalog) : n[1] = "en" \/ n = System
     \/ NamesOf(catalog) \cap Named(registry) # {}
  THEN registry
  ELSE [registry EXCEPT
          !.aliases = @ \cup {[name |-> n, catalog |-> catalog] : n \in NamesOf(catalog) \ {catalog.locale}},
          !.catalogs = @ \cup {catalog}]

(* load_directory: in the order of the file names, up to a number of bytes; nothing if there are too many. *)
Loaded(registry, files) ==
  LET ordered == SetToSortSeq(files, LAMBDA f, g : f.name < g.name)
      step(read, file) ==
        LET consumed == read.consumed + file.size IN
        CASE read.consumed > MaxBytes \/ file.catalog = Failed -> read
          [] read.consumed <= MaxBytes /\ file.catalog # Failed /\ consumed > MaxBytes ->
               [read EXCEPT !.consumed = consumed]
          [] OTHER -> [registry |-> Added(read.registry, file.catalog), consumed |-> consumed]
  IN  IF Cardinality(files) > MaxEntries THEN registry
      ELSE FoldLeft(step, [registry |-> registry, consumed |-> 0], ordered).registry

(* initialize: the user's own directory, then the program's. *)
Initial(english, local, bundled) == Loaded(Loaded(Empty(english), local), bundled)

(* UiLanguagePreference *)
FromConfig(value) == IF value = <<>> THEN System ELSE Normal(value, En)
Requested(preference, system) == IF preference = System THEN system ELSE preference

Shortest(locale) == IF Script(locale) # {} THEN 2 ELSE 1

(* CatalogRegistry::select: the longest prefix that a catalog or an alias names, English otherwise. *)
Select(registry, name) ==
  LET locale == Normal(name, En)
      holders(prefix) == {c \in registry.catalogs : c.locale = prefix}
                           \cup {a.catalog : a \in {b \in registry.aliases : b.name = prefix}}
      found == {l \in Shortest(locale)..Len(locale) : holders(Prefix(locale, l)) # {}}
  IN  IF found = {} THEN registry.english
      ELSE CHOOSE c \in holders(Prefix(locale, CHOOSE l \in found : \A m \in found : m <= l)) : TRUE

(* choices and picker_choices: what is saved stays selectable, also without a catalog. *)
Offered(registry) == <<System, En>> \o SetToSeq({c.locale : c \in registry.catalogs})
Picker(registry, preference) ==
  LET choices == IF preference \in ToSet(Offered(registry)) THEN Offered(registry)
                 ELSE Append(Offered(registry), preference) IN
  [choices |-> choices, selected |-> CHOOSE i \in DOMAIN choices : choices[i] = preference]

(* Localizer::text and format: each message falls back to English; arguments must be the placeholders. *)
Text(registry, catalog, id) ==
  IF id \in DOMAIN catalog.messages THEN catalog.messages[id]
  ELSE IF id \in DOMAIN registry.english.messages THEN registry.english.messages[id] ELSE {}
Formatted(registry, catalog, id, arguments) ==
  IF Text(registry, catalog, id) = arguments THEN arguments ELSE Failed

(*                        Properties                        *)
(* Whatever files there are and whatever they claim: a name leads to one catalog, and a catalog that   *)
(* was refused is reachable under none of its names (CatalogRegistry::add).                            *)
NamesLeadToOne(registry) ==
  /\ \A a, b \in registry.aliases : a.name = b.name => a = b
  /\ \A c, d \in registry.catalogs : c.locale = d.locale => c = d
  /\ \A a \in registry.aliases : a.catalog \in registry.catalogs /\ \A c \in registry.catalogs : c.locale # a.name

(* The interface is never shown in another language or in a script the user did not ask for            *)
(* (CatalogRegistry::select, "Never silently cross an explicit script boundary").                      *)
StaysInScript(registry, locale) ==
  LET chosen == Select(registry, locale) IN
  chosen = registry.english \/ (chosen.locale[1] = locale[1] /\ Script(locale) \subseteq Script(chosen.locale))

(* What the program passes a message always fits it, in every catalog it may be shown in: arguments are *)
(* written for the English text (parse_catalog, Localizer::format).                                    *)
MessagesFormat(registry, locale) ==
  \A id \in DOMAIN registry.english.messages :
    Formatted(registry, Select(registry, locale), id, registry.english.messages[id]) # Failed

(* Opening the settings and saving them keeps the language that is saved, with its catalog there or not *)
(* (picker_choices), and gives the interface the same catalog again.                                    *)
SavedLanguageKept(registry, value, system) ==
  LET preference == FromConfig(value)
      picker == Picker(registry, preference)
      saved == FromConfig(picker.choices[picker.selected]) IN
  /\ saved = preference
  /\ Select(registry, Requested(saved, system)) = Select(registry, Requested(preference, system))
====
