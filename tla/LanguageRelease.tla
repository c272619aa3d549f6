---- MODULE LanguageRelease ----
(***************************************************************************)
(* How a language package gets from the signing tool to the store: what the tool signs, what a       *)
(* catalog pins and for how long, what the transfer takes from the server, and what is checked again  *)
(* before a selection is committed. The store itself is PackageStore; of it only the checkpoint and   *)
(* the receipts are kept here.                                                        *)
(*                                                                           *)
(* A signature is valid when the tool made it and no byte changed; a hash is the identity of what it  *)
(* names. Time is counted in units of the grace a new catalog gets (Backdate is one of them).         *)
(***************************************************************************)
EXTENDS Naturals, FiniteSets

CONSTANTS
  None,
  Ids,            \* package ids
  Base,           \* the id no package may have: the built-in language
  Releases,       \* releases of the program: the keys each lists, as [signer, key, role]
  Drafts,         \* unsigned packages an operator may bring to the tool
  Repositories,   \* repositories a catalog may name; Ours is the default
  Ours,
  OurApi,         \* RUNTIME_API
  MaxRevision,    \* bound: revisions of catalogs
  MaxSigned,      \* bound: documents the tool signs
  Validities,     \* how long a catalog may be asked to stand
  MaxTime,        \* bound: the clock
  MaxLifetime,    \* MAX_LIFETIME_SECONDS
  MaxHops         \* redirects one request follows

VARIABLES
  clock,      \* the time
  release,    \* the release of the program that runs
  tool,       \* what the signing tool prepared, and not yet signed
  signed,     \* what it signed: packages and catalogs
  receipt,    \* the store: the checkpoint of the last catalog, and what is installed
  offer,      \* the installation under way: its catalog, its selection and what was downloaded
  request     \* the transfer under way

rvars == <<clock, release, tool, signed, receipt, offer, request>>

Backdate == 1
InputRoles == {"words", "short_words", "scoring", "input"}

(*                        trust                        *)
(* parse_release_metadata and from_public_keys: one release key, no name and no key twice. *)
Listed(r) ==
  /\ Cardinality({k \in r : k.role = "release"}) = 1
  /\ Cardinality({k.signer : k \in r}) = Cardinality(r) /\ Cardinality({k.key : k \in r}) = Cardinality(r)
Trust(r) == IF Listed(r) THEN r ELSE {}
ReleaseKey(r) == CHOOSE k \in Trust(r) : k.role = "release"
(* verify_document: the name finds the key, and that key made the signature over these bytes. *)
Verified(document, trust) ==
  ~document.changed /\ \E k \in trust : k.signer = document.signer /\ k.key = document.key
Trusts(trust, key) == \E k \in trust : k.key = key

(*                        a package                        *)
Supported(api) == api \in 1..OurApi

(* VerifiedLanguagePackage::verify: what the manifest lists is what is there, and it is whole: all   *)
(* four parts of a language or none, a catalog of texts exactly for the locale named, at least one.   *)
Whole(p) ==
  /\ p.parts = p.listed /\ p.sound
  /\ p.parts \cap InputRoles \in {{}, InputRoles}
  /\ p.inputId = (IF p.parts \cap InputRoles = {} THEN None ELSE p.id)
  /\ ("ui" \in p.parts) = (p.locale # None)
  /\ p.parts # {}
PackageAccepted(document, trust) ==
  /\ Verified(document, trust)
  /\ Supported(document.package.api) /\ document.package.revision > 0 /\ Whole(document.package)

(*                        a catalog                        *)

(* catalog_window: so many units from an issue in the past. *)
CatalogWindow(now, validity) ==
  IF validity \in 1..MaxLifetime /\ now >= Backdate
    THEN [issued |-> now - Backdate, expires |-> now - Backdate + validity] ELSE None

(* Mutant: what was current when it was chosen needs no second look. *)
IssuedBefore(window, now) == now >= window.issued
Current(window, now) == now >= window.issued /\ now < window.expires

Follows(c, previous) ==
  previous # None =>
    c.revision > previous.revision \/ (c.revision = previous.revision /\ c = previous.catalog)
(* An entry pins one artifact, under an id, a revision and contents of its own claim. *)
EntryValid(e) == e.revision > 0 /\ (e.input \/ e.locale # None)
CatalogAccepted(document, trust, repository, previous, now) ==
  LET c == document.catalog
  IN  /\ Verified(document, trust)
      /\ c.revision > 0 /\ c.repository = repository
      /\ c.window.expires > c.window.issued /\ c.window.expires - c.window.issued <= MaxLifetime
      /\ Current(c.window, now)
      /\ Follows(c, previous)
      /\ \A id \in Ids : c.entries[id] # None => EntryValid(c.entries[id])

(* check_package: the package is what its entry claims, and not only the bytes it pins. *)
Matches(document, id, e) ==
  LET p == document.package
  IN  /\ document = e.artifact /\ p.id = id /\ p.revision = e.revision /\ p.api = e.api
      /\ (p.inputId # None) = e.input /\ p.locale = e.locale

(*                        the signing tool                        *)
IsCatalog(document) == "catalog" \in DOMAIN document
PackagesSigned == {d \in signed : ~IsCatalog(d)}
CatalogsSigned == {d \in signed : IsCatalog(d)}
Document(content, k) ==
  IF "entries" \in DOMAIN content
    THEN [signer |-> k.signer, key |-> k.key, changed |-> FALSE, catalog |-> content]
    ELSE [signer |-> k.signer, key |-> k.key, changed |-> FALSE, package |-> content]

(* finalize, which prepare runs too with a key of its own before it touches the real one. *)
Signable(document, trust, now) ==
  IF IsCatalog(document)
    THEN /\ CatalogAccepted(document, trust, Ours, None, now)
         /\ \A id \in Ids : document.catalog.entries[id] # None => id # Base
    ELSE PackageAccepted(document, trust) /\ document.package.id # Base

Entry(d) == [artifact |-> d, revision |-> d.package.revision, api |-> d.package.api,
             input |-> d.package.inputId # None, locale |-> d.package.locale]
(* The operator writes the entries; the tool never sees the packages they pin. *)
Entries == {None} \cup {Entry(d) : d \in PackagesSigned}
             \cup {[Entry(d) EXCEPT !.revision = @ + 1] : d \in PackagesSigned}
CatalogDrafts ==
  {[repository |-> r, revision |-> n, window |-> CatalogWindow(clock, v), entries |-> e] :
     r \in Repositories, n \in 1..MaxRevision,
     v \in {w \in Validities : CatalogWindow(clock, w) # None}, e \in [Ids -> Entries]}

Prepare ==
  /\ tool = None /\ Cardinality(signed) < MaxSigned /\ offer = None
  /\ \E draft \in Drafts \cup CatalogDrafts :
       LET k == ReleaseKey(release)
       IN  /\ Signable(Document(draft, k), {k}, clock)
           /\ Document(draft, k) \notin signed
           /\ tool' = draft
  /\ UNCHANGED <<clock, release, signed, receipt, offer, request>>

Sign ==
  /\ tool # None
  /\ LET document == Document(tool, ReleaseKey(release))
     IN  signed' = IF Signable(document, Trust(release), clock) THEN signed \cup {document} ELSE signed
  /\ tool' = None
  /\ UNCHANGED <<clock, release, receipt, offer, request>>

(*                        the transfer                        *)
(* get: a request to GitHub, redirects followed by hand and never to a place already asked. *)
NewRequest(size) == [hop |-> 0, visited |-> {"github"}, size |-> size, read |-> 0]
Places == {"github", "assets", "other"}

Redirected(place) ==
  IF request.hop < MaxHops /\ place # "other" /\ place \notin request.visited
    THEN [request EXCEPT !.hop = @ + 1, !.visited = @ \cup {place}] ELSE None

Redirect ==
  /\ request # None /\ request.read = 0 /\ request.hop <= MaxHops
  /\ \E place \in Places :
       /\ request' = Redirected(place)
       /\ offer' = IF request' = None THEN None ELSE offer
  /\ UNCHANGED <<clock, release, tool, signed, receipt>>

(*                        an installation                        *)
Previous == IF receipt.checkpoint = None THEN None ELSE receipt.checkpoint
Repository == IF Previous = None THEN Ours ELSE Previous.catalog.repository

AskCatalog ==
  /\ offer = None /\ request = None /\ CatalogsSigned # {}
  /\ offer' = [catalog |-> None, ids |-> {}, got |-> [id \in Ids |-> None]]
  /\ request' = NewRequest("most")
  /\ UNCHANGED <<clock, release, tool, signed, receipt>>

(* The catalog of the latest release, or an older one a cache still holds. *)
TakeCatalog ==
  /\ request # None /\ request.size = "most"
  /\ \E document \in CatalogsSigned :
       offer' = IF CatalogAccepted(document, Trust(release), Repository, Previous, clock)
                  THEN [offer EXCEPT !.catalog = document] ELSE None
  /\ request' = None
  /\ UNCHANGED <<clock, release, tool, signed, receipt>>

NotOlder(id, e) ==
  LET old == receipt.highest[id]
  IN  old # None => e.revision > old.package.revision \/ e.artifact = old
Select ==
  /\ offer # None /\ offer.catalog # None /\ offer.ids = {} /\ request = None
  /\ \E ids \in (SUBSET Ids) \ {{}} :
       /\ offer' =
            IF /\ CatalogAccepted(offer.catalog, Trust(release), Repository, Previous, clock)
               /\ \A id \in ids : /\ offer.catalog.catalog.entries[id] # None
                                  /\ Supported(offer.catalog.catalog.entries[id].api) /\ id # Base
                                  /\ NotOlder(id, offer.catalog.catalog.entries[id])
              THEN [offer EXCEPT !.ids = ids] ELSE None
  /\ UNCHANGED <<clock, release, tool, signed, receipt, request>>

Missing == {id \in offer.ids : offer.got[id] = None}
AskPackage ==
  /\ offer # None /\ offer.ids # {} /\ Missing # {} /\ request = None
  /\ IF Current(offer.catalog.catalog.window, clock)
       THEN request' = NewRequest("exact") /\ UNCHANGED offer
       ELSE offer' = None /\ UNCHANGED request
  /\ UNCHANGED <<clock, release, tool, signed, receipt>>

(* read_sized_body and verify_download: exactly the bytes pinned, and what they say is what was pinned. *)
Served == PackagesSigned \cup {[d EXCEPT !.changed = TRUE] : d \in PackagesSigned}
TakePackage ==
  /\ request # None /\ request.size = "exact"
  /\ \E id \in Missing, document \in Served :
       LET e == offer.catalog.catalog.entries[id]
       IN  offer' = IF /\ Current(offer.catalog.catalog.window, clock)
                       /\ PackageAccepted(document, Trust(release)) /\ Matches(document, id, e)
                      THEN [offer EXCEPT !.got[id] = document] ELSE None
  /\ request' = None
  /\ UNCHANGED <<clock, release, tool, signed, receipt>>

(* accept: the user looks at what was downloaded; confirm checks all of it again and commits. *)
Confirm ==
  /\ offer # None /\ offer.ids # {} /\ Missing = {}
  /\ receipt' =
       IF /\ CatalogAccepted(offer.catalog, Trust(release), Repository, Previous, clock)
          /\ \A id \in offer.ids : Matches(offer.got[id], id, offer.catalog.catalog.entries[id])
         THEN [checkpoint |-> [revision |-> offer.catalog.catalog.revision, key |-> offer.catalog.key,
                               catalog |-> offer.catalog.catalog],
               highest |-> [id \in Ids |-> IF id \in offer.ids THEN offer.got[id] ELSE receipt.highest[id]]]
         ELSE receipt
  /\ offer' = None
  /\ UNCHANGED <<clock, release, tool, signed, request>>

Abandon ==
  /\ offer # None /\ offer' = None /\ request' = None
  /\ UNCHANGED <<clock, release, tool, signed, receipt>>

Tick ==
  /\ clock < MaxTime /\ clock' = clock + 1
  /\ UNCHANGED <<release, tool, signed, receipt, offer, request>>

(* A new release of the program: its own keys, and a store whose checkpoint it may no longer trust. *)
Upgrade ==
  /\ offer = None /\ tool = None
  /\ \E r \in Releases \ {release} :
       /\ Listed(r) /\ release' = r
       /\ receipt' = IF Previous # None /\ ~Trusts(Trust(r), Previous.key)
                       THEN [receipt EXCEPT !.checkpoint = None] ELSE receipt
  /\ UNCHANGED <<clock, tool, signed, offer, request>>

RInit ==
  /\ clock = Backdate /\ release \in {r \in Releases : Listed(r)} /\ tool = None /\ signed = {}
  /\ receipt = [checkpoint |-> None, highest |-> [id \in Ids |-> None]]
  /\ offer = None /\ request = None
RNext ==
  \/ Prepare \/ Sign \/ Redirect \/ AskCatalog \/ TakeCatalog \/ Select \/ AskPackage \/ TakePackage
  \/ Confirm \/ Abandon \/ Tick \/ Upgrade

(*                        properties                        *)
(* What is committed was offered by a catalog still current at that moment and signed by a key the    *)
(* running release trusts, however long the user looked at it; it is whole, and of what the store     *)
(* remembers nothing gets older but by a key that was withdrawn.                              *)
CommitsWhatIsCurrent ==
  [][receipt'.highest # receipt.highest =>
       /\ receipt'.checkpoint.catalog.window.issued <= clock
       /\ clock < receipt'.checkpoint.catalog.window.expires
       /\ Trusts(Trust(release), receipt'.checkpoint.key)
       /\ Previous # None => receipt'.checkpoint.revision >= Previous.revision
       /\ \A id \in Ids : receipt'.highest[id] # receipt.highest[id] =>
            /\ PackageAccepted(receipt'.highest[id], Trust(release))
            /\ NotOlder(id, Entry(receipt'.highest[id]))]_rvars

(* What the tool signed is of use: a client of the same release takes each package, and each catalog  *)
(* for all of its time; and any window the tool may choose is one that clients take from the start.   *)
SignedIsAccepted ==
  /\ \A d \in PackagesSigned : d.key = ReleaseKey(release).key => PackageAccepted(d, Trust(release))
  /\ \A d \in CatalogsSigned :
       d.key = ReleaseKey(release).key /\ Current(d.catalog.window, clock)
         => CatalogAccepted(d, Trust(release), Ours, None, clock)
  /\ clock >= Backdate =>
       \A v \in 2..MaxLifetime :
         LET w == CatalogWindow(clock, v)
         IN  Current(w, clock) /\ w.expires - w.issued <= MaxLifetime
====
