--------------------------- MODULE MCPackageStore ---------------------------
(* Two revisions of a package, and two catalogs: the next release withdraws *)
(* the key that signed the catalog with the higher revision. Two processes   *)
(* change the store without a catalog, or one of them alone with catalogs.  *)
EXTENDS PackageStore, TLC

CONSTANTS ru, withdrawnKey, lastingKey

VARIABLE solo    \* the only process that acts, or None where both do

Package(revision) == [id |-> ru, revision |-> revision, content |-> revision, signer |-> lastingKey]

MCArtifacts == {Package(1), Package(2)}

Catalog(revision, signer) ==
    [repository |-> "releases", revision |-> revision, document |-> revision, signer |-> signer]

MCCheckpoints == {Catalog(2, withdrawnKey), Catalog(1, lastingKey)}

MCOffers == [c \in Checkpoints |-> {Package(2)}]

MCReleases == {{withdrawnKey, lastingKey}, {lastingKey}}

Symmetry == Permutations(Procs)

(* The bound of a world: both processes act and run one release, without a     *)
(* catalog; or one of them alone, with catalogs and one failure.               *)
Within ==
    IF solo = None THEN \A p \in Procs : proc[p].trust = {lastingKey} /\ proc[p].catalog = None
    ELSE failures <= 1 /\ \A p \in Procs \ {solo} : proc[p] = Idle({lastingKey})

MCInit == Init /\ solo \in Procs \cup {None} /\ Within
MCNext == Next /\ UNCHANGED solo /\ Within'
MCSpec == MCInit /\ [][MCNext]_<<vars, solo>>
=============================================================================
