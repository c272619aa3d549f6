--------------------------- MODULE PackageHistory ---------------------------
(***************************************************************************)
(* What the package store owes its user, whatever files, locks and steps   *)
(* it uses: one history of inventories, each of them a change that can be  *)
(* staged from the one before.  A power failure goes back at most to the   *)
(* inventory that is stable, and a confirmed change is stable.  The agent  *)
(* sees inventories of this history only.                                  *)
(***************************************************************************)
EXTENDS PackageInventory

CONSTANTS
    Releases,   \* the sets of signing keys that releases of the program trust
    NoStore     \* stands for a store that was never initialized

VARIABLES
    store,      \* the inventory in use, or NoStore
    stable,     \* what a power failure leaves of it
    confirmed,  \* the last change that was reported as done, or None
    followed    \* the inventory the agent uses, or None

vars == <<store, stable, confirmed, followed>>

Init == store = NoStore /\ stable = NoStore /\ confirmed = None /\ followed = None

Create == store = NoStore /\ store' = EmptyInventory /\ UNCHANGED <<stable, confirmed, followed>>

Change ==
    /\ store # NoStore
    /\ \E trust \in Releases : store' \in Changes(Restore(store, trust))
    /\ UNCHANGED <<stable, confirmed, followed>>

Settle == stable' = store /\ UNCHANGED <<store, confirmed, followed>>

Confirm == stable' = store /\ confirmed' = store /\ UNCHANGED <<store, followed>>

LosePower ==
    /\ store' \in {store, stable}
    /\ stable' = store'
    /\ followed' = None
    /\ UNCHANGED confirmed

Follow == store # NoStore /\ followed' \in {store, None} /\ UNCHANGED <<store, stable, confirmed>>

Next == Create \/ Change \/ Settle \/ Confirm \/ LosePower \/ Follow

Spec == Init /\ [][Next]_vars
=============================================================================
