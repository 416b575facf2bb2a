--------------------------- MODULE CensusRegistry ---------------------------
(***************************************************************************)
(* What the census Manager promises its clients about the censuses it     *)
(* holds, across requests, imports and restarts of the process.  A        *)
(* census is created only under a name not in use, empty, with the        *)
(* management keys given at creation, which never change afterwards; its  *)
(* claims only grow; it is removed only when it is named after a root     *)
(* hash (here: a set of claims) that its claims do not have, which is     *)
(* what the import daemon does with a dump whose root does not match.    *)
(* Nothing else, a restart included, removes or changes a census.        *)
(***************************************************************************)
CONSTANTS
    Names,     \* census ids
    Claims,    \* claims; a root hash is a set of claims
    KeySets,   \* possible sets of management keys
    NONE

VARIABLE registry   \* census id -> [keys, claims], or NONE

CensusRec == [keys: KeySets, claims: SUBSET Claims]

\* A census id that is a root hash.
IsRoot(n) == \E r \in SUBSET Claims : r = n

Init == registry \in [Names -> CensusRec \cup {NONE}]

Create(n, ks) ==
    /\ registry[n] = NONE
    /\ registry' = [registry EXCEPT ![n] = [keys |-> ks, claims |-> {}]]

AddClaims(n, cs) ==
    /\ registry[n] # NONE
    /\ registry' = [registry EXCEPT ![n].claims = @ \cup cs]

Delete(n) ==
    /\ registry[n] # NONE
    /\ IsRoot(n) /\ registry[n].claims # n
    /\ registry' = [registry EXCEPT ![n] = NONE]

Next ==
    \E n \in Names :
       \/ \E ks \in KeySets : Create(n, ks)
       \/ \E cs \in SUBSET Claims : AddClaims(n, cs)
       \/ Delete(n)

Spec == Init /\ [][Next]_registry
=============================================================================
