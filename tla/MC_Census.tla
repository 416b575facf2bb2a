------------------------------ MODULE MC_Census ------------------------------
EXTENDS Census, TLC

CONSTANTS u1, c1, c2, k1, k2, h1, h2

MCUserNames == {u1}
MCClaims == {c1, c2}
MCKeys == {k1, k2}
MCOneKey == {k1}
MCHandlers == {h1, h2}
MCOneHandler == {h1}

\* Claims are interchangeable: a root-hash name is a set of claims and is
\* permuted with them.
MCSymmetry == Permutations(MCClaims)

\* A namespaces.json holding one census managed by k1.
MCSavedNs == <<[name |-> u1, keys |-> {k1}]>>
=============================================================================
