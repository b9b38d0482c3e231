---------------------------- MODULE MCLedgerChain ----------------------------
EXTENDS LedgerChain, TLC

CONSTANTS c1, c2, a1, a2, a3

MCClones == {c1, c2}
MCCalls == {a1, a2, a3}
MCRepoOf == a1 :> c1 @@ a2 :> c1 @@ a3 :> c2

\* The calls of clone c1 are alike.
SameClone == Permutations({a1, a2})
=============================================================================
