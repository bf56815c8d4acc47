------------------------- MODULE MCActionGovernance -------------------------
EXTENDS ActionGovernance, TLC

CONSTANTS a1, a2, k1, k2, u1, maker, h1, h2, docs, credit

\* Two runs of one case propose the same.
SameKind == a1 :> docs @@ a2 :> docs

MCSymmetry == Permutations({h1, h2}) \cup Permutations({k1, k2})
=============================================================================
