------------------------- MODULE MCProfileSession -------------------------
EXTENDS ProfileSession

CONSTANTS t1, t2, Other, mine

\* The tablets are alike.
Tablets == Permutations(Tablet)
=============================================================================
