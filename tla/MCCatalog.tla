----------------------------- MODULE MCCatalog ------------------------------
(***************************************************************************)
(* Instances of Catalog.                                                   *)
(***************************************************************************)
EXTENDS Catalog, TLC

CONSTANTS s1, s2, b1, p1, a, b, r1, r2

OneRequest == {r1}
TwoRequests == {r1, r2}

Symmetry == Permutations(Stone) \cup Permutations(Slug) \cup Permutations(Request)
=============================================================================
