---------------------------- MODULE MCExtentStore ----------------------------
(* Instances of ExtentStore for TLC. *)
EXTENDS ExtentStore, TLC

CONSTANTS h1, h2, h3, h4, r1, r2, r3

TwoHashes == {h1, h2}
ThreeHashes == {h1, h2, h3}
FourHashes == {h1, h2, h3, h4}
TwoRecs == {r1, r2}
ThreeRecs == {r1, r2, r3}

\* The first content takes two cells, the others one.
Sizes == [h \in Hashes |-> IF h = h1 THEN 2 ELSE 1]

Symmetry == Permutations(Recs)
===============================================================================
