---------------------------- MODULE MCImportSession ----------------------------
(* Instances of ImportSession for TLC. *)
EXTENDS ImportSession

CONSTANTS h1, h2

OneHash == {h1}
TwoHashes == {h1, h2}

Symmetry == Permutations(Hashes)
===============================================================================
