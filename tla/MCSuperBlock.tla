----------------------------- MODULE MCSuperBlock -----------------------------
(* Instances of SuperBlock for TLC. *)
EXTENDS SuperBlock, TLC

CONSTANTS c1, c2, b1, b2

\* Credentials are interchangeable, and so are contents: the code compares them
\* and never orders them.
Symmetry == Permutations({c1, c2}) \cup Permutations({b1, b2})
===============================================================================
