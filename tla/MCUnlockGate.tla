----------------------------- MODULE MCUnlockGate -----------------------------
(* Instances of UnlockGate: small thresholds and times, two commands.          *)
EXTENDS UnlockGate, TLC

CONSTANTS c1, c2

MCCalls == {c1, c2}
Symmetry == Permutations(MCCalls)
===============================================================================
