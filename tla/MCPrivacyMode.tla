---------------------------- MODULE MCPrivacyMode ----------------------------
(* Instances of PrivacyMode: two windows, two threads of the blocking pool.   *)
EXTENDS PrivacyMode, TLC

CONSTANTS t1, t2, w1, w2

MCTasks == {t1, t2}
MCWindows == {w1, w2}
Symmetry == Permutations(MCTasks) \cup Permutations(MCWindows)
=============================================================================
