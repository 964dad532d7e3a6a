------------------------------ MODULE MCRecordTxn ------------------------------
(* Instances of RecordTxn for TLC. *)
EXTENDS RecordTxn, TLC

CONSTANTS v1, v2

OneVal == {v1}
TwoVals == {v1, v2}

Symmetry == Permutations(Vals)
===============================================================================
