------------------------------ MODULE RecordStore ------------------------------
(***************************************************************************)
(* What the container promises to the caller of AddRecord, DeleteRecords   *)
(* and Import: a dictionary from record ids to contents.  A transaction    *)
(* stages operations one by one; a commit applies all of them in a single  *)
(* step, and an abort or a crash drops all of them.  Nothing else changes  *)
(* what is stored: no log, no tables, no recovery.                         *)
(***************************************************************************)
EXTENDS Naturals, Sequences, SequencesExt

CONSTANTS
    Vals,       \* contents of records
    Gone        \* the content of a deletion

VARIABLES
    store,      \* the records, a function on the ids in use
    staged      \* the operations of the transaction under way

\* The effect of one operation on a dictionary, and of a sequence of them.
Effect(s, op) ==
    IF op.val = Gone
    THEN [l \in DOMAIN s \ {op.lid} |-> s[l]]
    ELSE [l \in DOMAIN s \cup {op.lid} |-> IF l = op.lid THEN op.val ELSE s[l]]

Applied(s, ops) ==
    LET after[n \in 0 .. Len(ops)] == IF n = 0 THEN s ELSE Effect(after[n - 1], ops[n])
    IN  after[Len(ops)]

Init == /\ store = << >>
        /\ staged = << >>

Stage == /\ Len(staged') = Len(staged) + 1
         /\ Front(staged') = staged
         /\ Last(staged').val \in Vals \cup {Gone}
         /\ UNCHANGED store

Commit == /\ store' = Applied(store, staged)
          /\ staged' = << >>

Drop == /\ staged' = << >>
        /\ UNCHANGED store

Next == \/ Stage
        \/ Commit
        \/ Drop

Spec == Init /\ [][Next]_<<store, staged>>
===============================================================================
