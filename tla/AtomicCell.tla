------------------------------ MODULE AtomicCell ------------------------------
(***************************************************************************)
(* What the superblock promises to the rest of the container: one durable  *)
(* value that a commit replaces in a single step.  A commit proposes a     *)
(* value, at some instant the proposal becomes the value, and a crash or a *)
(* failed commit withdraws a proposal that has not taken effect.  There    *)
(* are no replicas here: SuperBlock implements this with three of them.    *)
(***************************************************************************)
CONSTANT Value

VARIABLES
    value,      \* what an unlock would read now
    proposed    \* what the commit under way wants it to be

cell == <<value, proposed>>

Init == /\ value \in Value
        /\ proposed = value

Propose == /\ proposed = value
           /\ proposed' \in Value
           /\ UNCHANGED value

\* The instant at which the commit takes effect.
Switch == /\ value' = proposed
          /\ UNCHANGED proposed

\* A crash or a failure before that instant: the old value stays.
Withdraw == /\ proposed' = value
            /\ UNCHANGED value

Next == \/ Propose
        \/ Switch
        \/ Withdraw

Spec == Init /\ [][Next]_cell
===============================================================================
