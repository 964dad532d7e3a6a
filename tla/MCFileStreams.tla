---------------------------- MODULE MCFileStreams ----------------------------
(* Instances of FileStreams: two files of one name but for the extension,     *)
(* which share the name of the staging file.                                  *)
EXTENDS FileStreams, TLC

CONSTANTS x1, x2, p1

MCTargets == {x1, x2}
MCTemps == {p1}
Shared == [x \in MCTargets |-> p1]
=============================================================================
