----------------------------- MODULE MCAppSession -----------------------------
(* Instances of AppSession: two commands at a time, a second worker after the  *)
(* first, and workers that may die or hang at any point.                       *)
EXTENDS AppSession

AllCommands == Commands

(* Enough for each way a call waits: for its answer, for other calls, for a    *)
(* new worker.                                                                 *)
FewCommands == {"unlock", "flush", "lock", "init", "destroy"}

(* Records of any size, after an unlock. *)
RecordCommands == {"unlock", "record"}
===============================================================================
