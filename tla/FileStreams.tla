----------------------------- MODULE FileStreams -----------------------------
(* Export of files to a place the user chose                                 *)
(* (controller/file_controller.rs, state/file_streams.rs): a stream is        *)
(* created, appended to, and finalized by a rename or aborted, each by a      *)
(* command that hands the work to a blocking task and stops waiting after     *)
(* 120 s while the task goes on; whole files are written by one command.      *)
(* The front end's exporters (usePhotoExport.ts, useFileExport.ts) call them  *)
(* one after the other.  Paths, audit and bytes are left out: an export is a  *)
(* number of chunks, and a file is known by the export that wrote it.         *)
EXTENDS Naturals

CONSTANTS
    Targets,      \* files the user chose
    Temps,        \* names of staging files
    TempOf,       \* the staging file of a target: two targets may share one
    Chunks,       \* chunks an export writes
    MaxExports,   \* bound: exports begun
    MaxMishaps    \* bound: failures, timeouts, long pauses, locks, reloads and crashes

ASSUME TempsOfTargets == Targets # {} /\ TempOf \in [Targets -> Temps]
ASSUME BoundsAreNat == Chunks \in Nat /\ MaxExports \in Nat /\ MaxMishaps \in Nat

VARIABLES
    exp,        \* the exports, by number
    begun,      \* how many have begun
    streams,    \* the table of sessions
    temp,       \* staging files: the export that created each, 0 when there is none
    old,        \* staging files older than 24 h
    unseen,     \* the sweep of an export: names it has not looked at yet
    doomed,     \* the sweep of an export: the name it found old and goes on to remove
    disk,       \* targets: the export whose content each has, 0 for what was there
    writing,    \* the export that holds the write mutex, 0 when it is free
    unlocked,   \* there is a container session
    mishaps,
    by,         \* history: the export that replaced each target last, 0 for none
    swept       \* history: the exports whose staging file a sweep took, or an
                \* export that had lost its own in this way

sweep == <<unseen, doomed>>
history == <<by, swept>>
vars == <<exp, begun, streams, temp, old, sweep, disk, writing, unlocked, mishaps, history>>

Exports == 1..MaxExports
None    == [kind |-> "stream", target |-> CHOOSE x \in Targets : TRUE, front |-> "free",
            task |-> "none", appending |-> FALSE, handle |-> FALSE, chunks |-> 0,
            torn |-> FALSE, excused |-> FALSE]

Init ==
    /\ exp = [e \in Exports |-> None]
    /\ begun = 0
    /\ streams = {}
    /\ temp = [p \in Temps |-> 0] /\ old = {}
    /\ unseen = [e \in Exports |-> {}] /\ doomed = [e \in Exports |-> {}]
    /\ disk = [x \in Targets |-> 0]
    /\ writing = 0
    /\ unlocked = TRUE
    /\ mishaps = 0
    /\ by = [x \in Targets |-> 0] /\ swept = {}

-----------------------------------------------------------------------------
Mishap == mishaps < MaxMishaps /\ mishaps' = mishaps + 1

Becomes(e, j) == exp' = [exp EXCEPT ![e] = j]
Temp(e)       == TempOf[exp[e].target]

\* What the caller is told: nothing once it has stopped waiting.
Told(e, call, next) == IF exp[e].front = call THEN next ELSE exp[e].front

\* The command stops waiting; the task it started goes on.
TimesOut(e, call, next) ==
    /\ exp[e].front = call
    /\ Mishap
    /\ Becomes(e, [exp[e] EXCEPT !.front = next, !.excused = @ \/ call = "create"])
    /\ UNCHANGED <<begun, streams, temp, old, disk, writing, unlocked, sweep, history>>

-----------------------------------------------------------------------------
(* write_user_file_stream.                                                   *)

BeginStream(x) ==
    /\ unlocked /\ begun < MaxExports
    /\ begun' = begun + 1
    /\ Becomes(begun + 1, [None EXCEPT !.target = x, !.front = "create", !.task = "create"])
    /\ unseen' = [unseen EXCEPT ![begun + 1] = Temps]
    /\ UNCHANGED <<streams, temp, old, doomed, disk, writing, unlocked, mishaps, history>>

\* The sweep goes through the directory: a name is looked at, and removed in a
\* step of its own when the file it had was old.
Look(e, p) ==
    /\ exp[e].task = "create" /\ p \in unseen[e] /\ doomed[e] = {}
    /\ unseen' = [unseen EXCEPT ![e] = @ \ {p}]
    /\ doomed' = [doomed EXCEPT ![e] = {p} \cap old]
    /\ UNCHANGED <<exp, begun, streams, temp, old, disk, writing, unlocked, mishaps, history>>

\* Whichever file has the name by now is removed.
RemoveOld(e, p) ==
    /\ exp[e].task = "create" /\ p \in doomed[e]
    /\ doomed' = [doomed EXCEPT ![e] = {}]
    /\ \/ /\ temp' = [temp EXCEPT ![p] = 0] /\ old' = old \ {p}
          /\ swept' = swept \cup ({temp[p]} \ {0})
          /\ UNCHANGED mishaps
       \/ Mishap /\ UNCHANGED <<temp, old, swept>>
    /\ UNCHANGED <<exp, begun, streams, unseen, disk, writing, unlocked, by>>

\* Variant: the staging file is truncated when it is there already.
CanCreateAnyway(e) == TRUE

CanCreate(e) == temp[Temp(e)] = 0

\* The session is registered when the caller still waits; else it is dropped.
CreateTemp(e) ==
    /\ exp[e].task = "create" /\ unseen[e] = {} /\ doomed[e] = {}
    /\ CanCreate(e)
    /\ temp' = [temp EXCEPT ![Temp(e)] = e] /\ old' = old \ {Temp(e)}
    /\ Becomes(e, [exp[e] EXCEPT !.task = "none", !.front = Told(e, "create", "open"),
                                 !.handle = (exp[e].front = "create")])
    /\ streams' = IF exp[e].front = "create" THEN streams \cup {e} ELSE streams
    /\ UNCHANGED <<begun, sweep, disk, writing, unlocked, mishaps, history>>

\* The name is taken, or the path or the creation fails.
CreateFails(e) ==
    /\ exp[e].task = "create" /\ unseen[e] \in {{}, Temps} /\ doomed[e] = {}
    /\ IF unseen[e] = {} /\ ~CanCreate(e) THEN UNCHANGED mishaps ELSE Mishap
    /\ unseen' = [unseen EXCEPT ![e] = {}]
    /\ Becomes(e, [exp[e] EXCEPT !.task = "none", !.front = Told(e, "create", "failed")])
    /\ UNCHANGED <<begun, streams, temp, old, doomed, disk, writing, unlocked, history>>

\* A day goes by over a staging file; over one of an export at work seldom.
Ages(p) ==
    /\ temp[p] # 0 /\ p \notin old
    /\ LET j == exp[temp[p]] IN
       IF j.front = "failed" /\ j.task = "none" /\ ~j.appending THEN UNCHANGED mishaps ELSE Mishap
    /\ old' = old \cup {p}
    /\ UNCHANGED <<exp, begun, streams, temp, disk, writing, unlocked, sweep, history>>

-----------------------------------------------------------------------------
(* append_user_file_chunk.                                                   *)

\* The exporter's loop over the chunks.
\* Variant: one chunk too many.
UnsentOrAll(e) == exp[e].chunks <= Chunks

Unsent(e) == exp[e].chunks < Chunks

Append(e) ==
    /\ exp[e].front = "open" /\ Unsent(e)
    /\ Becomes(e, IF unlocked /\ e \in streams
                  THEN [exp[e] EXCEPT !.front = "append", !.appending = TRUE]
                  ELSE [exp[e] EXCEPT !.front = "failing"])
    /\ UNCHANGED <<begun, streams, temp, old, disk, writing, unlocked, mishaps, sweep, history>>

\* A write makes the staging file young again, if it is still there.
AppendWrites(e) ==
    /\ exp[e].appending /\ exp[e].handle
    /\ old' = {p \in old : temp[p] # e}
    /\ Becomes(e, [exp[e] EXCEPT !.appending = FALSE, !.chunks = @ + 1,
                                 !.front = Told(e, "append", "open")])
    /\ UNCHANGED <<begun, streams, temp, disk, writing, unlocked, mishaps, sweep, history>>

\* The write fails half-way, the total would be too large, or the handle is closed.
AppendFails(e) ==
    /\ exp[e].appending
    /\ IF exp[e].handle THEN Mishap ELSE UNCHANGED mishaps
    /\ \E half \in BOOLEAN :
          /\ half => exp[e].handle
          /\ old' = {p \in old : half => temp[p] # e}
          /\ Becomes(e, [exp[e] EXCEPT !.appending = FALSE, !.torn = @ \/ half,
                                       !.front = Told(e, "append", "failing")])
    /\ UNCHANGED <<begun, streams, temp, disk, writing, unlocked, sweep, history>>

\* The exporter cannot read on, or the user cancels.
GiveUp(e) ==
    /\ exp[e].front = "open"
    /\ Becomes(e, [exp[e] EXCEPT !.front = "failing"])
    /\ UNCHANGED <<begun, streams, temp, old, disk, writing, unlocked, mishaps, sweep, history>>

-----------------------------------------------------------------------------
(* finalize_user_file_stream.                                                *)

Finalize(e) ==
    /\ exp[e].front = "open" /\ exp[e].chunks = Chunks
    /\ Becomes(e, IF unlocked /\ e \in streams
                  THEN [exp[e] EXCEPT !.front = "finalize", !.task = "sync"]
                  ELSE [exp[e] EXCEPT !.front = "failing"])
    /\ streams' = IF unlocked THEN streams \ {e} ELSE streams
    /\ UNCHANGED <<begun, temp, old, disk, writing, unlocked, mishaps, sweep, history>>

Sync(e) ==
    /\ exp[e].task = "sync" /\ writing = 0
    /\ writing' = e
    /\ Becomes(e, [exp[e] EXCEPT !.task = "rename", !.handle = FALSE])
    /\ UNCHANGED <<begun, streams, temp, old, disk, unlocked, mishaps, sweep, history>>

\* The staging file stays: the early return is before its removal.
SyncFails(e) ==
    /\ exp[e].task = "sync" /\ writing = 0
    /\ Mishap
    /\ Becomes(e, [exp[e] EXCEPT !.task = "none", !.handle = FALSE, !.excused = TRUE,
                                 !.front = Told(e, "finalize", "failing")])
    /\ UNCHANGED <<begun, streams, temp, old, disk, writing, unlocked, sweep, history>>

\* What the step of an export that has lost its staging file takes from another.
Takes(e) == IF e \in swept THEN {temp[Temp(e)]} \ {0, e} ELSE {}

Rename(e) ==
    /\ exp[e].task = "rename" /\ temp[Temp(e)] # 0
    /\ disk' = [disk EXCEPT ![exp[e].target] = temp[Temp(e)]]
    /\ by' = [by EXCEPT ![exp[e].target] = e]
    /\ temp' = [temp EXCEPT ![Temp(e)] = 0] /\ old' = old \ {Temp(e)}
    /\ swept' = swept \cup Takes(e)
    /\ writing' = 0
    /\ Becomes(e, [exp[e] EXCEPT !.task = "none", !.front = Told(e, "finalize", "ok")])
    /\ UNCHANGED <<begun, streams, sweep, unlocked, mishaps>>

\* Variant: a failed rename leaves the staging file.
RenameFailsOnly(e) ==
    /\ exp[e].task = "rename"
    /\ IF temp[Temp(e)] = 0 THEN UNCHANGED mishaps ELSE Mishap
    /\ writing' = 0
    /\ Becomes(e, [exp[e] EXCEPT !.task = "none", !.front = Told(e, "finalize", "failing")])
    /\ UNCHANGED <<begun, streams, temp, old, disk, unlocked, sweep, history>>

RenameFails(e) ==
    /\ exp[e].task = "rename"
    /\ IF temp[Temp(e)] = 0 THEN UNCHANGED mishaps ELSE Mishap
    /\ Becomes(e, [exp[e] EXCEPT !.task = "unlink"])
    /\ UNCHANGED <<begun, streams, temp, old, disk, writing, unlocked, sweep, history>>

\* The staging file is removed by its name, after a failed rename or by an abort.
After(e) == IF exp[e].front = "finalize" THEN "failing" ELSE Told(e, "abort", "failed")

Unlink(e) ==
    /\ exp[e].task = "unlink"
    /\ temp' = [temp EXCEPT ![Temp(e)] = 0] /\ old' = old \ {Temp(e)}
    /\ swept' = swept \cup Takes(e)
    /\ writing' = IF writing = e THEN 0 ELSE writing
    /\ Becomes(e, [exp[e] EXCEPT !.task = "none", !.front = After(e)])
    /\ UNCHANGED <<begun, streams, sweep, disk, unlocked, mishaps, by>>

UnlinkFails(e) ==
    /\ exp[e].task = "unlink"
    /\ Mishap
    /\ writing' = IF writing = e THEN 0 ELSE writing
    /\ Becomes(e, [exp[e] EXCEPT !.task = "none", !.front = After(e), !.excused = TRUE])
    /\ UNCHANGED <<begun, streams, temp, old, disk, unlocked, sweep, history>>

-----------------------------------------------------------------------------
(* abort_user_file_stream.                                                   *)

Abort(e) ==
    /\ exp[e].front = "failing"
    /\ IF unlocked /\ e \in streams
       THEN /\ streams' = streams \ {e}
            /\ Becomes(e, [exp[e] EXCEPT !.front = "abort", !.task = "close"])
       ELSE /\ Becomes(e, [exp[e] EXCEPT !.front = "failed", !.excused = @ \/ ~unlocked])
            /\ UNCHANGED streams
    /\ UNCHANGED <<begun, temp, old, disk, writing, unlocked, mishaps, sweep, history>>

CloseHandle(e) ==
    /\ exp[e].task = "close"
    /\ Becomes(e, [exp[e] EXCEPT !.task = "unlink", !.handle = FALSE])
    /\ UNCHANGED <<begun, streams, temp, old, disk, writing, unlocked, mishaps, sweep, history>>

-----------------------------------------------------------------------------
(* write_user_file, write_file_bytes: a staging file of its own, a rename.   *)

BeginWhole(x) ==
    /\ begun < MaxExports
    /\ begun' = begun + 1
    /\ Becomes(begun + 1, [None EXCEPT !.kind = "whole", !.target = x, !.front = "write",
                                       !.task = "write"])
    /\ UNCHANGED <<streams, temp, old, disk, writing, unlocked, mishaps, sweep, history>>

WholeWrites(e) ==
    /\ exp[e].task = "write" /\ writing = 0
    /\ writing' = e
    /\ Becomes(e, [exp[e] EXCEPT !.task = "replace", !.chunks = Chunks])
    /\ UNCHANGED <<begun, streams, temp, old, disk, unlocked, mishaps, sweep, history>>

WholeReplaces(e) ==
    /\ exp[e].task = "replace"
    /\ disk' = [disk EXCEPT ![exp[e].target] = e] /\ by' = [by EXCEPT ![exp[e].target] = e]
    /\ writing' = 0
    /\ Becomes(e, [exp[e] EXCEPT !.task = "none", !.front = Told(e, "write", "ok")])
    /\ UNCHANGED <<begun, streams, temp, old, sweep, unlocked, mishaps, swept>>

\* Writing, syncing or renaming fails; the staging file is removed.
WholeFails(e) ==
    /\ exp[e].task = "replace"
    /\ Mishap
    /\ writing' = 0
    /\ Becomes(e, [exp[e] EXCEPT !.task = "none", !.front = Told(e, "write", "failed")])
    /\ UNCHANGED <<begun, streams, temp, old, disk, unlocked, sweep, history>>

-----------------------------------------------------------------------------
(* The surroundings.                                                         *)

Lock ==
    /\ unlocked /\ Mishap
    /\ unlocked' = FALSE
    /\ UNCHANGED <<exp, begun, streams, temp, old, disk, writing, sweep, history>>

Unlock ==
    /\ ~unlocked
    /\ unlocked' = TRUE
    /\ UNCHANGED <<exp, begun, streams, temp, old, disk, writing, mishaps, sweep, history>>

\* The page is reloaded: the exporter is gone, the tasks and the table are not.
Reload(e) ==
    /\ exp[e].front \notin {"free", "ok", "failed"}
    /\ Mishap
    /\ Becomes(e, [exp[e] EXCEPT !.front = "failed", !.excused = TRUE])
    /\ UNCHANGED <<begun, streams, temp, old, disk, writing, unlocked, sweep, history>>

Crash ==
    /\ Mishap
    /\ exp' = [e \in Exports |->
                 IF exp[e].front = "free" THEN exp[e]
                 ELSE [exp[e] EXCEPT !.task = "none", !.appending = FALSE, !.handle = FALSE,
                                     !.front = IF @ = "ok" THEN @ ELSE "failed",
                                     !.excused = TRUE]]
    /\ unseen' = [e \in Exports |-> {}] /\ doomed' = [e \in Exports |-> {}]
    /\ streams' = {} /\ writing' = 0 /\ unlocked' = FALSE
    /\ UNCHANGED <<begun, temp, old, disk, history>>

-----------------------------------------------------------------------------
Exporter(e) ==
    \/ Append(e) \/ GiveUp(e) \/ Finalize(e) \/ Abort(e) \/ Reload(e)
    \/ TimesOut(e, "create", "failed") \/ TimesOut(e, "append", "failing")
    \/ TimesOut(e, "finalize", "failing") \/ TimesOut(e, "abort", "failed")
    \/ TimesOut(e, "write", "failed")

Task(e) ==
    \/ \E p \in Temps : Look(e, p) \/ RemoveOld(e, p)
    \/ CreateTemp(e) \/ CreateFails(e) \/ AppendWrites(e) \/ AppendFails(e)
    \/ Sync(e) \/ SyncFails(e) \/ Rename(e) \/ RenameFails(e)
    \/ Unlink(e) \/ UnlinkFails(e) \/ CloseHandle(e)
    \/ WholeWrites(e) \/ WholeReplaces(e) \/ WholeFails(e)

Next ==
    \/ \E x \in Targets : BeginStream(x) \/ BeginWhole(x)
    \/ \E e \in Exports : Exporter(e) \/ Task(e)
    \/ \E p \in Temps : Ages(p)
    \/ Lock \/ Unlock \/ Crash

Spec == Init /\ [][Next]_vars

-----------------------------------------------------------------------------
(* Properties.                                                               *)

Fronts == {"free", "create", "open", "append", "finalize", "failing", "abort", "write",
           "ok", "failed"}
Works  == {"none", "create", "sync", "rename", "unlink", "close", "write", "replace"}

ExportsOK ==
    /\ exp \in [Exports -> [kind : {"stream", "whole"}, target : Targets, front : Fronts,
                            task : Works, appending : BOOLEAN, handle : BOOLEAN,
                            chunks : 0..Chunks, torn : BOOLEAN,
                            excused : BOOLEAN]]
    /\ begun \in 0..MaxExports
    /\ streams \subseteq Exports
    /\ temp \in [Temps -> 0..MaxExports] /\ old \subseteq Temps
    /\ disk \in [Targets -> 0..MaxExports]
    /\ writing \in 0..MaxExports
    /\ unlocked \in BOOLEAN
    /\ mishaps \in Nat

SweepOK ==
    /\ unseen \in [Exports -> SUBSET Temps] /\ doomed \in [Exports -> SUBSET Temps]
    /\ by \in [Targets -> 0..MaxExports] /\ swept \subseteq Exports

TypeOK == ExportsOK /\ SweepOK

\* A target that was replaced holds the whole of what the export that did it
\* wrote for it, never a part, a mixture or another one's file, whatever fails,
\* times out, pauses or is still under way, and also when targets share a staging
\* name (file_controller.rs:1555-1557) - but for an export whose staging file
\* was removed under it by the sweep of another, or that lost it to such a one:
\* what a sweep breaks goes no further.
TargetIsWhole ==
    \A x \in Targets : by[x] # 0 /\ by[x] \notin swept =>
        /\ disk[x] = by[x]
        /\ exp[by[x]].target = x /\ exp[by[x]].chunks = Chunks /\ ~exp[by[x]].torn

\* A failed export leaves no staging file once its tasks are over, but for a
\* removal or a sync that failed, a creation nobody waited for, a lock, a reload
\* or a crash in between.
NoResidue ==
    \A p \in Temps : temp[p] # 0 =>
        LET j == exp[temp[p]] IN j.front = "failed" /\ j.task = "none" => j.excused
=============================================================================
