----------------------------- MODULE ImportSession -----------------------------
(* The import of photos and files: the commands of                             *)
(* controller/verthys_batch_controller.rs, the one writer thread of            *)
(* state/import_writer.rs that executes their commands, the session of         *)
(* repository/verthys_wal.rs, and the collection of chunks no record owns.     *)
(*                                                                             *)
(* A large file is uploaded as chunks (records of their own) and then as one   *)
(* record that lists their ids.  The log says which hashes are stored, so that *)
(* an import that is taken up again skips them; the ledger says which chunks   *)
(* are owned, so that the chunks of an upload that came to nothing can be      *)
(* deleted.  The three files and the container are written one after the       *)
(* other: a crash, a failed write or a lost answer may come between any two.   *)
EXTENDS ImportLog, FiniteSets

CONSTANTS
    NoSession, Idle,   \* no import session; nobody at work
    CallsOverlap,      \* whether begin, collection and forgetting may run at the same time
    MaxId,             \* bound: ids the container may give out
    MaxLog,            \* bound: lines of the log
    MaxJobs,           \* bound: commands on their way to the writer
    MaxCrashes,        \* bound: crashes of the application
    MaxFaults          \* bound: failed writes and lost answers together

ASSUME ImportAssumption ==
    /\ CallsOverlap \in BOOLEAN
    /\ MaxId \in Nat /\ MaxId >= 2   \* an import made before has used two ids
    /\ MaxLog \in Nat /\ MaxJobs \in Nat
    /\ MaxCrashes \in Nat /\ MaxFaults \in Nat

VARIABLES
    log, snap, file,    \* the three files: the log, its snapshot, the ledger
    metas, chunks,      \* the container: records of files, and chunk |-> hash of its file
    nextId,             \* the id the container gives out next
    session,            \* the import session in memory, or NoSession
    jobs,               \* commands handed to a writer and not started
    exec,               \* the command a writer executes under the session lock, or Idle
    begin,              \* an import_begin in progress, or Idle
    gc,                 \* a collection in progress, or Idle
    crashes, faults,    \* how many of each were used up
    claimed,            \* history: records whose owner claim reached the disk and was not taken back
    collected,          \* history: chunks a collection has deleted
    promised,           \* history: hashes whose line reached the disk and that were not forgotten
    owed,               \* history: hashes of deleted records that are still to be forgotten
    gap,                \* history: the snapshot was not written after the log had been cut
    excused             \* history: hashes whose outcome was lost to a crash or a fault,
                        \* or whose new record a late tombstone forgot

disk == <<log, snap, file>>
vault == <<metas, chunks, nextId>>
budget == <<crashes, faults>>
history == <<claimed, collected, promised, owed, gap, excused>>
vars == <<disk, vault, session, jobs, exec, begin, gc, budget, history>>

Ids == 1..MaxId
Refs == (SUBSET Ids) \cup {NoRefs}
Stored(h) == {r \in DOMAIN metas : metas[r].hash = h}
RefsOf(refs) == IF refs = NoRefs THEN {} ELSE refs

Owners == Ids \cup {Unowned, Unverifiable}
Sessions == [known : SUBSET Hashes, issued : Partial(Hashes, Ids), ledger : Partial(Ids, Owners)]
ASSUME NoSessionIsNone == NoSession \notin Sessions

Job == [kind : {"append"}, hash : Hashes, refs : Refs]
       \cup [kind : {"chunk", "removed"}, hash : Hashes]
       \cup [kind : {"end"}, success : BOOLEAN]

Replays == [ids : Partial(Hashes, Ids), owners : Partial(Ids, Ids), unsettleable : BOOLEAN]
ASSUME IdleIsNone ==
    /\ Idle \notin [kind : {"append"}, job : Job, at : {"commit"}, id : Ids]
    /\ Idle \notin [kind : {"end"}, at : {"snapshot"}, ids : Partial(Hashes, Ids)]
    /\ Idle \notin [at : {"snapshot"}, replay : Replays, ledger : Partial(Ids, Owners)]

(* A write of a file fails, or an answer of the worker is lost. *)
Fault == faults < MaxFaults /\ faults' = faults + 1
NoFault == UNCHANGED faults

Append1(e) == Len(log) < MaxLog /\ log' = Append(log, e)
(* The disk is full: nothing of the line is there, or a part of it is. *)
AppendFails == Fault /\ \/ UNCHANGED log
                        \/ Append1(TornLine)

-------------------------------------------------------------------------------
(* import_begin.  The check that no session is active, the load, the cut of    *)
(* the log, the snapshot and the installation of the session are separate      *)
(* steps; nothing keeps a second caller out in between.                        *)

Quiet == CallsOverlap \/ (begin = Idle /\ gc = Idle)

(* Whoever asks whether a session is active waits for the session lock, which  *)
(* a writer holds for the whole of its command.                                *)
NoActiveSession == session = NoSession /\ exec = Idle

BeginCheck ==
    /\ begin = Idle /\ Quiet
    /\ NoActiveSession
    /\ begin' = [at |-> "load"]
    /\ UNCHANGED <<disk, vault, session, jobs, exec, gc, budget, history>>

(* The claims of the last session go into the ledger, and onto the disk,       *)
(* before the log that holds them is cut.                                      *)
BeginLoad ==
    /\ begin # Idle /\ begin.at = "load"
    /\ LET replay == Load(snap, log)
           settled == Settled(replay, file)
       IN  \/ /\ Loads(log) /\ NoFault
              /\ file' = settled
              /\ begin' = [at |-> "cut", replay |-> replay, ledger |-> settled]
           \/ /\ ~Loads(log) /\ NoFault
              /\ begin' = Idle /\ UNCHANGED file
           \/ /\ Loads(log) /\ settled # file /\ Fault
              /\ begin' = Idle /\ UNCHANGED file
    /\ UNCHANGED <<log, snap, vault, session, jobs, exec, gc, crashes, history>>

BeginCut ==
    /\ begin # Idle /\ begin.at = "cut"
    /\ log' = <<BeginLine>>
    /\ begin' = [begin EXCEPT !.at = "snapshot"]
    /\ UNCHANGED <<snap, file, vault, session, jobs, exec, gc, budget, history>>

BeginSnapshot ==
    /\ begin # Idle /\ begin.at = "snapshot"
    /\ \/ /\ snap' = begin.replay.ids /\ NoFault
          /\ begin' = [begin EXCEPT !.at = "install"]
          /\ UNCHANGED gap
       \/ /\ Fault
          /\ begin' = Idle /\ gap' = TRUE
          /\ UNCHANGED snap
    /\ UNCHANGED <<log, file, vault, session, jobs, exec, gc, crashes,
                   claimed, collected, promised, owed, excused>>

(* The session that is there is overwritten. *)
BeginInstall ==
    /\ begin # Idle /\ begin.at = "install"
    /\ exec = Idle
    /\ session' = [known |-> DOMAIN begin.replay.ids, issued |-> Empty, ledger |-> begin.ledger]
    /\ begin' = Idle
    /\ UNCHANGED <<disk, vault, jobs, exec, gc, budget, history>>

-------------------------------------------------------------------------------
(* The writer.  A command is accepted while a session is active; its caller    *)
(* may stop waiting for it, but nothing takes the command back.  A writer that *)
(* is silent for too long is replaced: it answers its queue with an error, but *)
(* finishes the command it executes, so that commands of two writers may       *)
(* overtake one another.  The session lock admits one at a time.               *)

(* Variant: a queue without a limit. *)
SubmitUnbounded(j) ==
    /\ session # NoSession /\ exec = Idle
    /\ jobs' = jobs \cup {j}
    /\ UNCHANGED <<disk, vault, session, exec, begin, gc, budget, history>>

Submit(j) ==
    /\ session # NoSession /\ exec = Idle
    /\ Cardinality(jobs) < MaxJobs /\ j \notin jobs
    /\ jobs' = jobs \cup {j}
    /\ UNCHANGED <<disk, vault, session, exec, begin, gc, budget, history>>

(* The front end uploads chunks of a file, then the record that lists them; an *)
(* id it still holds from an earlier session may be among them.                *)
SubmitChunk(h) == Submit([kind |-> "chunk", hash |-> h])
SubmitRecord(h) ==
    \E refs \in {{}, NoRefs} \cup {{c} : c \in {d \in DOMAIN chunks : chunks[d] = h}} :
        Submit([kind |-> "append", hash |-> h, refs |-> refs])
SubmitForget(h) == h \in owed /\ Submit([kind |-> "removed", hash |-> h])
SubmitEnd(success) == Submit([kind |-> "end", success |-> success])

(* A writer that was declared dead, or finds no session, refuses the command. *)
Refuse(j) ==
    /\ j \in jobs
    /\ jobs' = jobs \ {j}
    /\ UNCHANGED <<disk, vault, session, exec, begin, gc, budget, history>>

Take(j) == j \in jobs /\ jobs' = jobs \ {j} /\ session # NoSession /\ exec = Idle

-------------------------------------------------------------------------------
(* append: one record.  A hash that is known is skipped; a reference to a      *)
(* chunk this session did not give out is refused.  The pending line is not    *)
(* forced to the disk, the committed line is.                                  *)

(* Variant: a known hash is not skipped. *)
AppendTakeKnown(j) ==
    /\ Take(j) /\ j.kind = "append"
    /\ exec' = [kind |-> "append", job |-> j,
                at |-> IF RefsOf(j.refs) \subseteq {session.issued[h] : h \in DOMAIN session.issued}
                       THEN "add" ELSE "close"]
    /\ UNCHANGED <<disk, vault, session, begin, gc, budget, history>>

AppendTake(j) ==
    /\ Take(j) /\ j.kind = "append"
    /\ exec' = [kind |-> "append", job |-> j,
                at |-> IF /\ j.hash \notin session.known
                          /\ RefsOf(j.refs) \subseteq {session.issued[h] : h \in DOMAIN session.issued}
                       THEN "add" ELSE "close"]
    /\ UNCHANGED <<disk, vault, session, begin, gc, budget, history>>

At(kind, at) == exec # Idle /\ exec.kind = kind /\ exec.at = at

AppendAdd ==
    /\ At("append", "add")
    /\ \/ /\ nextId \in Ids
          /\ metas' = Over(All({nextId}, [hash |-> exec.job.hash, refs |-> RefsOf(exec.job.refs)]), metas)
          /\ nextId' = nextId + 1
          /\ \/ /\ exec' = [kind |-> "append", job |-> exec.job, at |-> "commit", id |-> nextId]
                /\ NoFault /\ UNCHANGED excused
             \/ \* stored, but the answer came too late or not at all
                /\ exec' = [exec EXCEPT !.at = "close"]
                /\ Fault /\ excused' = excused \cup {exec.job.hash}
       \/ /\ exec' = [exec EXCEPT !.at = "close"]
          /\ Fault /\ UNCHANGED <<metas, nextId, excused>>
    /\ UNCHANGED <<disk, chunks, session, jobs, begin, gc, crashes,
                   claimed, collected, promised, owed, gap>>

(* The hash counts as stored in this session even when its line could not be   *)
(* written.                                                                    *)
AppendCommit ==
    /\ At("append", "commit")
    /\ LET h == exec.job.hash
           refs == exec.job.refs
       IN  /\ \/ /\ Append1(CommittedLine(h, exec.id, refs)) /\ NoFault
                 /\ claimed' = IF refs = NoRefs THEN claimed ELSE claimed \cup {exec.id}
                 /\ promised' = promised \cup {h}
                 /\ UNCHANGED excused
              \/ /\ AppendFails
                 /\ excused' = excused \cup {h}
                 /\ UNCHANGED <<claimed, promised>>
           /\ session' = [session EXCEPT !.known = @ \cup {h},
                                         !.ledger = Over(All(RefsOf(refs), exec.id), @)]
    /\ exec' = [exec EXCEPT !.at = "close"]
    /\ UNCHANGED <<snap, file, vault, jobs, begin, gc, crashes, collected, owed, gap>>

(* The checkpoint and the ledger; the batch succeeds whatever comes of them. *)
AppendClose ==
    /\ At("append", "close")
    /\ exec' = Idle
    /\ \/ file' = session.ledger /\ NoFault
       \/ Fault /\ UNCHANGED file
    /\ UNCHANGED <<log, snap, vault, session, jobs, begin, gc, crashes, history>>

-------------------------------------------------------------------------------
(* chunk: one chunk, unless this session has uploaded it before. *)

ChunkTake(j) ==
    /\ Take(j) /\ j.kind = "chunk"
    /\ \/ /\ j.hash \in DOMAIN session.issued /\ NoFault
          /\ UNCHANGED <<chunks, nextId, session>>
       \/ /\ j.hash \notin DOMAIN session.issued
          /\ nextId \in Ids /\ nextId' = nextId + 1
          /\ chunks' = Over(All({nextId}, j.hash), chunks)
          /\ \/ /\ NoFault
                /\ session' = [session EXCEPT !.issued = Over(All({j.hash}, nextId), @),
                                              !.ledger = Over(All({nextId}, Unowned), @)]
             \/ Fault /\ UNCHANGED session
    /\ exec' = [kind |-> "chunk", at |-> "save"]
    /\ UNCHANGED <<disk, metas, begin, gc, crashes, history>>

ChunkSave ==
    /\ At("chunk", "save")
    /\ exec' = Idle
    /\ \/ file' = session.ledger /\ NoFault
       \/ Fault /\ UNCHANGED file
    /\ UNCHANGED <<log, snap, vault, session, jobs, begin, gc, crashes, history>>

(* A tombstone names a hash: with it goes the claim of whichever record the    *)
(* log holds for the hash.                                                     *)
Forgotten(h) ==
    /\ claimed' = claimed \ Stored(h)
    /\ promised' = promised \ {h}
    /\ owed' = owed \ {h}

(* removed: a file was deleted, its hash may be imported again.  The command    *)
(* says nothing of the session it was sent in: one that waited in a queue       *)
(* until the hash had been forgotten and the file imported again by a later     *)
(* session forgets the new record.                                              *)
RemovedTake(j) ==
    /\ Take(j) /\ j.kind = "removed"
    /\ \/ /\ Append1(RemovedLine({j.hash})) /\ NoFault
          /\ session' = [session EXCEPT !.known = @ \ {j.hash}]
          /\ Forgotten(j.hash)
          /\ excused' = IF Stored(j.hash) = {} THEN excused ELSE excused \cup {j.hash}
       \/ /\ AppendFails
          /\ UNCHANGED <<session, claimed, promised, owed, excused>>
    /\ UNCHANGED <<snap, file, vault, exec, begin, gc, crashes, collected, gap>>

-------------------------------------------------------------------------------
(* end: a session that ended well saves the ledger first, or goes on; then the *)
(* end line, and the log is replaced by its skeleton and a snapshot.           *)

EndTake(j) ==
    /\ Take(j) /\ j.kind = "end"
    /\ \/ /\ j.success /\ NoFault
          /\ file' = session.ledger
          /\ exec' = [kind |-> "end", at |-> "line", success |-> TRUE]
          /\ session' = NoSession
       \/ /\ j.success /\ Fault
          /\ UNCHANGED <<file, exec, session>>
       \/ /\ ~j.success /\ NoFault
          /\ exec' = [kind |-> "end", at |-> "line", success |-> FALSE]
          /\ session' = NoSession /\ UNCHANGED file
    /\ UNCHANGED <<log, snap, vault, begin, gc, crashes, history>>

EndEntry ==
    /\ At("end", "line")
    /\ \/ /\ Append1(EndLine) /\ NoFault
          /\ exec' = IF exec.success THEN [kind |-> "end", at |-> "compact"] ELSE Idle
       \/ AppendFails /\ exec' = Idle
    /\ UNCHANGED <<snap, file, vault, session, jobs, begin, gc, crashes, history>>

(* The new log takes the place of the old one before the snapshot is written. *)
EndCompact ==
    /\ At("end", "compact")
    /\ \/ /\ Loads(log)
          /\ log' = Skeleton
          /\ exec' = [kind |-> "end", at |-> "snapshot", ids |-> Load(snap, log).ids]
       \/ /\ ~Loads(log)
          /\ exec' = Idle /\ UNCHANGED log
    /\ UNCHANGED <<snap, file, vault, session, jobs, begin, gc, budget, history>>

EndSnapshot ==
    /\ At("end", "snapshot")
    /\ exec' = Idle
    /\ \/ snap' = exec.ids /\ NoFault /\ UNCHANGED gap
       \/ Fault /\ gap' = TRUE /\ UNCHANGED snap
    /\ UNCHANGED <<log, file, vault, session, jobs, begin, gc, crashes,
                   claimed, collected, promised, owed, excused>>

-------------------------------------------------------------------------------
(* The rest of the front end's calls.                                          *)

(* A file is deleted with the chunks it lists, in one batch of the worker that *)
(* is refused as a whole when a record is missing.                             *)
Delete(r) ==
    /\ r \in DOMAIN metas /\ metas[r].refs \subseteq DOMAIN chunks
    /\ metas' = Without(metas, {r})
    /\ chunks' = Without(chunks, metas[r].refs)
    /\ owed' = owed \cup {metas[r].hash}
    /\ UNCHANGED <<disk, nextId, session, jobs, exec, begin, gc, budget,
                   claimed, collected, promised, gap, excused>>

(* forget_hashes without a session appends to the log itself; without a log    *)
(* there is nothing to do.  The log always exists once an import has begun.    *)
Forget(h) ==
    /\ NoActiveSession /\ Quiet
    /\ h \in owed
    /\ \/ /\ Append1(RemovedLine({h})) /\ NoFault
          /\ Forgotten(h)
       \/ /\ AppendFails
          /\ UNCHANGED <<claimed, promised, owed>>
    /\ UNCHANGED <<snap, file, vault, session, jobs, exec, begin, gc, crashes,
                   collected, gap, excused>>

(* force_close_import_session drops the session without an end line. *)
ForceClose ==
    /\ session # NoSession /\ exec = Idle
    /\ session' = NoSession
    /\ UNCHANGED <<disk, vault, jobs, exec, begin, gc, budget, history>>

(* dev_reset_wal removes log and snapshot and leaves the ledger: what only the *)
(* log claimed is not claimed any more.                                        *)
DevReset ==
    /\ NoActiveSession /\ begin = Idle /\ gc = Idle
    /\ log' = <<>> /\ snap' = Empty
    /\ claimed' = {r \in claimed : \A c \in DOMAIN file : file[c] = Unowned =>
                                     r \notin DOMAIN metas \/ c \notin metas[r].refs}
    /\ excused' = excused \cup promised
    /\ promised' = {}
    /\ UNCHANGED <<file, vault, session, jobs, exec, begin, gc, budget,
                   collected, owed, gap>>

-------------------------------------------------------------------------------
(* gc_orphan_chunks: check that no session is active, settle the ledger from   *)
(* the log, load it again, delete its garbage in the container, take the       *)
(* garbage out of the ledger.                                                  *)

GcCheck ==
    /\ gc = Idle /\ Quiet
    /\ NoActiveSession
    /\ gc' = [at |-> "settle"]
    /\ UNCHANGED <<disk, vault, session, jobs, exec, begin, budget, history>>

GcSettle ==
    /\ gc # Idle /\ gc.at = "settle"
    /\ LET settled == Settled(Load(snap, log), file)
       IN  \/ /\ Loads(log) /\ NoFault
              /\ file' = settled /\ gc' = [at |-> "load"]
           \/ /\ ~Loads(log) /\ NoFault
              /\ gc' = Idle /\ UNCHANGED file
           \/ /\ Loads(log) /\ settled # file /\ Fault
              /\ gc' = Idle /\ UNCHANGED file
    /\ UNCHANGED <<log, snap, vault, session, jobs, exec, begin, crashes, history>>

GcLoad ==
    /\ gc # Idle /\ gc.at = "load"
    /\ gc' = IF Garbage(file) = {} THEN Idle ELSE [at |-> "delete", ledger |-> file]
    /\ UNCHANGED <<disk, vault, session, jobs, exec, begin, budget, history>>

GcDelete ==
    /\ gc # Idle /\ gc.at = "delete"
    /\ LET garbage == Garbage(gc.ledger)
       IN  \/ /\ garbage \subseteq DOMAIN chunks
              /\ chunks' = Without(chunks, garbage)
              /\ collected' = collected \cup garbage
              /\ \/ gc' = [gc EXCEPT !.at = "save"] /\ NoFault
                 \/ gc' = Idle /\ Fault
           \/ /\ ~ garbage \subseteq DOMAIN chunks
              /\ gc' = Idle /\ NoFault /\ UNCHANGED <<chunks, collected>>
    /\ UNCHANGED <<disk, metas, nextId, session, jobs, exec, begin, crashes,
                   claimed, promised, owed, gap, excused>>

GcSave ==
    /\ gc # Idle /\ gc.at = "save"
    /\ gc' = Idle
    /\ \/ file' = Without(gc.ledger, Garbage(gc.ledger)) /\ NoFault
       \/ Fault /\ UNCHANGED file
    /\ UNCHANGED <<log, snap, vault, session, jobs, exec, begin, crashes, history>>

-------------------------------------------------------------------------------
(* The application ends at any moment.  Files are replaced by rename, so that  *)
(* each is the old one or the new one; only the end of the log may be cut      *)
(* short, when a line was being written.                                       *)
Writing == \/ At("append", "add") \/ At("append", "commit") \/ At("end", "line")

Crash ==
    /\ crashes < MaxCrashes /\ crashes' = crashes + 1
    /\ \/ UNCHANGED log
       \/ Writing /\ Append1(TornLine)
    /\ gap' = (gap \/ (begin # Idle /\ begin.at = "snapshot") \/ At("end", "snapshot"))
    /\ excused' = IF At("append", "commit") THEN excused \cup {exec.job.hash} ELSE excused
    /\ session' = NoSession /\ jobs' = {}
    /\ exec' = Idle /\ begin' = Idle /\ gc' = Idle
    /\ UNCHANGED <<snap, file, vault, faults, claimed, collected, promised, owed>>

-------------------------------------------------------------------------------
(* A container without an import, or one whose last import was made by a       *)
(* client that did not write chunk lists.                                      *)
Init ==
    /\ \/ /\ log = <<>> /\ metas = Empty /\ chunks = Empty /\ nextId = 1
          /\ file = Empty /\ claimed = {} /\ promised = {}
       \/ \E h \in Hashes :
            /\ log = <<BeginLine, CommittedLine(h, 2, NoRefs)>>
            /\ metas = All({2}, [hash |-> h, refs |-> {1}]) /\ chunks = All({1}, h) /\ nextId = 3
            /\ file = All({1}, Unowned) /\ claimed = {2} /\ promised = {h}
    /\ snap = Empty
    /\ session = NoSession /\ jobs = {}
    /\ exec = Idle /\ begin = Idle /\ gc = Idle
    /\ crashes = 0 /\ faults = 0
    /\ collected = {} /\ owed = {} /\ gap = FALSE /\ excused = {}

Next ==
    \/ BeginCheck \/ BeginLoad \/ BeginCut \/ BeginSnapshot \/ BeginInstall
    \/ \E h \in Hashes : SubmitChunk(h) \/ SubmitRecord(h) \/ SubmitForget(h) \/ Forget(h)
    \/ \E success \in BOOLEAN : SubmitEnd(success)
    \/ \E j \in jobs : \/ Refuse(j) \/ AppendTake(j) \/ ChunkTake(j)
                       \/ RemovedTake(j) \/ EndTake(j)
    \/ AppendAdd \/ AppendCommit \/ AppendClose \/ ChunkSave
    \/ EndEntry \/ EndCompact \/ EndSnapshot
    \/ \E r \in DOMAIN metas : Delete(r)
    \/ ForceClose \/ DevReset
    \/ GcCheck \/ GcSettle \/ GcLoad \/ GcDelete \/ GcSave
    \/ Crash

Spec == Init /\ [][Next]_vars

-------------------------------------------------------------------------------
TypeOK ==
    /\ DOMAIN file \subseteq Ids /\ \A c \in DOMAIN file : file[c] \in Owners
    /\ DOMAIN snap \subseteq Hashes
    /\ DOMAIN metas \subseteq Ids /\ DOMAIN chunks \subseteq Ids
    /\ DOMAIN metas \cap DOMAIN chunks = {}
    /\ \A r \in DOMAIN metas : metas[r].hash \in Hashes /\ metas[r].refs \subseteq Ids
    /\ nextId \in 1..(MaxId + 1)
    /\ jobs \subseteq Job /\ Cardinality(jobs) <= MaxJobs
    /\ session # NoSession => /\ session.known \subseteq Hashes
                              /\ DOMAIN session.issued \subseteq Hashes
                              /\ DOMAIN session.ledger \subseteq Ids

(* Whatever crashes, failed writes and lost answers come between the container,*)
(* the log and the ledger: once the log has said on disk that a record owns    *)
(* its chunks, and until its hash is forgotten, no collection deletes one.     *)
ClaimedChunksStay ==
    \A r \in claimed \cap DOMAIN metas : metas[r].refs \cap collected = {}

(* Between the cut of the log and its snapshot the files say too little. *)
Recovering == (begin # Idle /\ begin.at = "snapshot") \/ At("end", "snapshot")

(* A hash an import would skip is stored, or its record was deleted and the    *)
(* hash is still to be forgotten: a file is never skipped that is not there.   *)
(* A snapshot left behind by a cut log may bring a forgotten hash back.        *)
SkippedIsStored ==
    gap \/ /\ Loads(log) /\ ~Recovering =>
              \A h \in DOMAIN Load(snap, log).ids : Stored(h) # {} \/ h \in owed
           /\ session # NoSession => \A h \in session.known : Stored(h) # {} \/ h \in owed

(* Conversely a hash whose line was forced to the disk stays known until it is *)
(* forgotten; only a cut log whose snapshot was never written loses it.        *)
PromiseKept ==
    ~gap /\ ~Recovering /\ Loads(log) => promised \subseteq DOMAIN Load(snap, log).ids

(* A file is stored twice only if an outcome of it was lost to a crash, a      *)
(* failed write or a lost answer, or if a tombstone of its deletion was        *)
(* executed after it had been imported again: a writer that is replaced while  *)
(* it works, imports that overtake one another and sessions that end in any    *)
(* way do not store a file twice.                                              *)
StoredOnce ==
    \A h \in Hashes : h \in excused \/ gap \/ Cardinality(Stored(h)) <= 1

(* A collection that has deleted its chunks and not saved the ledger leaves    *)
(* nothing behind that keeps the next one from converging, as the comment of   *)
(* the command says.  The worker refuses a batch as a whole when one of its    *)
(* ids is missing, so no deleted chunk may be garbage for the next collection. *)
NextCollectionConverges ==
    NoActiveSession /\ gc = Idle /\ Loads(log) =>
        Garbage(Settled(Load(snap, log), file)) \cap collected = {}

===============================================================================
