-------------------------------- MODULE RecordTxn --------------------------------
(***************************************************************************)
(* The transactions of a V3 container over its record index: one call of   *)
(* the API is one transaction, BEGIN, the writes or the deletions, PREPARE, *)
(* COMMIT, CONFIRM.  A record of it goes to the WAL at each step, an entry  *)
(* to the index at each operation, and the superblock's txid decides       *)
(* whether it happened.  A failed call is rolled back, a lock flushes the  *)
(* index, and an unlock replays the index's log and then recovers: the     *)
(* group in the WAL is replayed again or its entries are left out.         *)
(*                                                                         *)
(* The commit of the superblock is one step here: SuperBlock says what is  *)
(* in it.  The extents of the records are ExtentStore's.  The two halves   *)
(* of the WAL are not modelled: it is a sequence, and its reset one step.  *)
(*                                                                         *)
(* A crash is the death of the process: what was written stays written.    *)
(***************************************************************************)
EXTENDS LsmIndex

CONSTANTS
    FlushAt,        \* VERTHYS_LSM_MEMTABLE_MAX_ENTRIES
    MaxTxid,        \* bound: transactions that commit
    MaxLid,         \* bound: record ids
    MaxOps,         \* bound: operations of a transaction
    MaxCrashes,     \* bound: crashes
    MaxFaults       \* bound: failures of a log's truncation or reset; from two
                    \* in a row on force_abort settles for less than a rollback

ASSUME RecordTxnAssumption ==
    /\ FlushAt \in Nat \ {0}
    /\ {MaxTxid, MaxLid, MaxOps, MaxCrashes, MaxFaults} \subseteq Nat
    /\ MaxFaults <= 1

\* A cleared header decodes to no entry.
ASSUME NoFrameIsNone == NoFrame \notin EntryOf(Vals \cup {Gone})

VARIABLES
    pc,         \* where the call under way is, see TypeOK
    base,       \* lsm_wal_base: the cursor of the index at BEGIN
    todo,       \* the entries recovery has still to put
    wal,        \* on disk: the records in the WAL
    sbTxid,     \* on disk: txid of the superblock
    mark,       \* on disk: wal_committed_txid of the superblock
    crashes,    \* crashes so far
    faults      \* failures so far

txnVars == <<pc, base, todo, wal, sbTxid, mark, crashes, faults>>
vars == <<lsmVars, txnVars>>

Calls == {"active", "logging", "prepared"}          \* ACTIVE and PREPARED
Settled == {"idle", "stuck"}                        \* no call under way

\* begin takes the txid after the superblock's, again after an abort.
Txid == sbTxid + 1

Record(kind, txid, entry) == [kind |-> kind, txid |-> txid, entry |-> entry]
Logged(kind) == Append(wal, Record(kind, Txid, NoFrame))

\* The operations of the transaction under way, as the index's log has them.
Ops == IF pc \in Calls THEN SubSeq(frames, base + 1, cursor) ELSE << >>
Adds == \A i \in DOMAIN Ops : Ops[i].val # Gone
Deletes == \A i \in DOMAIN Ops : Ops[i].val = Gone

-------------------------------------------------------------------------------
(* How recovery classifies what is in the WAL.                             *)

Holds(kind, t) == \E i \in DOMAIN wal : wal[i].kind = kind /\ wal[i].txid = t
Groups == {wal[i].txid : i \in DOMAIN wal}

\* Variant: a PREPARE is enough, whatever the superblock says.
ReplayedOnPrepare ==
    {t \in Groups : t > mark /\ (Holds("commit", t) \/ Holds("prepare", t))}

Replayed == {t \in Groups : /\ t > mark
                            /\ \/ Holds("commit", t)
                               \/ Holds("prepare", t) /\ sbTxid >= t}

Discarded == {t \in Groups : t > mark} \ Replayed

\* The entries of the INDEX records of the groups to replay, in their order.
Redo ==
    LET of[n \in 0 .. Len(wal)] ==
            IF n = 0 THEN << >>
            ELSE IF wal[n].kind = "index" /\ wal[n].txid \in Replayed
                 THEN Append(of[n - 1], wal[n].entry)
                 ELSE of[n - 1]
    IN  of[Len(wal)]

-------------------------------------------------------------------------------
Init ==
    /\ frames = << >> /\ level0 = << >> /\ level1 = << >>
    /\ mem = << >> /\ cursor = 0 /\ maxLid = 0 /\ readonly = FALSE
    /\ pc = "idle" /\ base = 0 /\ todo = << >> /\ wal = << >>
    /\ sbTxid = 0 /\ mark = 0 /\ crashes = 0 /\ faults = 0

(* A call.                                                                 *)

Begin ==
    /\ pc = "idle" /\ sbTxid < MaxTxid
    /\ wal' = Logged("begin")
    /\ base' = cursor
    /\ pc' = "active"
    /\ UNCHANGED <<lsmVars, todo, sbTxid, mark, crashes, faults>>

\* The index half of an operation; the INDEX record follows.
Operate(e) ==
    /\ pc = "active" /\ Len(Ops) < MaxOps
    /\ Put(e)
    /\ pc' = "logging"
    /\ UNCHANGED <<base, todo, wal, sbTxid, mark, crashes, faults>>

Add(v) ==
    /\ Adds /\ maxLid < MaxLid
    /\ Operate([lid |-> maxLid + 1, txid |-> Txid, val |-> v])

\* The ids were found before BEGIN; the same id may be given twice.
Delete(l) ==
    /\ Deletes
    /\ \/ l \in DOMAIN Reads(mem)
       \/ \E i \in DOMAIN Ops : Ops[i].lid = l
    /\ Operate([lid |-> l, txid |-> Txid, val |-> Gone])

LogIndex ==
    /\ pc = "logging"
    /\ wal' = Append(wal, Record("index", Txid, frames[cursor]))
    /\ pc' = "active"
    /\ UNCHANGED <<lsmVars, base, todo, sbTxid, mark, crashes, faults>>

Prepare ==
    /\ pc = "active"
    /\ wal' = Logged("prepare")
    /\ pc' = "prepared"
    /\ UNCHANGED <<lsmVars, base, todo, sbTxid, mark, crashes, faults>>

Commit ==
    /\ pc = "prepared"
    /\ sbTxid' = Txid
    /\ pc' = "committed" /\ base' = 0
    /\ UNCHANGED <<lsmVars, todo, wal, mark, crashes, faults>>

\* The rest of commit: the saves, the COMMIT record, then the flush by count.
CommitTail ==
    /\ pc = "committed"
    /\ wal' = Append(wal, Record("commit", sbTxid, NoFrame))
    /\ pc' = IF Cardinality(DOMAIN mem) >= FlushAt THEN "flushing" ELSE "confirming"
    /\ UNCHANGED <<lsmVars, base, todo, sbTxid, mark, crashes, faults>>

\* A save or the record fails: confirm is called all the same.
CommitTailFails ==
    /\ pc = "committed"
    /\ pc' = "confirming"
    /\ UNCHANGED <<lsmVars, base, todo, wal, sbTxid, mark, crashes, faults>>

\* A failure of this flush is not an error of the commit.
CommitFlush ==
    /\ pc = "flushing"
    /\ \/ Flush
       \/ FlushNoMemory
       \/ UNCHANGED lsmVars
    /\ pc' = "confirming"
    /\ UNCHANGED <<base, todo, wal, sbTxid, mark, crashes, faults>>

Confirm ==
    /\ pc = "confirming"
    /\ wal' = << >>
    /\ pc' = "idle"
    /\ UNCHANGED <<lsmVars, base, todo, sbTxid, mark, crashes, faults>>

\* The state stays COMMITTED, and begin is refused until the next lock.
ConfirmFails ==
    /\ pc = "confirming" /\ faults < MaxFaults
    /\ pc' = "stuck" /\ faults' = faults + 1
    /\ UNCHANGED <<lsmVars, base, todo, wal, sbTxid, mark, crashes>>

-------------------------------------------------------------------------------
(* A call that fails before the superblock has its txid.                   *)

Fail ==
    /\ pc \in Calls
    /\ pc' = "aborting"
    /\ UNCHANGED <<lsmVars, base, todo, wal, sbTxid, mark, crashes, faults>>

RollbackIndex ==
    /\ pc = "aborting"
    /\ Truncate(base, Txid)
    /\ pc' = "resetting"
    /\ UNCHANGED <<base, todo, wal, sbTxid, mark, crashes, faults>>

RollbackWal ==
    /\ pc = "resetting"
    /\ wal' = << >>
    /\ pc' = "idle" /\ base' = 0
    /\ UNCHANGED <<lsmVars, todo, sbTxid, mark, crashes, faults>>

\* force_abort: the rollback is done again from its start.
RollbackFails ==
    /\ pc \in {"aborting", "resetting"} /\ faults < MaxFaults
    /\ pc' = "aborting" /\ faults' = faults + 1
    /\ UNCHANGED <<lsmVars, base, todo, wal, sbTxid, mark, crashes>>

-------------------------------------------------------------------------------
(* Lock, crash, unlock.                                                    *)

\* A transaction left COMMITTED is confirmed, if that works now.
Lock ==
    /\ pc \in Settled
    /\ pc' = "locking"
    /\ \/ wal' = << >> /\ UNCHANGED faults
       \/ pc = "stuck" /\ faults < MaxFaults /\ faults' = faults + 1 /\ UNCHANGED wal
    /\ UNCHANGED <<lsmVars, base, todo, sbTxid, mark, crashes>>

Down ==
    /\ Forget
    /\ pc' = "down" /\ base' = 0 /\ todo' = << >>
    /\ UNCHANGED <<wal, sbTxid, mark, faults>>

\* The flush of the lock may fail: the index is closed as it is.
Close ==
    /\ pc = "locking"
    /\ \/ TableWritten /\ frames' = Severed(frames, 0)
       \/ TableWritten /\ UNCHANGED frames
       \/ UNCHANGED lsmDisk
    /\ Down /\ UNCHANGED crashes

Kill ==
    /\ pc # "down" /\ crashes < MaxCrashes
    /\ crashes' = crashes + 1
    /\ \/ UNCHANGED lsmDisk
       \/ pc \in {"flushing", "locking", "settling"} /\ TableWritten /\ UNCHANGED frames
    /\ Down

Unlock ==
    /\ pc = "down"
    /\ Open
    /\ todo' = Redo
    /\ pc' = "replaying"
    /\ UNCHANGED <<base, wal, sbTxid, mark, crashes, faults>>

RecoverPut ==
    /\ pc = "replaying" /\ todo # << >>
    /\ Put(Head(todo))
    /\ todo' = Tail(todo)
    /\ UNCHANGED <<pc, base, wal, sbTxid, mark, crashes, faults>>

RecoverExclude ==
    /\ pc = "replaying" /\ todo = << >>
    /\ IF Discarded # {} THEN RebuildExcluding(Discarded) ELSE UNCHANGED lsmVars
    /\ pc' = "marking"
    /\ UNCHANGED <<base, todo, wal, sbTxid, mark, crashes, faults>>

RecoverMark ==
    /\ pc = "marking"
    /\ mark' = IF Replayed # {} THEN sbTxid ELSE mark
    /\ pc' = "settling"
    /\ UNCHANGED <<lsmVars, base, todo, wal, sbTxid, crashes, faults>>

\* An index whose log holds discarded entries only is cut at its start.
RecoverSettle ==
    /\ pc = "settling"
    /\ \/ Flush
       \/ /\ mem = << >> /\ Discarded # {} /\ cursor > 0
          /\ Truncate(0, Greatest(Discarded))
       \/ /\ mem = << >> /\ (Discarded = {} \/ cursor = 0)
          /\ UNCHANGED lsmVars
    /\ pc' = "emptying"
    /\ UNCHANGED <<base, todo, wal, sbTxid, mark, crashes, faults>>

RecoverReset ==
    /\ pc = "emptying"
    /\ wal' = << >>
    /\ pc' = "idle"
    /\ UNCHANGED <<lsmVars, base, todo, sbTxid, mark, crashes, faults>>

\* The background thread, under the lock of the index.
Compaction ==
    /\ pc # "down"
    /\ Compact
    /\ UNCHANGED txnVars

Next ==
    \/ Begin \/ (\E v \in Vals : Add(v)) \/ (\E l \in 1 .. MaxLid : Delete(l))
    \/ LogIndex \/ Prepare \/ Commit \/ CommitTail \/ CommitTailFails
    \/ CommitFlush \/ Confirm \/ ConfirmFails
    \/ Fail \/ RollbackIndex \/ RollbackWal \/ RollbackFails
    \/ Lock \/ Close \/ Kill \/ Unlock
    \/ RecoverPut \/ RecoverExclude \/ RecoverMark \/ RecoverSettle \/ RecoverReset
    \/ Compaction

Spec == Init /\ [][Next]_vars

-------------------------------------------------------------------------------
Versions == Vals \cup {Gone}
The(S) == CHOOSE x \in S : TRUE
Table(m) == DOMAIN m \subseteq 1 .. MaxLid /\ \A l \in DOMAIN m : m[l] \in Versions

\* Types: every variable keeps the range its field has in the code, and the
\* cursor stays within the frames that were written.
TypeOK ==
    /\ pc \in Calls \cup Settled \cup
              {"committed", "flushing", "confirming", "aborting", "resetting",
               "locking", "down", "replaying", "marking", "settling", "emptying"}
    /\ \A i \in DOMAIN frames : frames[i] \in EntryOf(Versions) \cup {NoFrame}
    /\ Table(mem) /\ Table(level1) /\ \A i \in DOMAIN level0 : Table(level0[i])
    /\ cursor \in 0 .. Len(frames) /\ base \in 0 .. cursor
    /\ maxLid \in 0 .. MaxLid /\ sbTxid \in 0 .. MaxTxid /\ mark \in 0 .. sbTxid
    /\ \A i \in DOMAIN todo : todo[i] \in EntryOf(Versions)

\* The versions that an unlock would find, if the process died now: the index's
\* log, what recovery appends to it, less what it discards, over the tables.
\* (The sets have one element each; they bind what would be evaluated again.)
DurableVersions ==
    The({Over(m, Tables) : m \in {Newest(Chain(frames) \o Redo, Discarded)}})

\* The records of these: what the container holds.
Durable == The({Present(all) : all \in {DurableVersions}})

\* RecordStore: what a restart would show changes in one step only, the commit
\* of the superblock, and then by exactly the operations of the transaction;
\* aborts, crashes, recoveries interrupted anywhere, flushes and compactions
\* change nothing.
Promise == INSTANCE RecordStore WITH store <- Durable, staged <- Ops
RefinesStore == Promise!Spec

\* Between calls the session shows what a restart would show: an operation that
\* was reported as failed is in neither, one that was reported as done in both.
RestartShowsTheSame ==
    pc \in Settled => Reads(mem) = Durable

\* Within a call the index shows the container with the operations so far.
CallSeesItself ==
    pc \in {"active", "prepared"} =>
        Reads(mem) = Promise!Applied(Durable, Ops)

\* A new record never gets the id of a record that was ever committed, deleted
\* ones included, whatever was locked, recovered or compacted in between.
IdsAreFresh ==
    \A i \in DOMAIN Ops : Ops[i].val # Gone => Ops[i].lid \notin DOMAIN DurableVersions
===============================================================================
