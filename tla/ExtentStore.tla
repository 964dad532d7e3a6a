------------------------------ MODULE ExtentStore ------------------------------
(***************************************************************************)
(* The content-addressed extents of a V3 container: data blocks in a data  *)
(* area that is appended to, an index of [hash, offset, ref_count] entries *)
(* that lives in memory and is saved whole on each commit, the reference   *)
(* counts with the ledger that undoes them, the compaction that makes room *)
(* and the rebuilding of the index after a crash.                          *)
(*                                                                         *)
(* The records that refer to the extents are kept by the LSM index, which  *)
(* appears here by its contract only: `recs' is what it answers in this    *)
(* session, `stable' what it answers after the next unlock.                *)
(*                                                                         *)
(* A block of content h takes Size[h] cells.  A cell holds a part of a     *)
(* block: a read decrypts and checks the hash, so an entry is readable     *)
(* when each of its cells holds the corresponding part of its content.     *)
(***************************************************************************)
EXTENDS Integers, Sequences, SequencesExt

CONSTANTS
    Hashes,         \* contents, each named by its hash
    Size,           \* Size[h]: cells of the block of h
    Recs,           \* record ids
    NoHash,         \* not a content: the record does not exist
    InitCap,        \* cells of the data area at creation
    MaxCap,         \* cells before the file would have to grow: the disk is full
    MaxEntries,     \* VERTHYS_EXTENT_INDEX_MAX
    Rewrites,       \* whether a content that was deleted may be written again
    MaxCrashes,     \* bound: crashes
    MaxLocks        \* bound: clean locks

ASSUME ExtentStoreAssumption ==
    /\ Hashes # {} /\ IsFiniteSet(Hashes) /\ IsFiniteSet(Recs)
    /\ Size \in [Hashes -> Nat \ {0}]
    /\ NoHash \notin Hashes
    /\ InitCap \in Nat /\ MaxCap \in Nat /\ InitCap <= MaxCap
    /\ MaxEntries \in Nat /\ MaxCrashes \in Nat /\ MaxLocks \in Nat
    /\ Rewrites \in BOOLEAN

Entry == [hash : Hashes, off : Nat, ref : Nat]
Blank == <<NoHash, 0>>

VARIABLES
    pc,         \* see TypeOK
    idx,        \* VerthysExtentIndex.entries, in memory
    next,       \* VerthysExtentIndex.next_offset, in memory
    cap,        \* size of the data area, in memory
    ledger,     \* net change of each reference count in the transaction
    recs,       \* the records as this session sees them
    saved,      \* on disk: the index frame and the size in the superblock
    cells,      \* on disk: the data area
    log,        \* on disk: the EXTENT records of the group in the WAL
    group,      \* the group in the WAL: "none", "open" (uncommitted), "sealed"
                \* (the superblock holds its txid), "covered" (by the watermark)
    stable,     \* the records a commit has made durable
    crashes,    \* crashes so far
    locks       \* clean locks so far

vars == <<pc, idx, next, cap, ledger, recs, saved, cells, log, group, stable,
          crashes, locks>>

-------------------------------------------------------------------------------
(* The index. *)

Slot(ix, h) == {i \in DOMAIN ix : ix[i].hash = h}
Found(ix, h) == CHOOSE i \in Slot(ix, h) : TRUE
Live(ix) == {i \in DOMAIN ix : ix[i].ref > 0}
End(e) == e.off + Size[e.hash]

\* The cells of the blocks of the entries in S.
Width(ix, S) ==
    LET sum[n \in 0..Len(ix)] ==
          IF n = 0 THEN 0 ELSE sum[n - 1] + (IF n \in S THEN Size[ix[n].hash] ELSE 0)
    IN  sum[Len(ix)]

RefCount(ix, h) == IF Slot(ix, h) = {} THEN 0 ELSE ix[Found(ix, h)].ref

AddRef(ix, h, n) ==
    [i \in DOMAIN ix |-> IF ix[i].hash = h THEN [ix[i] EXCEPT !.ref = @ + n] ELSE ix[i]]

\* verthys_extent_release: the count has the lower bound 0.
Release(ix, h) ==
    [i \in DOMAIN ix |->
        IF ix[i].hash = h /\ ix[i].ref > 0 THEN [ix[i] EXCEPT !.ref = @ - 1] ELSE ix[i]]

\* verthys_extent_get: the cells at the offset hold the content.
Readable(e) ==
    \A k \in 0..(Size[e.hash] - 1) :
        e.off + k \in DOMAIN cells /\ cells[e.off + k] = <<e.hash, k>>

\* The block is encrypted and written before the index knows of it.
Stored(c, h, at) ==
    [x \in DOMAIN c |-> IF x \in at..(at + Size[h] - 1) THEN <<h, x - at>> ELSE c[x]]

\* Looked up by hash and counted, or appended: verthys_extent_put, where `at'
\* is the cursor, and the replay of an EXTENT record, where it is the record's.
Put(ix, h, at) ==
    IF Slot(ix, h) # {}
    THEN AddRef(ix, h, 1)
    ELSE Append(ix, [hash |-> h, off |-> at, ref |-> 1])

-------------------------------------------------------------------------------
(* Room for a block: verthys_extent_compact and verthys_partition_grow. *)

\* The check before anything is moved: live entries follow one another.
Ordered ==
    /\ \A i, j \in Live(idx) : i < j => End(idx[i]) <= idx[j].off
    /\ \A i \in Live(idx) : End(idx[i]) <= next

\* Where a live entry goes: after the live entries before it.
Target(i) == Width(idx, {j \in Live(idx) : j < i})

\* A forward copy: the target is never above the source.
Moved(c, from, to, n) ==
    [x \in DOMAIN c |-> IF x \in to..(to + n - 1) THEN c[from + (x - to)] ELSE c[x]]

\* The data area after the blocks of entries 1..i were moved, one by one.
CellsMoved ==
    LET m[i \in 0..Len(idx)] ==
          IF i = 0 THEN cells
          ELSE IF idx[i].ref = 0 THEN m[i - 1]
          ELSE Moved(m[i - 1], idx[i].off, Target(i), Size[idx[i].hash])
    IN  m[Len(idx)]

\* Variant: the offset of the last entry is not updated.
RetargetedButLast ==
    [i \in DOMAIN idx |->
        IF idx[i].ref = 0 \/ i = Len(idx) THEN idx[i] ELSE [idx[i] EXCEPT !.off = Target(i)]]

\* The entries after compaction: a dead one keeps the offset it had.
Retargeted ==
    [i \in DOMAIN idx |->
        IF idx[i].ref = 0 THEN idx[i] ELSE [idx[i] EXCEPT !.off = Target(i)]]

\* Variant: not cut off.
GrownBeyond(need) == IF 2 * cap >= need THEN 2 * cap ELSE need

\* Twice the size, or what is needed, cut off at the limit.
Grown(need) ==
    LET target == IF 2 * cap >= need THEN 2 * cap ELSE need
    IN  IF target > MaxCap THEN MaxCap ELSE target

\* Compaction is tried, even for a content the index already has.
Compacts(h) == next + Size[h] > cap /\ Ordered

\* Variant: dead entries are counted as occupied.
RoomWithDead(h) ==
    IF Compacts(h)
    THEN [idx |-> Retargeted, next |-> Width(idx, DOMAIN idx), cells |-> CellsMoved]
    ELSE [idx |-> idx, next |-> next, cells |-> cells]

\* The store after txn_ensure_extent_capacity has compacted it, if it had to.
Room(h) ==
    IF Compacts(h)
    THEN [idx |-> Retargeted, next |-> Width(idx, Live(idx)), cells |-> CellsMoved]
    ELSE [idx |-> idx, next |-> next, cells |-> cells]

\* The compaction refuses an index out of order; the growth fails; the index
\* has no free entry.
Refuses(h) ==
    \/ next + Size[h] > cap /\ ~Ordered
    \/ Room(h).next + Size[h] > MaxCap
    \/ Slot(idx, h) = {} /\ Len(idx) >= MaxEntries

-------------------------------------------------------------------------------
NoNet == [h \in Hashes |-> 0]

Init ==
    /\ pc = "closed"
    /\ idx = <<>> /\ next = 0 /\ cap = InitCap
    /\ ledger = NoNet
    /\ recs = [r \in Recs |-> NoHash]
    /\ saved = [idx |-> <<>>, next |-> 0, cap |-> InitCap]
    /\ cells = [x \in 0..(MaxCap - 1) |-> Blank]
    /\ log = <<>> /\ group = "none"
    /\ stable = recs
    /\ crashes = 0 /\ locks = 0

\* verthys_txn_v3_begin: one call writes records, or deletes records.
Begin ==
    /\ pc = "idle"
    /\ pc' \in {"write", "delete"}
    /\ group' = "open"
    /\ ledger' = NoNet
    /\ UNCHANGED <<idx, next, cap, recs, saved, cells, log, stable, crashes, locks>>

\* The contents the user may write: see Rewrites.
MayWrite(h) == Rewrites \/ \A i \in Slot(idx, h) : idx[i].ref > 0

\* verthys_txn_v3_write_extent and verthys_txn_v3_update_index.
WriteRecord(r, h) ==
    /\ pc = "write" /\ recs[r] = NoHash /\ MayWrite(h)
    /\ ~Refuses(h)
    /\ LET s == Room(h)
           new == Slot(idx, h) = {}
           at == IF new THEN s.next ELSE s.idx[Found(idx, h)].off
       IN  /\ idx' = Put(s.idx, h, s.next)
           /\ next' = IF new THEN s.next + Size[h] ELSE s.next
           /\ cells' = IF new THEN Stored(s.cells, h, s.next) ELSE s.cells
           /\ cap' = IF s.next + Size[h] > cap THEN Grown(s.next + Size[h]) ELSE cap
           /\ log' = Append(log, [hash |-> h, off |-> at])
    /\ ledger' = [ledger EXCEPT ![h] = @ + 1]
    /\ recs' = [recs EXCEPT ![r] = h]
    /\ UNCHANGED <<pc, saved, group, stable, crashes, locks>>

\* The write returns an error, a compaction it began with being kept; the
\* caller aborts.
WriteRefused(h) ==
    /\ pc = "write" /\ MayWrite(h)
    /\ \E r \in Recs : recs[r] = NoHash
    /\ Refuses(h)
    /\ idx' = Room(h).idx /\ next' = Room(h).next /\ cells' = Room(h).cells
    /\ pc' = "refused"
    /\ UNCHANGED <<cap, ledger, recs, saved, log, group, stable, crashes, locks>>

\* verthys_txn_v3_delete: the tombstone, the ledger, then the reference.
DeleteRecord(r) ==
    /\ pc = "delete" /\ recs[r] # NoHash
    /\ recs' = [recs EXCEPT ![r] = NoHash]
    /\ ledger' = [ledger EXCEPT ![recs[r]] = @ - 1]
    /\ idx' = Release(idx, recs[r])
    /\ UNCHANGED <<pc, next, cap, saved, cells, log, group, stable, crashes, locks>>

\* txn_ledger_apply_rollback: the net of each hash is taken back.
RolledBack ==
    [i \in DOMAIN idx |->
        LET n == ledger[idx[i].hash]
        IN  [idx[i] EXCEPT !.ref = IF n > @ THEN 0 ELSE @ - n]]

\* verthys_txn_v3_rollback: entries and cursor stay, the counts go back.
Abort ==
    /\ pc \in {"write", "delete", "refused"}
    /\ idx' = RolledBack
    /\ ledger' = NoNet
    /\ recs' = stable
    /\ log' = <<>> /\ group' = "none"
    /\ pc' = "idle"
    /\ UNCHANGED <<next, cap, saved, cells, stable, crashes, locks>>

\* PREPARE, and the superblock quorum that holds the txid and the size.
Commit ==
    /\ pc \in {"write", "delete"}
    /\ group' = "sealed"
    /\ saved' = [saved EXCEPT !.cap = cap]
    /\ stable' = recs
    /\ pc' = "committed"
    /\ UNCHANGED <<idx, next, cap, ledger, recs, cells, log, crashes, locks>>

\* verthys_extent_index_save and the COMMIT record.
SaveIndex ==
    /\ pc = "committed"
    /\ saved' = [saved EXCEPT !.idx = idx, !.next = next]
    /\ ledger' = NoNet
    /\ pc' = "saved"
    /\ UNCHANGED <<idx, next, cap, recs, cells, log, group, stable, crashes, locks>>

\* The last entry of the index is read back and its hash verified.
SampleReadable == idx # <<>> => Readable(Last(idx))

\* verthys_txn_v3_confirm.
Confirm ==
    /\ pc = "saved" /\ SampleReadable
    /\ log' = <<>> /\ group' = "none"
    /\ pc' = "idle"
    /\ UNCHANGED <<idx, next, cap, ledger, recs, saved, cells, stable, crashes, locks>>

-------------------------------------------------------------------------------
(* The end of a session, and the unlock. *)

\* What is in memory is lost.
Close ==
    /\ pc' = "closed"
    /\ idx' = <<>> /\ next' = 0 /\ cap' = saved.cap
    /\ ledger' = NoNet
    /\ recs' = stable
    /\ UNCHANGED <<saved, cells, log, group, stable>>

\* verthys_v3_lock between two calls: the index is not saved.
Lock == pc = "idle" /\ locks < MaxLocks /\ locks' = locks + 1 /\ Close /\ UNCHANGED crashes

Crash == pc # "closed" /\ crashes < MaxCrashes /\ crashes' = crashes + 1 /\ Close /\ UNCHANGED locks

\* verthys_extent_index_parse_unverified: every entry, dead or not, must end
\* before the cursor.
Loads(s) == \A i \in DOMAIN s.idx : End(s.idx[i]) <= s.next

\* Variant: an entry the index has is not counted again.
ReregisteredOnce(s, e) ==
    [s EXCEPT !.idx = IF Slot(@, e.hash) = {} THEN Put(@, e.hash, e.off) ELSE @,
              !.next = IF e.off + Size[e.hash] > @ THEN e.off + Size[e.hash] ELSE @]

\* Variant: the cursor is not raised.
ReregisteredBelow(s, e) == [s EXCEPT !.idx = Put(@, e.hash, e.off)]

\* Variant: the block is taken to be at the cursor.
ReregisteredAtCursor(s, e) ==
    [s EXCEPT !.idx = Put(@, e.hash, s.next),
              !.next = IF e.off + Size[e.hash] > @ THEN e.off + Size[e.hash] ELSE @]

\* txn_recover_replay_cb on an EXTENT record.
Reregistered(s, e) ==
    [s EXCEPT !.idx = Put(@, e.hash, e.off),
              !.next = IF e.off + Size[e.hash] > @ THEN e.off + Size[e.hash] ELSE @]

\* The EXTENT records of a group, one after the other.
Replay(s, lines) ==
    LET after[n \in 0..Len(lines)] ==
          IF n = 0 THEN s ELSE Reregistered(after[n - 1], lines[n])
    IN  after[Len(lines)]

\* The index an unlock arrives at: only a sealed group is replayed.
Recovered == IF group = "sealed" THEN Replay(saved, log) ELSE saved

\* S4 and S5 of the unlock, and the replay in verthys_txn_v3_recover.
Open ==
    /\ pc = "closed" /\ Loads(saved)
    /\ idx' = Recovered.idx /\ next' = Recovered.next /\ cap' = saved.cap
    /\ recs' = stable
    /\ ledger' = NoNet
    /\ pc' = IF group = "sealed" THEN "replayed" ELSE "recovered"
    /\ UNCHANGED <<saved, cells, log, group, stable, crashes, locks>>

RecoverySave ==
    /\ pc = "replayed"
    /\ saved' = [saved EXCEPT !.idx = idx, !.next = next]
    /\ pc' = "resaved"
    /\ UNCHANGED <<idx, next, cap, ledger, recs, cells, log, group, stable, crashes, locks>>

\* The watermark wal_committed_txid is committed to the superblock.
RecoveryCover ==
    /\ pc = "resaved"
    /\ group' = "covered"
    /\ pc' = "recovered"
    /\ UNCHANGED <<idx, next, cap, ledger, recs, saved, cells, log, stable, crashes, locks>>

RecoveryReset ==
    /\ pc = "recovered"
    /\ log' = <<>> /\ group' = "none"
    /\ pc' = "idle"
    /\ UNCHANGED <<idx, next, cap, ledger, recs, saved, cells, stable, crashes, locks>>

Next ==
    \/ Begin \/ Abort \/ Commit \/ SaveIndex \/ Confirm
    \/ \E h \in Hashes : WriteRefused(h) \/ \E r \in Recs : WriteRecord(r, h)
    \/ \E r \in Recs : DeleteRecord(r)
    \/ Lock \/ Crash
    \/ Open \/ RecoverySave \/ RecoveryCover \/ RecoveryReset

Spec == Init /\ [][Next]_vars

-------------------------------------------------------------------------------
TypeOK ==
    /\ pc \in {"closed", "idle", "write", "delete", "refused", "committed", "saved",
               "replayed", "resaved", "recovered"}
    /\ idx \in Seq(Entry) /\ next \in Nat
    /\ cap \in InitCap..MaxCap
    /\ ledger \in [Hashes -> Int]
    /\ recs \in [Recs -> Hashes \cup {NoHash}] /\ stable \in [Recs -> Hashes \cup {NoHash}]
    /\ saved \in [idx : Seq(Entry), next : Nat, cap : InitCap..MaxCap]
    /\ cells \in [0..(MaxCap - 1) -> (Hashes \cup {NoHash}) \X Nat]
    /\ log \in Seq([hash : Hashes, off : Nat])
    /\ group \in {"none", "open", "sealed", "covered"}
    /\ crashes \in 0..MaxCrashes /\ locks \in 0..MaxLocks

Holders(rs, h) == Cardinality({r \in Recs : rs[r] = h})

\* At every instant, whatever was lost with the memory, the index that an unlock
\* would arrive at has a live and readable entry below the cursor for every
\* committed record (extent.h:211-213, txn_v3.c:549-551: the index frame on
\* disk keeps pointing at data that can be read).
CommittedReadable ==
    \A r \in Recs : stable[r] # NoHash =>
        \E i \in Slot(Recovered.idx, stable[r]) :
            LET e == Recovered.idx[i]
            IN  e.ref > 0 /\ Readable(e) /\ End(e) <= Recovered.next

\* The same for sessions that all end with a clean lock.
LockKeepsReadable == pc = "closed" => CommittedReadable

\* A reference count may be too high, never too low: one that reaches 0 with a
\* record left would let the compaction overwrite the block.  Without a crash
\* the counts are exact between two calls, after any number of transactions and
\* of aborts in any order: nothing is leaked.
RefsTrue ==
    /\ \A h \in Hashes : RefCount(Recovered.idx, h) >= Holders(stable, h)
    /\ pc # "closed" => \A h \in Hashes : RefCount(idx, h) >= Holders(recs, h)
    /\ pc = "idle" /\ crashes = 0 =>
          \A h \in Hashes : RefCount(idx, h) = Holders(recs, h)

\* Every record this session sees can be read, also in the middle of a
\* transaction that has compacted the data area.
LiveReadable ==
    pc # "closed" =>
        \A r \in Recs : recs[r] # NoHash =>
            \E i \in Slot(idx, recs[r]) : Readable(idx[i])

\* A write is refused only when the live blocks really leave no room: dead
\* blocks and dead entries are reclaimable (extent.h:13-14).
RefusedOnlyWhenFull ==
    \A h \in Hashes : pc = "write" /\ Refuses(h) =>
        \/ Width(idx, Live(idx)) + Size[h] > MaxCap
        \/ Cardinality(Live(idx)) >= MaxEntries

\* The sample that confirm reads back is readable: otherwise a transaction that
\* is durable would never be confirmed and every later one refused.
SampleNeverFails == pc = "saved" => SampleReadable

\* The index on disk passes the check of the next unlock: no entry ends above
\* the cursor (extent.h:215: the offsets of all entries are below the cursor).
IndexLoads == Loads(saved)
===============================================================================
