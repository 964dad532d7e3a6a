-------------------------------- MODULE LsmIndex --------------------------------
(***************************************************************************)
(* The LSM index of the records: a memtable in front of sorted tables, and *)
(* a log of its own (the "LSM WAL", not the WAL of the transactions) that  *)
(* a put writes before it touches the memtable.                            *)
(*                                                                         *)
(* The log is a region that is written in place from its start.  Nothing   *)
(* in a frame says to which run of the log it belongs: a replay decodes    *)
(* frame after frame and stops at the first header that is not one.  A     *)
(* reset clears the first header only, a rollback clears one header, and   *)
(* what lies behind, the residue, keeps its bytes.  Whether a later write  *)
(* makes the residue readable again depends on the lengths of the frames:  *)
(* ResidueAligns says that the old frame boundary and the end of the new   *)
(* frame coincide (equal lengths), its negation that they never do.        *)
(*                                                                         *)
(* The module has the state and the steps of the index; the transactions   *)
(* that drive it are RecordTxn.                                            *)
(***************************************************************************)
EXTENDS Naturals, FiniteSets, Sequences, SequencesExt

CONSTANTS
    Vals,           \* contents of records
    Gone,           \* the content of a tombstone
    NoFrame,        \* a cleared or undecodable header
    ResidueAligns,  \* environment: the residue of the log lines up, or never does
    L0Trigger       \* VERTHYS_LSM_L0_COMPACTION_TRIGGER

ASSUME LsmAssumption ==
    /\ Gone \notin Vals
    /\ ResidueAligns \in BOOLEAN
    /\ L0Trigger \in Nat \ {0}

VARIABLES
    frames,     \* on disk: the LSM WAL region, one element per frame
    level0,     \* on disk: the level-0 tables, newest first
    level1,     \* on disk: the table the compactions produce
    mem,        \* the memtable
    cursor,     \* wal_cursor: frames of the log that are in use
    maxLid,     \* max_lid: the greatest record id seen
    readonly    \* memtable_readonly: the memtable was lost after a flush

lsmDisk == <<frames, level0, level1>>
lsmMem == <<mem, cursor, maxLid, readonly>>
lsmVars == <<lsmDisk, lsmMem>>

EntryOf(v) == [lid : Nat \ {0}, txid : Nat \ {0}, val : v]

Greatest(S) == CHOOSE n \in S \cup {0} : \A k \in S : k <= n

-------------------------------------------------------------------------------
(* The log and what is read from it.                                       *)

\* wal_append: the frame replaces what begins at the cursor.
Written(fs, at, e) ==
    SubSeq(fs, 1, at) \o <<e>> \o
        (IF ResidueAligns THEN SubSeq(fs, at + 2, Len(fs)) ELSE << >>)

\* Eight zero bytes over the header at the given place.
Severed(fs, at) == [i \in DOMAIN fs |-> IF i = at + 1 THEN NoFrame ELSE fs[i]]

\* What a replay decodes: everything before the first bad header.
Chain(fs) ==
    LET bad == {i \in DOMAIN fs : fs[i] = NoFrame}
    IN  IF bad = {} THEN fs ELSE SubSeq(fs, 1, Min(bad) - 1)

\* The memtable of a sequence of entries, those of some transactions left out:
\* the last one of each record.
Newest(es, out) ==
    LET in == {i \in DOMAIN es : es[i].txid \notin out}
    IN  [l \in {es[i].lid : i \in in} |-> es[Max({i \in in : es[i].lid = l})].val]

\* The versions of the records, the newest of each, tombstones included.
Merged(ts) ==
    [l \in UNION {DOMAIN ts[i] : i \in DOMAIN ts} |->
        ts[Min({i \in DOMAIN ts : l \in DOMAIN ts[i]})][l]]

\* What f has, and where f has nothing, what g has.
Over(f, g) == [l \in DOMAIN f \cup DOMAIN g |-> IF l \in DOMAIN f THEN f[l] ELSE g[l]]

\* What a get finds with the memtable m, and what it answers: the version it
\* found, unless it is a tombstone.
Tables == Merged(level0 \o <<level1>>)
Found(m) == Over(m, Tables)
Present(all) == [l \in {k \in DOMAIN all : all[k] # Gone} |-> all[l]]
Reads(m) == Present(Found(m))

-------------------------------------------------------------------------------
(* Steps.  Each leaves alone what it does not name.                        *)

\* Variant: an entry that is already in the memtable is not replaced.
PutOnlyOnce(e) ==
    /\ ~readonly
    /\ frames' = Written(frames, cursor, e)
    /\ cursor' = cursor + 1
    /\ mem' = Over(mem, [l \in {e.lid} |-> e.val])
    /\ maxLid' = Greatest({maxLid, e.lid})
    /\ UNCHANGED <<readonly, level0, level1>>

\* A put or a tombstone.  A memtable that was lost is rebuilt first.
Put(e) ==
    LET at == IF readonly THEN Len(Chain(frames)) ELSE cursor
        m == IF readonly THEN Newest(Chain(frames), {}) ELSE mem
    IN  /\ frames' = Written(frames, at, e)
        /\ cursor' = at + 1
        /\ mem' = Over([l \in {e.lid} |-> e.val], m)
        /\ maxLid' = Greatest({maxLid, e.lid})
        /\ readonly' = FALSE
        /\ UNCHANGED <<level0, level1>>

\* Variant: the entries are taken out of the memtable instead, and with a
\* tombstone the entry it had replaced.
RebuildByFilter(fs, txids) ==
    LET out == {frames[i].lid : i \in {k \in 1 .. cursor : frames[k].txid \in txids}}
    IN  /\ mem' = [l \in DOMAIN mem \ out |-> mem[l]]
        /\ cursor' = Len(Chain(fs))

\* rebuild_excluding: the memtable is replayed without some transactions.
Rebuild(fs, txids) ==
    /\ mem' = Newest(Chain(fs), txids)
    /\ cursor' = Len(Chain(fs))

RebuildExcluding(txids) ==
    /\ Rebuild(frames, txids)
    /\ UNCHANGED <<lsmDisk, maxLid, readonly>>

\* rollback_txid: the log is cut where the transaction began.
Truncate(from, txid) ==
    /\ cursor >= from
    /\ frames' = IF cursor > from THEN Severed(frames, from) ELSE frames
    /\ Rebuild(frames', {txid})
    /\ UNCHANGED <<level0, level1, maxLid, readonly>>

\* A table of the memtable, listed by the manifest: the commit point of a flush.
TableWritten ==
    /\ mem # << >>
    /\ level0' = <<mem>> \o level0
    /\ UNCHANGED level1

Flush ==
    /\ TableWritten
    /\ frames' = Severed(frames, 0)
    /\ mem' = << >> /\ cursor' = 0
    /\ UNCHANGED <<maxLid, readonly>>

\* No memory for the new memtable: the log is not reset.
FlushNoMemory ==
    /\ TableWritten
    /\ mem' = << >> /\ readonly' = TRUE
    /\ UNCHANGED <<frames, cursor, maxLid>>

\* All of level 0 merged into level 1.  Tombstones are kept: only a merge into
\* the last level drops them, and a container does not grow that far here.
Compact ==
    /\ Len(level0) >= L0Trigger
    /\ level1' = Merged(level0 \o <<level1>>)
    /\ level0' = << >>
    /\ UNCHANGED <<frames, lsmMem>>

\* Variant: max_lid is taken from the memtable only.
OpenForgettingIds ==
    /\ mem' = Newest(Chain(frames), {})
    /\ cursor' = Len(Chain(frames))
    /\ maxLid' = Greatest(DOMAIN mem')
    /\ readonly' = FALSE
    /\ UNCHANGED lsmDisk

\* Variant: the cursor stops behind the first frame that could not be read.
OpenPastTheEnd ==
    /\ mem' = Newest(Chain(frames), {})
    /\ cursor' = Len(Chain(frames)) + 1
    /\ maxLid' = Greatest(DOMAIN Found(mem'))
    /\ readonly' = FALSE
    /\ UNCHANGED lsmDisk

Open ==
    LET m == Newest(Chain(frames), {}) IN
    /\ mem' = m
    /\ cursor' = Len(Chain(frames))
    /\ maxLid' = Greatest(DOMAIN Found(m))
    /\ readonly' = FALSE
    /\ UNCHANGED lsmDisk

\* The process ends, or the index is destroyed.
Forget == /\ mem' = << >> /\ cursor' = 0 /\ maxLid' = 0 /\ readonly' = FALSE
===============================================================================
