------------------------------- MODULE ImportLog -------------------------------
(* What the photo import keeps in files beside the container: the write-ahead  *)
(* log of an import (import.wal), its snapshot of the hashes of every import   *)
(* before (import.wal.snapshot) and the ledger that says which record owns a   *)
(* chunk (import.chunks.json).  The operators here are the pure part of        *)
(* repository/verthys_wal.rs and repository/verthys_chunks.rs: what an entry   *)
(* says, what a replay of snapshot and log concludes, and how the conclusion   *)
(* settles the ledger.  Pending and checkpoint lines are left out: a replay    *)
(* takes neither hashes nor owners from them.                                  *)
EXTENDS Integers, Sequences, TLC

CONSTANTS
    Hashes,       \* the content hashes of the files that may be imported
    NoRefs        \* a committed line of an old client, without a chunk list

(* The owner of a chunk that is uploaded and not referenced yet, and the owner *)
(* that freezes a chunk whose references nobody can prove any more.  The id of *)
(* a record is never one of the two.                                           *)
Unowned == 0
Unverifiable == -1

(* Functions as sets of bindings: none, the same value for all of S, f without *)
(* some arguments, f where it is defined and g elsewhere; the functions from a *)
(* part of S to T.                                                             *)
Empty == [x \in {} |-> 0]
All(S, v) == [x \in S |-> v]
Without(f, S) == [x \in DOMAIN f \ S |-> f[x]]
Over(f, g) == [x \in DOMAIN f \cup DOMAIN g |-> IF x \in DOMAIN f THEN f[x] ELSE g[x]]
Partial(S, T) == UNION {[D -> T] : D \in SUBSET S}

-------------------------------------------------------------------------------
(* The lines of the log. *)
BeginLine == [kind |-> "begin"]
EndLine == [kind |-> "end"]
CommittedLine(h, id, refs) == [kind |-> "committed", hash |-> h, id |-> id, refs |-> refs]
RemovedLine(S) == [kind |-> "removed", hashes |-> S]
TornLine == [kind |-> "torn"]   \* bytes that do not decode: a write cut short

(* A load fails as a whole when one line does not decode. *)
Loads(log) == \A i \in DOMAIN log : log[i].kind # "torn"

(* Variant: tombstones are not replayed. *)
ReplayedNoTombstone(s, e) ==
    IF e.kind = "committed"
    THEN [s EXCEPT !.ids = Over(All({e.hash}, e.id), @),
                   !.owners = IF e.refs = NoRefs THEN @ ELSE Over(All(e.refs, e.id), @),
                   !.unsettleable = @ \/ e.refs = NoRefs]
    ELSE s

(* One line of the replay. *)
Replayed(s, e) ==
    CASE e.kind = "committed" ->
           [s EXCEPT !.ids = Over(All({e.hash}, e.id), @),
                     !.owners = IF e.refs = NoRefs THEN @
                                ELSE Over(All(e.refs, e.id), @),
                     !.unsettleable = @ \/ e.refs = NoRefs]
      [] e.kind = "removed" ->
           LET gone == {s.ids[h] : h \in e.hashes \cap DOMAIN s.ids}
           IN  [s EXCEPT !.ids = Without(@, e.hashes),
                         !.owners = Without(@, {c \in DOMAIN @ : @[c] \in gone})]
      [] OTHER -> s

(* Every line of a log in turn, from the hashes given. *)
Unread(known) == [ids |-> known, owners |-> Empty, unsettleable |-> FALSE]
Replay(known, log) ==
    LET after[n \in 0..Len(log)] ==
            IF n = 0 THEN Unread(known) ELSE Replayed(after[n - 1], log[n])
    IN  after[Len(log)]

(* Variant: the snapshot is not read. *)
LoadLogOnly(snap, log) == Replay(Empty, log)

(* Snapshot as base, then the log. *)
Load(snap, log) == Replay(snap, log)

(* The log after a session that ended well: only the skeleton is left. *)
Skeleton == <<BeginLine, EndLine>>

-------------------------------------------------------------------------------
(* The ledger. *)
Garbage(ledger) == {c \in DOMAIN ledger : ledger[c] = Unowned}

(* Variant: nothing is settled. *)
SettledKeepsGarbage(replay, ledger) == ledger

(* The claims of the log win over the ledger; when a line of the log has no    *)
(* chunk list, every chunk that would still be garbage is frozen.              *)
Settled(replay, ledger) ==
    LET claimed == Over(replay.owners, ledger)
    IN  [c \in DOMAIN claimed |->
           IF replay.unsettleable /\ claimed[c] = Unowned THEN Unverifiable ELSE claimed[c]]
===============================================================================
