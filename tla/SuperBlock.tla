------------------------------ MODULE SuperBlock ------------------------------
(***************************************************************************)
(* The superblock of a V3 container: three replicas on disk, written one   *)
(* after the other, each followed by an fsync, and read back by quorum.    *)
(*                                                                         *)
(* Writers: the data transaction (a new txid), the automatic key rotation  *)
(* and the DEGRADE mark (same txid, other contents) and the change of      *)
(* password (same txid, other contents, signed with another integrity      *)
(* key).  Readers: the unlock pipeline, and vsb_v3_read_quorum, which the  *)
(* confirm step of a transaction uses.  The two decide differently.        *)
(*                                                                         *)
(* A view is what a replica says.  Its fields are the txid, the watermark  *)
(* wal_committed_txid, the credential (the password with the salt in the   *)
(* view) that unlocks it, and the rest of its contents.  A slot is a view and the credential whose    *)
(* integrity key signed it: a replica authenticates only under that one.   *)
(***************************************************************************)
EXTENDS Naturals, FiniteSets

CONSTANTS
    Creds,          \* credentials: a password with a salt
    Bodies,         \* the contents of a superblock other than txid and salt
    MaxTxid,        \* bound: transactions committed in one behaviour
    MaxIOErrors,    \* bound: replica writes and verify reads that fail
    MaxCrashes,     \* bound: crashes
    MaxTears,       \* bound: crashes that tear the replica being written
    Kinds,          \* the writers that run: a subset of AllKinds
    Interrupted,    \* the writers a crash may interrupt in their commit
    NoView,         \* not a view: no superblock in memory
    NoMac           \* not a credential: the HMAC matches no key

AllKinds == {"txn", "rewrite", "password"}
Replicas == 0..2
View == [txid : 0..MaxTxid, wm : 0..MaxTxid, cred : Creds, body : Bodies]
Slot == [view : View, mac : Creds \cup {NoMac}, framed : BOOLEAN]

ASSUME SuperBlockAssumption ==
    /\ Creds # {} /\ Bodies # {}
    /\ MaxTxid \in Nat /\ MaxIOErrors \in Nat /\ MaxCrashes \in Nat /\ MaxTears \in Nat
    /\ Kinds \subseteq AllKinds /\ Interrupted \subseteq AllKinds
    /\ NoView \notin View
    /\ NoMac \notin Creds

VARIABLES
    disk,       \* the three replica slots
    pc,         \* "closed", "open", "commit" while a commit runs, "confirm"
    writer,     \* who commits: one of Kinds, or "recover"
    wal,        \* txid of the prepared group in the transaction log, or 0
    sb,         \* the superblock in memory (NoView when closed)
    key,        \* the resident integrity key, as the credential it belongs to
    backup,     \* VsbTxnV3.backup: sb as it was before the commit
    signer,     \* the integrity key passed to the commit under way
    next,       \* the replica the commit writes next; 3 is the verify read
    okset,      \* the replicas whose write and fsync succeeded
    ioErrors,   \* failures so far
    crashes,    \* crashes so far
    tears,      \* torn replicas so far
    acked,      \* history: the view of the last commit that returned OK
    since       \* history: acked and every view proposed after it

vars == <<disk, pc, writer, wal, sb, key, backup, signer, next, okset,
          ioErrors, crashes, tears, acked, since>>

-------------------------------------------------------------------------------
(* Reading.  A frame that is not `framed' fails the structural check of S1. *)

Authentic(d, c) == {i \in Replicas : d[i].framed /\ d[i].mac = c}
Framed(d) == {i \in Replicas : d[i].framed}

\* The scan "agree >= 2 and (none chosen or a higher txid)" over i = 0, 1, 2.
FirstHighest(d, S) ==
    {i \in S : \A j \in S : \/ d[j].view.txid < d[i].view.txid
                            \/ d[j].view.txid = d[i].view.txid /\ i <= j}

\* Variant: agreement by txid alone, without the comparison of contents.
AgreeingByTxid(d, c) ==
    {i \in Authentic(d, c) :
        Cardinality({j \in Authentic(d, c) :
                        d[j].view.txid = d[i].view.txid}) >= 2}

\* vsb_v3_read_quorum: agreement is equality of the whole parsed contents.
Agreeing(d, c) ==
    {i \in Authentic(d, c) :
        Cardinality({j \in Authentic(d, c) : d[j].view = d[i].view}) >= 2}
ReadQuorum(d, c) == FirstHighest(d, Agreeing(d, c))

\* Variant: the salt of the highest txid, without the majority rule.
NoMajoritySalt(d) == {}

\* S1, upl_select_early_candidate: the replica whose salt is derived from.
SameSalt(d) ==
    {i \in Framed(d) :
        Cardinality({j \in Framed(d) : d[j].view.cred = d[i].view.cred}) >= 2}
EarlyCandidate(d) ==
    FirstHighest(d, IF SameSalt(d) # {} THEN SameSalt(d) ELSE Framed(d))

\* S3: agreement is equality of the txid alone.
SameTxid(d, c) ==
    {i \in Authentic(d, c) :
        Cardinality({j \in Authentic(d, c) :
                        d[j].view.txid = d[i].view.txid}) >= 2}

\* The unlock pipeline with credential c: the replica it takes, if any.  The
\* key derived with the salt of another credential authenticates nothing.
PipelineRead(d, c) ==
    IF \E e \in EarlyCandidate(d) : d[e].view.cred = c
    THEN FirstHighest(d, SameTxid(d, c))
    ELSE {}

-------------------------------------------------------------------------------
(* The container as create leaves it: three equal replicas. *)
Init ==
    /\ \E c \in Creds, b \in Bodies :
          LET v == [txid |-> 0, wm |-> 0, cred |-> c, body |-> b]
          IN  /\ disk = [i \in Replicas |-> [view |-> v, mac |-> c, framed |-> TRUE]]
              /\ acked = v
              /\ since = {v}
              /\ key = c
    /\ pc = "closed" /\ writer = "txn" /\ wal = 0
    /\ sb = NoView /\ backup = NoView
    /\ signer = key
    /\ next = 0 /\ okset = {}
    /\ ioErrors = 0 /\ crashes = 0 /\ tears = 0

\* vsb_txn_v3_begin, the new fields in memory, and the start of the commit.
Begin(w, v, k) ==
    /\ writer' = w
    /\ sb' = v
    /\ signer' = k
    /\ pc' = "commit"
    /\ next' = 0
    /\ okset' = {}
    /\ since' = since \cup {v}
    /\ UNCHANGED <<disk, ioErrors, crashes, tears, acked>>

\* Variant: recovery never commits the superblock again.
NeverReplay(v) == FALSE

\* A group whose txid the superblock holds and the watermark does not cover is
\* replayed, and the superblock committed again with the watermark advanced.
MustReplay(v) == wal > v.wm /\ wal <= v.txid

\* Unlock: the pipeline and then the recovery of the transaction log.
Open(c) ==
    /\ pc = "closed"
    /\ key' = c
    /\ \E i \in PipelineRead(disk, c) :
          LET v == disk[i].view
          IN  IF MustReplay(v)
              THEN /\ Begin("recover", [v EXCEPT !.wm = v.txid], c)
                   /\ UNCHANGED <<wal, backup>>
              ELSE /\ pc' = "open"
                   /\ sb' = v
                   /\ wal' = 0
                   /\ UNCHANGED <<disk, writer, backup, signer, next, okset,
                                  ioErrors, crashes, tears, acked, since>>

Lock ==
    /\ pc = "open"
    /\ pc' = "closed"
    /\ sb' = NoView
    /\ UNCHANGED <<disk, writer, wal, key, backup, signer, next, okset,
                   ioErrors, crashes, tears, acked, since>>

\* The commit of a data transaction whose group, PREPARE included, is in the log.
BeginTxn ==
    /\ "txn" \in Kinds
    /\ pc = "open" /\ sb.txid < MaxTxid
    /\ \E b \in Bodies : Begin("txn", [sb EXCEPT !.txid = @ + 1, !.body = b], key)
    /\ wal' = sb.txid + 1
    /\ backup' = sb
    /\ UNCHANGED key

\* Key rotation, and the mark that a DEGRADE asks for one.
BeginRewrite ==
    /\ "rewrite" \in Kinds
    /\ pc = "open"
    /\ \E b \in Bodies \ {sb.body} : Begin("rewrite", [sb EXCEPT !.body = b], key)
    /\ backup' = sb
    /\ UNCHANGED <<wal, key>>

BeginChangePassword ==
    /\ "password" \in Kinds
    /\ pc = "open"
    /\ \E c \in Creds \ {sb.cred}, b \in Bodies :
          Begin("password", [sb EXCEPT !.cred = c, !.body = b], c)
    /\ backup' = sb
    /\ UNCHANGED <<wal, key>>

Written(v, k) == [view |-> v, mac |-> k, framed |-> TRUE]

\* A frame written in part over `old': unreadable (f = FALSE), or with a new
\* header and an HMAC that does not match.  Equal frames have no part that differs.
Torn(old, v, k, f) ==
    IF old = Written(v, k) THEN old ELSE [view |-> v, mac |-> NoMac, framed |-> f]

\* Variant: the loop over the replicas runs once too often.
WriteReplicaOnceMore ==
    /\ pc = "commit" /\ next \in 0..3
    /\ disk' = [disk EXCEPT ![next] = Written(sb, signer)]
    /\ okset' = okset \cup {next}
    /\ next' = next + 1
    /\ UNCHANGED <<pc, writer, wal, sb, key, backup, signer,
                   ioErrors, crashes, tears, acked, since>>

WriteReplica ==
    /\ pc = "commit" /\ next \in Replicas
    /\ disk' = [disk EXCEPT ![next] = Written(sb, signer)]
    /\ okset' = okset \cup {next}
    /\ next' = next + 1
    /\ UNCHANGED <<pc, writer, wal, sb, key, backup, signer,
                   ioErrors, crashes, tears, acked, since>>

\* The write or its fsync fails: the old frame is still there, or the new one
\* is there although the call reported an error, or a part of each.
WriteReplicaFails ==
    /\ pc = "commit" /\ next \in Replicas
    /\ ioErrors < MaxIOErrors
    /\ ioErrors' = ioErrors + 1
    /\ \/ UNCHANGED disk
       \/ disk' = [disk EXCEPT ![next] = Written(sb, signer)]
       \/ \E f \in BOOLEAN : disk' = [disk EXCEPT ![next] = Torn(@, sb, signer, f)]
    /\ next' = next + 1
    /\ UNCHANGED <<pc, writer, wal, sb, key, backup, signer, okset,
                   crashes, tears, acked, since>>

\* The commit is acknowledged; k is the integrity key resident from now on.
\* A data transaction still has to confirm; recovery has reset the log.
Acknowledge(k) ==
    /\ pc' = IF writer = "txn" THEN "confirm" ELSE "open"
    /\ wal' = IF writer = "recover" THEN 0 ELSE wal
    /\ key' = k
    /\ acked' = sb
    /\ since' = {sb}
    /\ UNCHANGED <<disk, writer, sb, backup, signer, next, okset,
                   ioErrors, crashes, tears>>

QuorumWritten(n) == Cardinality(okset) >= n
QuorumVerified == Cardinality(Authentic(disk, signer)) >= 2

\* Variant: the resident integrity key is not updated after the commit.
SucceedWithOldKey ==
    pc = "commit" /\ next = 3 /\ QuorumWritten(2) /\ QuorumVerified /\ Acknowledge(key)

\* Variant: one replica written is a success; the verify read is satisfied by
\* the old ones.
SucceedWithOne ==
    pc = "commit" /\ next = 3 /\ QuorumWritten(1) /\ QuorumVerified /\ Acknowledge(signer)

\* The verify read counts every replica that authenticates, new or old.
Succeed ==
    pc = "commit" /\ next = 3 /\ QuorumWritten(2) /\ QuorumVerified /\ Acknowledge(signer)

\* Fewer than two replicas written, or the verify read fails.  The disk keeps
\* what was written; a writer restores the superblock in memory, the data
\* transaction is then aborted and its group erased, and a recovery that fails
\* fails the unlock.
Fail ==
    /\ pc = "commit" /\ next = 3
    /\ \/ /\ ~(QuorumWritten(2) /\ QuorumVerified)
          /\ UNCHANGED ioErrors
       \/ /\ QuorumWritten(2) /\ ioErrors < MaxIOErrors
          /\ ioErrors' = ioErrors + 1
    /\ IF writer = "recover"
       THEN pc' = "closed" /\ sb' = NoView /\ UNCHANGED wal
       ELSE /\ pc' = "open" /\ sb' = backup
            /\ wal' = IF writer = "txn" THEN 0 ELSE wal
    /\ UNCHANGED <<disk, writer, key, backup, signer, next, okset,
                   crashes, tears, acked, since>>

\* verthys_txn_v3_confirm: the quorum read returns the txid just committed.
Confirm ==
    /\ pc = "confirm"
    /\ \E i \in ReadQuorum(disk, key) : disk[i].view.txid = sb.txid
    /\ wal' = 0
    /\ pc' = "open"
    /\ UNCHANGED <<disk, writer, sb, key, backup, signer, next, okset,
                   ioErrors, crashes, tears, acked, since>>

Halt ==
    /\ crashes < MaxCrashes
    /\ pc = "commit" => writer \in Interrupted \cup {"recover"}
    /\ crashes' = crashes + 1
    /\ pc' = "closed"
    /\ sb' = NoView
    /\ UNCHANGED <<writer, wal, key, backup, signer, next, okset, ioErrors, acked, since>>

Crash == pc # "closed" /\ Halt /\ UNCHANGED <<disk, tears>>

\* Power is lost while a frame is being written.
CrashTorn ==
    /\ pc = "commit" /\ next \in Replicas
    /\ tears < MaxTears
    /\ tears' = tears + 1
    /\ Halt
    /\ \E f \in BOOLEAN : disk' = [disk EXCEPT ![next] = Torn(@, sb, signer, f)]

Next ==
    \/ \E c \in Creds : Open(c)
    \/ Lock
    \/ BeginTxn \/ BeginRewrite \/ BeginChangePassword
    \/ WriteReplica \/ WriteReplicaFails
    \/ Succeed \/ Fail \/ Confirm
    \/ Crash \/ CrashTorn

Spec == Init /\ [][Next]_vars

-------------------------------------------------------------------------------
TypeOK ==
    /\ disk \in [Replicas -> Slot]
    /\ pc \in {"closed", "open", "commit", "confirm"}
    /\ writer \in AllKinds \cup {"recover"} /\ wal \in 0..MaxTxid
    /\ sb \in View \cup {NoView} /\ (pc # "closed" => sb \in View)
    /\ backup \in View \cup {NoView} 
    /\ (pc = "commit" /\ writer # "recover" => backup \in View)
    /\ key \in Creds /\ signer \in Creds
    /\ next \in 0..3 /\ okset \subseteq Replicas
    /\ ioErrors \in 0..MaxIOErrors /\ crashes \in 0..MaxCrashes /\ tears \in 0..MaxTears
    /\ acked \in View /\ since \subseteq View

\* However many writes fail and crashes tear a frame, vsb_v3_read_quorum never
\* goes back behind a commit that returned OK: what it returns is that commit's
\* view or one proposed later.  (ok_count >= 2 against agree >= 2.)
ReaderKeepsAck ==
    \A c \in Creds : \A i \in ReadQuorum(disk, c) : disk[i].view \in since

\* A commit that returned OK and has no later attempt is what the quorum read
\* returns: the confirm step of a transaction relies on it.
AckIsReadBack ==
    since = {acked} =>
        \E i \in ReadQuorum(disk, acked.cred) : disk[i].view = acked

\* At every instant, also between two replica writes of a change of password, a
\* crash leaves a container that one credential opens and no other does.
OneCredOpens ==
    \E c \in Creds :
        /\ PipelineRead(disk, c) # {}
        /\ \A d \in Creds \ {c} : PipelineRead(disk, d) = {}

\* What the next unlock reads.
Delivered(d) ==
    LET c == CHOOSE c \in Creds : PipelineRead(d, c) # {}
    IN  IF \E k \in Creds : PipelineRead(d, k) # {}
        THEN d[CHOOSE i \in PipelineRead(d, c) : TRUE].view
        ELSE NoView

\* Three replicas written one by one are a value that is replaced in one step:
\* whatever an unlock has read is what every later unlock reads until a commit
\* replaces it.  Only crashes between two replica writes are considered.
Cell == INSTANCE AtomicCell WITH
            Value <- View,
            value <- Delivered(disk),
            proposed <- IF pc = "commit" THEN sb ELSE Delivered(disk)
RefinesCell == Cell!Spec

\* The unlock pipeline never goes back behind a commit that returned OK.
PipelineKeepsAck ==
    \A c \in Creds : \A i \in PipelineRead(disk, c) : disk[i].view \in since

\* Some credential opens the container (half-written replicas are covered by
\* the read quorum and the HMAC, container_v3.h:242-243).
SomeCredOpens == \E c \in Creds : PipelineRead(disk, c) # {}
===============================================================================
