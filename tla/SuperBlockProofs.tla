--------------------------- MODULE SuperBlockProofs ---------------------------
(***************************************************************************)
(* For every set of credentials and contents, every number of commits,     *)
(* failed writes, crashes and torn frames: vsb_v3_read_quorum never goes   *)
(* back behind a commit that returned OK.                                  *)
(***************************************************************************)
EXTENDS SuperBlock, FiniteSetTheorems, TLAPS

\* Two of the three replicas: what a count of at least 2 means.
LEMMA TwoMembers ==
    ASSUME NEW S \in SUBSET Replicas, Cardinality(S) >= 2
    PROVE  \E a, b \in S : a # b
<1>1. S # {}
  BY FS_EmptySet
<1>2. PICK a \in S : TRUE
  BY <1>1
<1>3. S # {a}
  <2>1. Cardinality({a}) = 1
    BY FS_Singleton
  <2>2. QED
    BY <2>1
<1>4. QED
  BY <1>2, <1>3

LEMMA ViewFields ==
    ASSUME NEW v \in View
    PROVE  /\ \A b \in Bodies : [v EXCEPT !.body = b] \in View
           /\ \A c \in Creds, b \in Bodies : [v EXCEPT !.cred = c, !.body = b] \in View
           /\ [v EXCEPT !.wm = v.txid] \in View
           /\ v.txid \in Nat /\ v.wm \in Nat
           /\ v.txid < MaxTxid =>
                \A b \in Bodies : [v EXCEPT !.txid = @ + 1, !.body = b] \in View
<1>1. MaxTxid \in Nat
  BY SuperBlockAssumption
<1>2. v.txid \in 0..MaxTxid /\ v.wm \in 0..MaxTxid
  BY DEF View
<1>3. v.txid \in Nat /\ v.wm \in Nat
  BY <1>1, <1>2
<1>4. v.txid < MaxTxid => v.txid + 1 \in 0..MaxTxid
  BY <1>1, <1>2
<1>5. ASSUME v.txid < MaxTxid, NEW b \in Bodies
      PROVE  [v EXCEPT !.txid = @ + 1, !.body = b] \in View
  BY <1>4, <1>5 DEF View
<1>6. /\ \A b \in Bodies : [v EXCEPT !.body = b] \in View
      /\ \A c \in Creds, b \in Bodies : [v EXCEPT !.cred = c, !.body = b] \in View
      /\ [v EXCEPT !.wm = v.txid] \in View
  BY <1>2 DEF View
<1>7. QED
  BY <1>3, <1>5, <1>6

LEMMA SlotTypes ==
    ASSUME NEW v \in View, NEW k \in Creds, NEW old \in Slot
    PROVE  /\ Written(v, k) \in Slot
           /\ \A f \in BOOLEAN : Torn(old, v, k, f) \in Slot
BY DEF Slot, Written, Torn

LEMMA PipelineReads ==
    ASSUME NEW c \in Creds, NEW i \in PipelineRead(disk, c)
    PROVE  i \in Replicas
BY DEF PipelineRead, FirstHighest, SameTxid, Authentic

LEMMA BeginType ==
    ASSUME TypeOK, NEW w \in AllKinds \cup {"recover"}, NEW v \in View,
           NEW k \in Creds, Begin(w, v, k), wal' \in 0..MaxTxid, key' \in Creds,
           backup' \in View \cup {NoView}, w # "recover" => backup' \in View
    PROVE  TypeOK'
BY DEF TypeOK, Begin, Replicas

LEMMA FirstTypes == Init => TypeOK
  BY SuperBlockAssumption DEF Init, TypeOK, View, Slot, Replicas, AllKinds

(* Every reachable state of the replicas, the writer and the log is typed.   *)
THEOREM TypeCorrect == Spec => []TypeOK
<1>1. Init => TypeOK
  BY FirstTypes
<1>2. TypeOK /\ [Next]_vars => TypeOK'
  <2> SUFFICES ASSUME TypeOK, [Next]_vars
               PROVE  TypeOK'
    OBVIOUS
  <2> USE SuperBlockAssumption
  <2>1. ASSUME NEW c \in Creds, Open(c)
        PROVE  TypeOK'
    <3>1. PICK i \in PipelineRead(disk, c) :
             LET v == disk[i].view
             IN  IF MustReplay(v)
                 THEN /\ Begin("recover", [v EXCEPT !.wm = v.txid], c)
                      /\ UNCHANGED <<wal, backup>>
                 ELSE /\ pc' = "open"
                      /\ sb' = v
                      /\ wal' = 0
                      /\ UNCHANGED <<disk, writer, backup, signer, next, okset,
                                     ioErrors, crashes, tears, acked, since>>
      BY <2>1 DEF Open
    <3>2. disk[i].view \in View
      BY PipelineReads DEF TypeOK, Slot
    <3>3. key' \in Creds
      BY <2>1 DEF Open
    <3>4. CASE MustReplay(disk[i].view)
      BY <3>1, <3>2, <3>3, <3>4, ViewFields, BeginType DEF TypeOK
    <3>5. CASE ~MustReplay(disk[i].view)
      BY <3>1, <3>2, <3>3, <3>5 DEF TypeOK
    <3>6. QED
      BY <3>4, <3>5
  <2>2. ASSUME BeginTxn
        PROVE  TypeOK'
    <3>1. sb \in View /\ sb.txid + 1 \in 0..MaxTxid
      BY <2>2 DEF BeginTxn, TypeOK, View
    <3>2. QED
      BY <2>2, <3>1, ViewFields, BeginType DEF BeginTxn, TypeOK, AllKinds
  <2>3. ASSUME BeginRewrite
        PROVE  TypeOK'
    <3>1. sb \in View
      BY <2>3 DEF BeginRewrite, TypeOK
    <3>2. QED
      BY <2>3, <3>1, ViewFields, BeginType DEF BeginRewrite, TypeOK, AllKinds
  <2>4. ASSUME BeginChangePassword
        PROVE  TypeOK'
    <3>1. sb \in View
      BY <2>4 DEF BeginChangePassword, TypeOK
    <3>2. QED
      BY <2>4, <3>1, ViewFields, BeginType DEF BeginChangePassword, TypeOK, AllKinds
  <2>5. ASSUME WriteReplica
        PROVE  TypeOK'
    <3>1. disk' \in [Replicas -> Slot]
      BY <2>5, SlotTypes DEF WriteReplica, TypeOK
    <3>2. QED
      BY <2>5, <3>1 DEF WriteReplica, TypeOK, Replicas
  <2>6. ASSUME WriteReplicaFails
        PROVE  TypeOK'
    <3>1. disk' \in [Replicas -> Slot]
      BY <2>6, SlotTypes DEF WriteReplicaFails, TypeOK
    <3>2. QED
      BY <2>6, <3>1 DEF WriteReplicaFails, TypeOK, Replicas
  <2>7. ASSUME CrashTorn
        PROVE  TypeOK'
    <3>1. disk' \in [Replicas -> Slot]
      BY <2>7, SlotTypes DEF CrashTorn, TypeOK
    <3>2. QED
      BY <2>7, <3>1 DEF CrashTorn, Halt, TypeOK
  <2>8. CASE Lock \/ Confirm \/ Crash
    BY <2>8 DEF Lock, Confirm, Crash, Halt, TypeOK
  <2>9. CASE Succeed
    BY <2>9 DEF Succeed, Acknowledge, TypeOK
  <2>10. CASE Fail
    BY <2>10 DEF Fail, TypeOK
  <2>11. CASE UNCHANGED vars
    BY <2>11 DEF vars, TypeOK
  <2>12. QED
    BY <2>1, <2>2, <2>3, <2>4, <2>5, <2>6, <2>7, <2>8, <2>9, <2>10, <2>11 DEF Next
<1>3. QED
  BY <1>1, <1>2, PTL DEF Spec

-------------------------------------------------------------------------------
(* The inductive invariant.  At most one replica is stale, that is, shows a   *)
(* view older than the last acknowledged one; a commit can be acknowledged    *)
(* only when two replicas show its view.                                      *)

FewStale ==
    \A i, j \in Replicas :
        i # j => disk[i].view \in since \/ disk[j].view \in since

Committing ==
    pc = "commit" => /\ sb \in since
                     /\ \A i \in okset : disk[i].view = sb

IInv == TypeOK /\ FewStale /\ Committing

\* Two replicas that agree cannot both be stale.
LEMMA FewStaleSuffices == IInv => ReaderKeepsAck
<1> SUFFICES ASSUME IInv, NEW c \in Creds, NEW i \in ReadQuorum(disk, c)
             PROVE  disk[i].view \in since
  BY DEF ReaderKeepsAck
<1> DEFINE S == {j \in Authentic(disk, c) : disk[j].view = disk[i].view}
<1>1. i \in Replicas /\ Cardinality(S) >= 2
  BY DEF ReadQuorum, FirstHighest, Agreeing, Authentic
<1>2. S \in SUBSET Replicas
  BY DEF Authentic
<1>3. PICK a, b \in S : a # b
  BY <1>1, <1>2, TwoMembers
<1>4. disk[a].view \in since \/ disk[b].view \in since
  BY <1>2, <1>3 DEF IInv, FewStale
<1>5. QED
  BY <1>3, <1>4

\* A frame written in whole or in part shows the proposed view or the old one.
LEMMA WrittenShows ==
    ASSUME NEW v, NEW k, NEW old, NEW f
    PROVE  Written(v, k).view = v /\ Torn(old, v, k, f).view = v
BY DEF Written, Torn

LEMMA BeginKeeps ==
    ASSUME IInv, NEW w, NEW v, NEW k, Begin(w, v, k)
    PROVE  FewStale' /\ Committing'
BY DEF IInv, FewStale, Committing, Begin

\* Writing one slot with the proposed view disturbs neither part.
LEMMA SlotKeeps ==
    ASSUME IInv, pc = "commit", UNCHANGED since, next \in Replicas,
           NEW s, disk' = [disk EXCEPT ![next] = s], s.view = sb
    PROVE  /\ FewStale'
           /\ \A i \in okset \cup {next} : disk'[i].view = sb
<1>1. disk \in [Replicas -> Slot] /\ okset \subseteq Replicas
  BY DEF IInv, TypeOK
<1>2. \A i \in Replicas : disk'[i].view = IF i = next THEN sb ELSE disk[i].view
  BY <1>1
<1>3. sb \in since /\ \A i \in okset : disk[i].view = sb
  BY DEF IInv, Committing
<1>4. QED
  BY <1>1, <1>2, <1>3 DEF IInv, FewStale

LEMMA FirstInv == Init => IInv
<1> SUFFICES ASSUME Init PROVE IInv
  OBVIOUS
<1>1. PICK c \in Creds, b \in Bodies :
         LET v == [txid |-> 0, wm |-> 0, cred |-> c, body |-> b]
         IN  /\ disk = [i \in Replicas |-> [view |-> v, mac |-> c, framed |-> TRUE]]
             /\ since = {v}
  BY DEF Init
<1>2. FewStale
  BY <1>1 DEF FewStale
<1>3. Committing
  BY DEF Init, Committing
<1>4. QED
  BY <1>2, <1>3, FirstTypes DEF IInv

LEMMA Inductive == Spec => []IInv
<1>1. Init => FewStale /\ Committing
  BY FirstInv DEF IInv
<1>2. IInv /\ TypeOK' /\ [Next]_vars => IInv'
  <2> SUFFICES ASSUME IInv, [Next]_vars
               PROVE  FewStale' /\ Committing'
    BY DEF IInv
  <2>1. ASSUME NEW c \in Creds, Open(c)
        PROVE  FewStale' /\ Committing'
    <3>1. PICK i \in PipelineRead(disk, c) :
             IF MustReplay(disk[i].view)
             THEN Begin("recover", [disk[i].view EXCEPT !.wm = disk[i].view.txid], c)
             ELSE pc' = "open" /\ UNCHANGED <<disk, since>>
      BY <2>1 DEF Open
    <3>2. CASE MustReplay(disk[i].view)
      BY <3>1, <3>2, BeginKeeps
    <3>3. CASE ~MustReplay(disk[i].view)
      BY <3>1, <3>3 DEF IInv, FewStale, Committing
    <3>4. QED
      BY <3>2, <3>3
  <2>2. CASE BeginTxn \/ BeginRewrite \/ BeginChangePassword
    BY <2>2, BeginKeeps DEF BeginTxn, BeginRewrite, BeginChangePassword
  <2>3. CASE WriteReplica
    <3>1. FewStale' /\ \A i \in okset \cup {next} : disk'[i].view = sb
      BY <2>3, SlotKeeps, WrittenShows DEF WriteReplica
    <3>2. QED
      BY <2>3, <3>1 DEF WriteReplica, IInv, Committing
  <2>4. CASE WriteReplicaFails
    <3>1. CASE UNCHANGED disk
      BY <2>4, <3>1 DEF WriteReplicaFails, IInv, FewStale, Committing
    <3>2. CASE \E s : disk' = [disk EXCEPT ![next] = s] /\ s.view = sb
      <4>1. FewStale' /\ \A i \in okset \cup {next} : disk'[i].view = sb
        BY <2>4, <3>2, SlotKeeps DEF WriteReplicaFails
      <4>2. QED
        BY <2>4, <4>1 DEF WriteReplicaFails, IInv, Committing
    <3>3. QED
      BY <2>4, <3>1, <3>2, WrittenShows DEF WriteReplicaFails
  <2>5. CASE Succeed
    <3>1. PICK a, b \in okset : a # b
      BY <2>5, TwoMembers DEF Succeed, QuorumWritten, IInv, TypeOK
    <3>2. disk[a].view = sb /\ disk[b].view = sb /\ a \in Replicas /\ b \in Replicas
      BY <2>5, <3>1 DEF Succeed, IInv, Committing, TypeOK
    <3>3. FewStale'
      BY <2>5, <3>1, <3>2 DEF Succeed, Acknowledge, FewStale, Replicas
    <3>4. QED
      BY <2>5, <3>3 DEF Succeed, Acknowledge, Committing
  <2>6. CASE CrashTorn
    <3>1. PICK f \in BOOLEAN :
             disk' = [disk EXCEPT ![next] = Torn(disk[next], sb, signer, f)]
      BY <2>6 DEF CrashTorn
    <3>2. Torn(disk[next], sb, signer, f).view = sb
      BY WrittenShows
    <3>3. FewStale'
      BY <2>6, <3>1, <3>2, SlotKeeps DEF CrashTorn, Halt
    <3>4. QED
      BY <2>6, <3>3 DEF CrashTorn, Halt, Committing
  <2>7. CASE Lock \/ Fail \/ Confirm \/ Crash
    BY <2>7 DEF Lock, Fail, Confirm, Crash, Halt, IInv, FewStale, Committing
  <2>8. CASE UNCHANGED vars
    BY <2>8 DEF vars, IInv, FewStale, Committing
  <2>9. QED
    BY <2>1, <2>2, <2>3, <2>4, <2>5, <2>6, <2>7, <2>8 DEF Next
<1>3. TypeOK /\ FewStale /\ Committing => IInv
  BY DEF IInv
<1>4. QED
  BY <1>1, <1>2, <1>3, TypeCorrect, PTL DEF Spec

(* However many writes fail and crashes tear a frame, what vsb_v3_read_quorum  *)
(* returns is the view of the last commit that returned OK or a later one.     *)
THEOREM NeverBehindAck == Spec => []ReaderKeepsAck
  BY Inductive, FewStaleSuffices, PTL
-------------------------------------------------------------------------------
(* The key a replica is signed with is the one its own salt gives, and the    *)
(* last acknowledged view stays on two replicas until another one is tried.   *)

SignedByItself ==
    \A i \in Replicas : disk[i].mac # NoMac => disk[i].mac = disk[i].view.cred

Keys ==
    /\ pc \in {"open", "confirm"} => key = sb.cred
    /\ pc = "commit" => signer = sb.cred
    /\ pc = "commit" /\ writer # "recover" => key = backup.cred

\* Those the commit has written carry the whole frame, not its view alone.
Complete == pc = "commit" => \A i \in okset : disk[i] = Written(sb, signer)

AckStays ==
    since = {acked} =>
        \E a, b \in Replicas : /\ a # b
                               /\ disk[a] = Written(acked, acked.cred)
                               /\ disk[b] = Written(acked, acked.cred)

SignInv == SignedByItself /\ Keys /\ Complete /\ AckStays /\ acked \in since

LEMMA CountTwo ==
    ASSUME NEW S \in SUBSET Replicas, NEW a \in S, NEW b \in S, a # b
    PROVE  Cardinality(S) >= 2
<1>1. IsFiniteSet(Replicas)
  BY 0 \in Int, 2 \in Int, FS_Interval DEF Replicas
<1>2. IsFiniteSet(S)
  BY <1>1, FS_Subset
<1>3. Cardinality(S) \in Nat /\ S # {}
  BY <1>2, FS_CardinalityType
<1>4. Cardinality(S) # 0
  BY <1>2, <1>3, FS_EmptySet
<1>5. Cardinality(S) # 1
  <2> SUFFICES ASSUME Cardinality(S) = 1 PROVE FALSE
    OBVIOUS
  <2>1. PICK x : S = {x}
    BY <1>2, FS_Singleton
  <2>2. QED
    BY <2>1
<1>6. QED
  BY <1>3, <1>4, <1>5

\* Two replicas that carry the last acknowledged view are a quorum, and no
\* other view has one.
LEMMA StaysSuffices == TypeOK /\ AckStays => AckIsReadBack
<1> SUFFICES ASSUME TypeOK, AckStays, since = {acked}
             PROVE  \E i \in ReadQuorum(disk, acked.cred) : disk[i].view = acked
  BY DEF AckIsReadBack
<1> DEFINE A == Agreeing(disk, acked.cred)
           Same(i) == {j \in Authentic(disk, acked.cred) : disk[j].view = disk[i].view}
<1>1. PICK a, b \in Replicas : /\ a # b
                               /\ disk[a] = Written(acked, acked.cred)
                               /\ disk[b] = Written(acked, acked.cred)
  BY DEF AckStays
<1>2. a \in Authentic(disk, acked.cred) /\ b \in Authentic(disk, acked.cred)
      /\ disk[a].view = acked /\ disk[b].view = acked
  BY <1>1 DEF Authentic, Written
<1>3. a \in A
  <2>1. Same(a) \in SUBSET Replicas /\ a \in Same(a) /\ b \in Same(a)
    BY <1>2 DEF Authentic
  <2>2. Cardinality(Same(a)) >= 2
    BY <1>1, <2>1, CountTwo
  <2>3. QED
    BY <1>2, <2>2 DEF Agreeing
<1>4. ASSUME NEW i \in A PROVE i \in Replicas /\ disk[i].view = acked
  <2>1. i \in Replicas /\ Same(i) \in SUBSET Replicas /\ Cardinality(Same(i)) >= 2
    BY <1>4 DEF Agreeing, Authentic
  <2>2. PICK x, y \in Same(i) : x # y
    BY <2>1, TwoMembers
  <2>3. x \in {a, b} \/ y \in {a, b}
    BY <1>1, <2>1, <2>2 DEF Replicas
  <2>4. QED
    BY <1>2, <2>1, <2>2, <2>3
<1>5. acked.txid \in Nat
  BY ViewFields DEF TypeOK
<1>6. PICK i \in A : \A j \in A : i <= j
  <2>1. A \subseteq {0, 1, 2}
    BY <1>4 DEF Replicas
  <2> HIDE DEF A
  <2>2. QED
    BY <1>3, <2>1
<1>7. i \in ReadQuorum(disk, acked.cred)
  BY <1>4, <1>6 DEF ReadQuorum, FirstHighest
<1>8. QED
  BY <1>4, <1>7

LEMMA BeginSigns ==
    ASSUME TypeOK, SignInv, NEW w, NEW v \in View, Begin(w, v, v.cred),
           w # "recover" => backup' = sb /\ key' = key /\ key = sb.cred
    PROVE  SignInv'
<1>1. SignedByItself' /\ (acked \in since)' /\ Complete'
  BY DEF SignInv, SignedByItself, Begin, Complete
<1>2. Keys'
  BY DEF Begin, Keys
<1>3. AckStays'
  BY DEF SignInv, AckStays, Begin
<1>4. QED
  BY <1>1, <1>2, <1>3 DEF SignInv

\* Writing the slot of a commit under way, whole or torn.
LEMMA SlotSigns ==
    ASSUME TypeOK, Committing, SignInv, pc = "commit", next \in Replicas, NEW s,
           disk' = [disk EXCEPT ![next] = s],
           s = Written(sb, signer) \/ (\E f \in BOOLEAN : s = Torn(disk[next], sb, signer, f)),
           UNCHANGED <<since, acked>>
    PROVE  /\ SignedByItself' /\ AckStays' /\ (acked \in since)'
           /\ \A i \in okset : disk[i] = Written(sb, signer) => disk'[i] = Written(sb, signer)
           /\ s = Written(sb, signer) => disk'[next] = Written(sb, signer)
<1>1. disk \in [Replicas -> Slot] /\ okset \subseteq Replicas /\ signer \in Creds
  BY DEF TypeOK
<1>2. \A i \in Replicas : disk'[i] = IF i = next THEN s ELSE disk[i]
  BY <1>1
<1>3. signer = sb.cred /\ sb \in since
  BY DEF SignInv, Keys, Committing
<1>4. s.mac # NoMac => s.mac = s.view.cred
  BY <1>2, <1>3 DEF SignInv, SignedByItself, Written, Torn
<1>5. disk[next] = Written(sb, signer) => s = Written(sb, signer)
  BY DEF Torn
<1>6. SignedByItself'
  BY <1>2, <1>4 DEF SignInv, SignedByItself
<1>7. AckStays'
  <2> SUFFICES ASSUME since = {acked}
               PROVE  \E a, b \in Replicas : /\ a # b
                                             /\ disk'[a] = Written(acked, acked.cred)
                                             /\ disk'[b] = Written(acked, acked.cred)
    BY DEF AckStays
  <2>1. sb = acked
    BY <1>3
  <2>2. PICK a, b \in Replicas : /\ a # b
                                 /\ disk[a] = Written(acked, acked.cred)
                                 /\ disk[b] = Written(acked, acked.cred)
    BY DEF SignInv, AckStays
  <2>3. QED
    BY <1>2, <1>3, <1>5, <2>1, <2>2
<1>8. QED
  BY <1>1, <1>2, <1>5, <1>6, <1>7 DEF SignInv

LEMMA SignInit == Init => SignInv
<1> SUFFICES ASSUME Init PROVE SignInv
  OBVIOUS
<1>1. PICK c \in Creds, b \in Bodies :
         LET v == [txid |-> 0, wm |-> 0, cred |-> c, body |-> b]
         IN  /\ disk = [i \in Replicas |-> [view |-> v, mac |-> c, framed |-> TRUE]]
             /\ acked = v
             /\ since = {v}
             /\ key = c
  BY DEF Init
<1>2. \A i \in Replicas : disk[i] = Written(acked, acked.cred)
  BY <1>1 DEF Written
<1>3. 0 \in Replicas /\ 1 \in Replicas
  BY DEF Replicas
<1>4. QED
  BY <1>1, <1>2, <1>3
     DEF Init, SignInv, SignedByItself, Keys, Complete, AckStays, Written

LEMMA SignNext == IInv /\ SignInv /\ [Next]_vars => SignInv'
<1> SUFFICES ASSUME IInv, SignInv, [Next]_vars
             PROVE  SignInv'
  OBVIOUS
<1> USE DEF IInv
<1>1. ASSUME NEW c \in Creds, Open(c)
      PROVE  SignInv'
  <2>1. PICK i \in PipelineRead(disk, c) :
           IF MustReplay(disk[i].view)
           THEN Begin("recover", [disk[i].view EXCEPT !.wm = disk[i].view.txid], c)
           ELSE pc' = "open" /\ sb' = disk[i].view /\ UNCHANGED <<disk, since, acked>>
    BY <1>1 DEF Open
  <2>2. i \in Replicas /\ disk[i].mac = c
    BY DEF PipelineRead, FirstHighest, SameTxid, Authentic
  <2>3. disk[i].view \in View /\ disk[i].view.cred = c
    BY <2>2, SuperBlockAssumption DEF TypeOK, Slot, SignInv, SignedByItself
  <2>4. CASE MustReplay(disk[i].view)
    <3>1. PICK v : v = [disk[i].view EXCEPT !.wm = disk[i].view.txid]
      OBVIOUS
    <3>2. v \in View /\ v.cred = c
      BY <2>3, <3>1, ViewFields DEF View
    <3>3. QED
      BY <2>1, <2>4, <3>1, <3>2, BeginSigns
  <2>5. CASE ~MustReplay(disk[i].view)
    BY <1>1, <2>1, <2>3, <2>5
       DEF Open, SignInv, SignedByItself, Keys, Complete, AckStays
  <2>6. QED
    BY <2>4, <2>5
<1>2. ASSUME NEW w \in AllKinds, pc = "open", UNCHANGED key, backup' = sb,
             NEW v \in View, Begin(w, v, v.cred)
      PROVE  SignInv'
  BY <1>2, BeginSigns DEF SignInv, Keys, AllKinds
<1>3. CASE BeginTxn
  <2>1. PICK b \in Bodies : Begin("txn", [sb EXCEPT !.txid = @ + 1, !.body = b], key)
    BY <1>3 DEF BeginTxn
  <2>2. PICK v : v = [sb EXCEPT !.txid = @ + 1, !.body = b]
    OBVIOUS
  <2>3. sb \in View /\ sb.txid < MaxTxid /\ key = sb.cred
    BY <1>3 DEF BeginTxn, TypeOK, SignInv, Keys
  <2>4. v \in View /\ v.cred = key
    BY <2>2, <2>3, ViewFields DEF View
  <2>5. QED
    BY <1>2, <1>3, <2>1, <2>2, <2>4 DEF BeginTxn, AllKinds
<1>4. CASE BeginRewrite
  <2>1. PICK b \in Bodies : Begin("rewrite", [sb EXCEPT !.body = b], key)
    BY <1>4 DEF BeginRewrite
  <2>2. PICK v : v = [sb EXCEPT !.body = b]
    OBVIOUS
  <2>3. sb \in View /\ key = sb.cred
    BY <1>4 DEF BeginRewrite, TypeOK, SignInv, Keys
  <2>4. v \in View /\ v.cred = key
    BY <2>2, <2>3, ViewFields DEF View
  <2>5. QED
    BY <1>2, <1>4, <2>1, <2>2, <2>4 DEF BeginRewrite, AllKinds
<1>5. CASE BeginChangePassword
  <2>1. PICK c \in Creds, b \in Bodies :
           Begin("password", [sb EXCEPT !.cred = c, !.body = b], c)
    BY <1>5 DEF BeginChangePassword
  <2>2. PICK v : v = [sb EXCEPT !.cred = c, !.body = b]
    OBVIOUS
  <2>3. sb \in View
    BY <1>5 DEF BeginChangePassword, TypeOK
  <2>4. v \in View /\ v.cred = c
    BY <2>2, <2>3, ViewFields DEF View
  <2>5. QED
    BY <1>2, <1>5, <2>1, <2>2, <2>4 DEF BeginChangePassword, AllKinds
<1>6. CASE WriteReplica
  <2>1. /\ SignedByItself' /\ AckStays' /\ (acked \in since)'
        /\ \A i \in okset : disk[i] = Written(sb, signer) => disk'[i] = Written(sb, signer)
        /\ disk'[next] = Written(sb, signer)
    BY <1>6, SlotSigns DEF WriteReplica
  <2>2. Complete' /\ Keys'
    BY <1>6, <2>1 DEF WriteReplica, SignInv, Complete, Keys
  <2>3. QED
    BY <2>1, <2>2 DEF SignInv
<1>7. CASE WriteReplicaFails
  <2>1. CASE UNCHANGED disk
    BY <1>7, <2>1 DEF WriteReplicaFails, SignInv, SignedByItself, Keys, Complete, AckStays
  <2>2. ASSUME NEW s, disk' = [disk EXCEPT ![next] = s],
               s = Written(sb, signer) \/ (\E f \in BOOLEAN : s = Torn(disk[next], sb, signer, f))
        PROVE  SignInv'
    <3>1. /\ SignedByItself' /\ AckStays' /\ (acked \in since)'
          /\ \A i \in okset : disk[i] = Written(sb, signer) => disk'[i] = Written(sb, signer)
      BY <1>7, <2>2, SlotSigns DEF WriteReplicaFails
    <3>2. Complete' /\ Keys'
      BY <1>7, <3>1 DEF WriteReplicaFails, SignInv, Complete, Keys
    <3>3. QED
      BY <3>1, <3>2 DEF SignInv
  <2>3. QED
    BY <1>7, <2>1, <2>2 DEF WriteReplicaFails
<1>8. CASE Succeed
  <2>1. PICK a, b \in okset : a # b
    BY <1>8, TwoMembers DEF Succeed, QuorumWritten, TypeOK
  <2>2. /\ disk[a] = Written(sb, sb.cred) /\ disk[b] = Written(sb, sb.cred)
        /\ a \in Replicas /\ b \in Replicas /\ signer = sb.cred
    BY <1>8 DEF Succeed, SignInv, Complete, Keys, TypeOK
  <2>3. AckStays'
    BY <1>8, <2>1, <2>2 DEF Succeed, Acknowledge, AckStays
  <2>4. SignedByItself' /\ Complete' /\ (acked \in since)'
    BY <1>8 DEF Succeed, Acknowledge, SignInv, SignedByItself, Complete
  <2>5. Keys'
    BY <1>8, <2>2 DEF Succeed, Acknowledge, Keys
  <2>6. QED
    BY <2>3, <2>4, <2>5 DEF SignInv
<1>9. CASE CrashTorn
  <2>1. PICK f \in BOOLEAN :
           disk' = [disk EXCEPT ![next] = Torn(disk[next], sb, signer, f)]
    BY <1>9 DEF CrashTorn
  <2>2. SignedByItself' /\ AckStays' /\ (acked \in since)'
    BY <1>9, <2>1, SlotSigns DEF CrashTorn, Halt
  <2>3. Complete' /\ Keys'
    BY <1>9 DEF CrashTorn, Halt, Complete, Keys
  <2>4. QED
    BY <2>2, <2>3 DEF SignInv
<1>10. CASE Fail
  BY <1>10 DEF Fail, SignInv, SignedByItself, Keys, Complete, AckStays
<1>11. CASE Lock \/ Confirm \/ Crash
  BY <1>11 DEF Lock, Confirm, Crash, Halt, SignInv, SignedByItself, Keys, Complete, AckStays
<1>12. CASE UNCHANGED vars
  BY <1>12 DEF vars, SignInv, SignedByItself, Keys, Complete, AckStays
<1>13. QED
  BY <1>1, <1>3, <1>4, <1>5, <1>6, <1>7, <1>8, <1>9, <1>10, <1>11, <1>12 DEF Next

(* A commit that returned OK and has no later attempt is what the quorum read *)
(* with its own key returns (vsb_v3_read_quorum, verthys_txn_v3_confirm).     *)
THEOREM AckReadBack == Spec => []AckIsReadBack
<1>1. IInv => TypeOK
  BY DEF IInv
<1>2. SignInv => AckStays
  BY DEF SignInv
<1>3. QED
  BY <1>1, <1>2, Inductive, SignInit, SignNext, StaysSuffices, PTL DEF Spec
-------------------------------------------------------------------------------
(* The replicas as one value.  At most one crash, in a data transaction or at *)
(* rest, and no failing write: the setting in which the three replicas, their *)
(* salts and their txids cannot be told from a value replaced in one step.    *)

OneInterruption ==
    /\ MaxIOErrors = 0 /\ MaxTears = 0 /\ MaxCrashes <= 1
    /\ Interrupted \subseteq {"txn"}

Whole(d) == \A i \in Replicas : d[i] = Written(d[i].view, d[i].view.cred)
Shows(i, v) == disk[i].view = v
Alike(v, w) == v.txid = w.txid /\ v.cred = w.cred

\* Between commits: two replicas show v, and the first one may show a version
\* with another txid that an interrupted transaction left.
AtRest(v) ==
    /\ Shows(1, v) /\ Shows(2, v)
    /\ Shows(0, v) \/ (disk[0].view.cred = v.cred /\ disk[0].view.txid # v.txid /\ crashes = 1)

\* An interrupted transaction whose version the next unlock reads is replayed.
ToReplay(v) ==
    /\ Shows(0, v) /\ Shows(1, v) /\ disk[2].view.cred = v.cred
    /\ wal = v.txid /\ v.wm < v.txid /\ crashes = 1

AtClosed == pc = "closed" =>
    \/ AtRest(disk[1].view) /\ wal \in {0, disk[1].view.txid + 1}
    \/ ToReplay(disk[1].view)

AtOpen == pc = "open" => AtRest(sb) /\ wal = 0

AtConfirm == pc = "confirm" =>
    /\ \A i \in Replicas : Shows(i, sb)
    /\ wal = sb.txid /\ sb.wm < sb.txid

\* What the commit under way replaces, and by what.
Replaces ==
    /\ writer = "txn" => /\ sb.txid = backup.txid + 1 /\ sb.cred = backup.cred
                         /\ wal = sb.txid /\ sb.wm < sb.txid
    /\ writer = "rewrite" => Alike(sb, backup) /\ wal = 0
    /\ writer = "password" => sb.txid = backup.txid /\ sb.cred # backup.cred /\ wal = 0

AtCommit == pc = "commit" =>
    /\ okset = {i \in Replicas : i < next}
    /\ \A i \in Replicas : i < next => Shows(i, sb)
    /\ writer # "recover" =>
          /\ Replaces
          /\ \A i \in {1, 2} : i >= next => Shows(i, backup)
          /\ next = 0 => AtRest(backup)
    /\ writer = "recover" =>
          /\ crashes = 1
          /\ \A i \in {0, 1} : i >= next => Alike(disk[i].view, sb)
          /\ next = 0 => Shows(1, disk[0].view)
          /\ 2 >= next => disk[2].view.cred = sb.cred

Marks ==
    /\ \A i \in Replicas : disk[i].view.wm <= disk[i].view.txid
    /\ pc # "closed" => sb.wm <= sb.txid

CellInv == Whole(disk) /\ AtClosed /\ AtOpen /\ AtConfirm /\ AtCommit /\ Marks

(* What the unlock pipeline reads is v, and only with v's credential.         *)
Reads(d, v) ==
    /\ PipelineRead(d, v.cred) # {}
    /\ \A i \in PipelineRead(d, v.cred) : d[i].view = v
    /\ \A c \in Creds \ {v.cred} : PipelineRead(d, c) = {}

LEMMA HighestExists ==
    ASSUME NEW d \in [Replicas -> Slot], NEW S \in SUBSET Replicas, S # {}
    PROVE  FirstHighest(d, S) # {}
<1>1. \A i \in Replicas : d[i].view.txid \in Nat
  BY ViewFields DEF Slot
<1>2. PICK t0, t1, t2 \in Nat :
         t0 = d[0].view.txid /\ t1 = d[1].view.txid /\ t2 = d[2].view.txid
  BY <1>1 DEF Replicas
<1>3. \A i \in S : \/ i = 0 /\ d[i].view.txid = t0
                   \/ i = 1 /\ d[i].view.txid = t1
                   \/ i = 2 /\ d[i].view.txid = t2
  BY <1>2 DEF Replicas
<1>4. \E i \in S : \A j \in S : \/ d[j].view.txid < d[i].view.txid
                                \/ d[j].view.txid = d[i].view.txid /\ i <= j
  BY <1>3
<1>5. QED
  BY <1>4 DEF FirstHighest

\* Two replicas that agree on salt and txid decide what is read.
LEMMA PairReads ==
    ASSUME NEW d \in [Replicas -> Slot], Whole(d), NEW a \in Replicas, NEW b \in Replicas,
           a # b, Alike(d[a].view, d[b].view)
    PROVE  LET k == d[a].view.cred
               S == SameTxid(d, k) IN
           /\ a \in S /\ b \in S /\ S \subseteq Replicas
           /\ \A i \in S : d[i].view.cred = k /\ d[i].view.txid = d[a].view.txid
           /\ PipelineRead(d, k) = FirstHighest(d, S)
           /\ \A c \in Creds \ {k} : PipelineRead(d, c) = {}
<1> DEFINE k == d[a].view.cred
           t == d[a].view.txid
           S == SameTxid(d, k)
           Salt(i) == {j \in Framed(d) : d[j].view.cred = d[i].view.cred}
           Txid(i) == {j \in Authentic(d, k) : d[j].view.txid = d[i].view.txid}
<1>1. \A i \in Replicas : d[i].framed /\ d[i].mac = d[i].view.cred
  BY DEF Whole, Written
<1>2. Framed(d) = Replicas /\ \A i \in Replicas : i \in Authentic(d, k) <=> d[i].view.cred = k
  BY <1>1 DEF Framed, Authentic
<1>3. ASSUME NEW T \in SUBSET Replicas, Cardinality(T) >= 2 PROVE a \in T \/ b \in T
  <2>1. PICK x, y \in T : x # y
    BY <1>3, TwoMembers
  <2>2. QED
    BY <2>1 DEF Replicas
<1>4. a \in SameSalt(d)
  <2>1. Salt(a) \in SUBSET Replicas /\ a \in Salt(a) /\ b \in Salt(a)
    BY <1>2 DEF Alike
  <2>2. QED
    BY <1>2, <2>1, CountTwo DEF SameSalt
<1>5. ASSUME NEW i \in SameSalt(d) PROVE i \in Replicas /\ d[i].view.cred = k
  <2>1. i \in Replicas /\ Salt(i) \in SUBSET Replicas /\ Cardinality(Salt(i)) >= 2
    BY <1>2, <1>5 DEF SameSalt
  <2>2. QED
    BY <1>3, <2>1 DEF Alike
<1>6. EarlyCandidate(d) # {} /\ EarlyCandidate(d) \subseteq SameSalt(d)
  <2>1. EarlyCandidate(d) = FirstHighest(d, SameSalt(d))
    BY <1>4 DEF EarlyCandidate
  <2>2. SameSalt(d) \in SUBSET Replicas
    BY <1>5
  <2>3. QED
    BY <1>4, <2>1, <2>2, HighestExists DEF FirstHighest
<1>7. a \in S /\ b \in S
  <2>1. /\ Txid(a) \in SUBSET Replicas /\ Txid(b) = Txid(a)
        /\ a \in Txid(a) /\ b \in Txid(a)
    BY <1>2 DEF Alike, Authentic
  <2>2. Cardinality(Txid(a)) >= 2
    BY <2>1, CountTwo
  <2>3. QED
    BY <2>1, <2>2 DEF SameTxid
<1>8. ASSUME NEW i \in S PROVE i \in Replicas /\ d[i].view.cred = k /\ d[i].view.txid = t
  <2>1. i \in Replicas /\ Txid(i) \in SUBSET Replicas /\ Cardinality(Txid(i)) >= 2
        /\ i \in Authentic(d, k)
    BY <1>8 DEF SameTxid, Authentic
  <2>2. QED
    BY <1>2, <1>3, <2>1 DEF Alike
<1>9. PipelineRead(d, k) = FirstHighest(d, S) /\ \A c \in Creds \ {k} : PipelineRead(d, c) = {}
  BY <1>5, <1>6 DEF PipelineRead
<1>10. QED
  BY <1>7, <1>8, <1>9

\* When the first two agree, the first is read.
LEMMA ReadsFirst ==
    ASSUME NEW d \in [Replicas -> Slot], Whole(d), Alike(d[0].view, d[1].view)
    PROVE  Reads(d, d[0].view)
<1> DEFINE k == d[0].view.cred
           S == SameTxid(d, k)
<1>1. 0 \in Replicas /\ 1 \in Replicas /\ 0 # 1
  BY DEF Replicas
<1>2. /\ 0 \in S /\ S \subseteq Replicas
      /\ \A i \in S : d[i].view.txid = d[0].view.txid
      /\ PipelineRead(d, k) = FirstHighest(d, S)
      /\ \A c \in Creds \ {k} : PipelineRead(d, c) = {}
  BY <1>1, PairReads
<1>3. d[0].view.txid \in Nat
  BY <1>1, ViewFields DEF Slot
<1>4. \A i \in FirstHighest(d, S) : i = 0
  <2> HIDE DEF S
  <2>1. QED
    BY <1>2, <1>3 DEF FirstHighest, Replicas
<1>5. FirstHighest(d, S) # {}
  BY <1>2, HighestExists
<1>6. QED
  BY <1>2, <1>4, <1>5 DEF Reads

\* When the last two are equal and the first is no match for them, they are.
LEMMA ReadsLater ==
    ASSUME NEW d \in [Replicas -> Slot], Whole(d), d[1].view = d[2].view,
           ~Alike(d[0].view, d[1].view)
    PROVE  Reads(d, d[1].view)
<1> DEFINE k == d[1].view.cred
           S == SameTxid(d, k)
<1>1. 1 \in Replicas /\ 2 \in Replicas /\ 1 # 2
  BY DEF Replicas
<1>2. /\ 1 \in S /\ S \subseteq Replicas
      /\ \A i \in S : d[i].view.cred = k /\ d[i].view.txid = d[1].view.txid
      /\ PipelineRead(d, k) = FirstHighest(d, S)
      /\ \A c \in Creds \ {k} : PipelineRead(d, c) = {}
  BY <1>1, PairReads DEF Alike
<1>3. \A i \in S : d[i].view = d[1].view
  <2>1. \A i \in S : i # 0
    BY <1>2 DEF Alike
  <2> HIDE DEF S
  <2>2. QED
    BY <1>2, <2>1 DEF Replicas
<1>4. FirstHighest(d, S) # {} /\ FirstHighest(d, S) \subseteq S
  BY <1>2, HighestExists DEF FirstHighest
<1>5. QED
  BY <1>2, <1>3, <1>4 DEF Reads

LEMMA ReadsDelivers ==
    ASSUME NEW d, NEW v \in View, Reads(d, v)
    PROVE  Delivered(d) = v
<1>1. v.cred \in Creds
  BY DEF View
<1>2. \A c \in Creds : PipelineRead(d, c) # {} <=> c = v.cred
  BY <1>1 DEF Reads
<1>3. (CHOOSE c \in Creds : PipelineRead(d, c) # {}) = v.cred
  BY <1>1, <1>2
<1>4. (CHOOSE i \in PipelineRead(d, v.cred) : TRUE) \in PipelineRead(d, v.cred)
  BY DEF Reads
<1>5. QED
  BY <1>1, <1>2, <1>3, <1>4 DEF Delivered, Reads

\* What an unlock would read in each situation.
LEMMA RestReads ==
    ASSUME TypeOK, Whole(disk), NEW v \in View, AtRest(v)
    PROVE  Reads(disk, v)
<1>1. disk \in [Replicas -> Slot] /\ disk[1].view = v /\ disk[2].view = v
  BY DEF TypeOK, AtRest, Shows
<1>2. CASE Alike(disk[0].view, v)
  <2>1. disk[0].view = v
    BY <1>2 DEF AtRest, Alike, Shows
  <2>2. QED
    BY <1>1, <1>2, <2>1, ReadsFirst
<1>3. CASE ~Alike(disk[0].view, v)
  BY <1>1, <1>3, ReadsLater
<1>4. QED
  BY <1>2, <1>3

LEMMA ClosedReads ==
    ASSUME TypeOK, CellInv, pc = "closed"
    PROVE  disk[1].view \in View /\ Reads(disk, disk[1].view)
<1>1. disk \in [Replicas -> Slot] /\ 1 \in Replicas
  BY DEF TypeOK, Replicas
<1>2. disk[1].view \in View
  BY <1>1 DEF Slot
<1>3. CASE AtRest(disk[1].view)
  BY <1>2, <1>3, RestReads DEF CellInv
<1>4. CASE ToReplay(disk[1].view)
  <2>1. disk[0].view = disk[1].view
    BY <1>4 DEF ToReplay, Shows
  <2>2. QED
    BY <1>1, <1>2, <2>1, ReadsFirst DEF CellInv, Alike
<1>5. QED
  BY <1>3, <1>4 DEF CellInv, AtClosed

\* The commit takes effect with its first replica when salt and txid stay the
\* same, and with its second when they change.
Switched == next >= 2 \/ (next = 1 /\ writer \in {"rewrite", "recover"})

Current == IF Switched THEN sb ELSE IF writer = "recover" THEN disk[0].view ELSE backup

LEMMA CommitReads ==
    ASSUME TypeOK, CellInv, pc = "commit"
    PROVE  Current \in View /\ Reads(disk, Current)
<1>1. /\ disk \in [Replicas -> Slot] /\ 0 \in Replicas /\ 1 \in Replicas /\ 2 \in Replicas
      /\ sb \in View /\ next \in 0..3 /\ writer \in AllKinds \cup {"recover"}
      /\ writer # "recover" => backup \in View
      /\ Whole(disk) /\ AtCommit
  BY DEF TypeOK, CellInv, Replicas
<1>2. disk[0].view \in View
  BY <1>1 DEF Slot
<1>3. Current \in View
  BY <1>1, <1>2 DEF Current
<1>4. CASE next >= 2
  <2>1. disk[0].view = sb /\ disk[1].view = sb
    BY <1>1, <1>4 DEF AtCommit, Shows
  <2>2. QED
    BY <1>1, <1>3, <1>4, <2>1, ReadsFirst DEF Alike, Current, Switched
<1>5. CASE writer = "recover" /\ next < 2
  <2>1. next = 0 \/ next = 1
    BY <1>1, <1>5
  <2>2. CASE next = 0
    <3>1. Alike(disk[0].view, disk[1].view)
      BY <1>1, <1>5, <2>2 DEF AtCommit, Alike, Shows
    <3>2. Current = disk[0].view
      BY <1>5, <2>2 DEF Current, Switched
    <3>3. QED
      BY <1>1, <1>3, <3>1, <3>2, ReadsFirst
  <2>3. CASE next = 1
    <3>1. disk[0].view = sb /\ Alike(disk[0].view, disk[1].view)
      BY <1>1, <1>5, <2>3 DEF AtCommit, Alike, Shows
    <3>2. Current = sb
      BY <1>5, <2>3 DEF Current, Switched
    <3>3. QED
      BY <1>1, <1>3, <3>1, <3>2, ReadsFirst
  <2>4. QED
    BY <2>1, <2>2, <2>3
<1>6. CASE writer # "recover" /\ next = 0
  <2>1. Current = backup /\ AtRest(backup)
    BY <1>1, <1>6 DEF Current, Switched, AtCommit
  <2>2. QED
    BY <1>1, <1>3, <2>1, RestReads
<1>7. CASE writer # "recover" /\ next = 1
  <2>1. disk[0].view = sb /\ disk[1].view = backup /\ disk[2].view = backup /\ Replaces
    BY <1>1, <1>7 DEF AtCommit, Shows
  <2>2. CASE writer = "rewrite"
    <3>1. Current = disk[0].view /\ Alike(disk[0].view, disk[1].view)
      BY <1>7, <2>1, <2>2 DEF Current, Switched, Replaces
    <3>2. QED
      BY <1>1, <1>3, <3>1, ReadsFirst
  <2>3. CASE writer # "rewrite"
    <3>1. Current = disk[1].view
      BY <1>7, <2>1, <2>3 DEF Current, Switched
    <3>2. writer \in {"txn", "password"}
      BY <1>1, <1>7, <2>3 DEF AllKinds
    <3>3. backup.txid \in Nat
      BY <1>1, <1>7, ViewFields
    <3>4. ~Alike(disk[0].view, disk[1].view)
      BY <2>1, <3>2, <3>3 DEF Replaces, Alike
    <3>5. QED
      BY <1>1, <1>3, <2>1, <3>1, <3>4, ReadsLater
  <2>4. QED
    BY <2>2, <2>3
<1>8. QED
  BY <1>1, <1>4, <1>5, <1>6, <1>7

LEMMA CellInit == Init => CellInv
<1> SUFFICES ASSUME Init PROVE CellInv
  OBVIOUS
<1>1. PICK c \in Creds, b \in Bodies :
         disk = [i \in Replicas |-> [view |-> [txid |-> 0, wm |-> 0, cred |-> c, body |-> b],
                                     mac |-> c, framed |-> TRUE]]
  BY DEF Init
<1>2. 0 \in Replicas /\ 1 \in Replicas /\ 2 \in Replicas
  BY DEF Replicas
<1>3. Whole(disk) /\ Marks
  <2>1. \A i \in Replicas : disk[i] = [view |-> [txid |-> 0, wm |-> 0, cred |-> c, body |-> b],
                                      mac |-> c, framed |-> TRUE]
    BY <1>1
  <2>2. Whole(disk)
    <3>1. PICK v : v = [txid |-> 0, wm |-> 0, cred |-> c, body |-> b]
      OBVIOUS
    <3>2. v.cred = c /\ \A i \in Replicas : disk[i] = [view |-> v, mac |-> c, framed |-> TRUE]
      BY <2>1, <3>1
    <3>3. Written(v, c) = [view |-> v, mac |-> c, framed |-> TRUE] /\ Written(v, c).view = v
      BY DEF Written
    <3>4. QED
      BY <3>2, <3>3 DEF Whole
  <2>3. Marks
    BY <2>1 DEF Marks, Init
  <2>4. QED
    BY <2>2, <2>3
<1>4. AtRest(disk[1].view)
  BY <1>1, <1>2 DEF AtRest, Shows
<1>5. QED
  BY <1>3, <1>4 DEF Init, CellInv, AtClosed, AtOpen, AtConfirm, AtCommit

\* The start of a commit by one of the writers, in an open container.
LEMMA CellBegin ==
    ASSUME TypeOK, CellInv, pc = "open", NEW w \in AllKinds, NEW v, NEW k,
           Begin(w, v, k), backup' = sb, crashes' = crashes, v.wm <= v.txid, Replaces'
    PROVE  CellInv'
<1>1. AtRest(sb) /\ Whole(disk) /\ Marks
  BY DEF CellInv, AtOpen
<1>2. /\ disk' = disk /\ pc' = "commit" /\ next' = 0 /\ okset' = {} /\ sb' = v /\ writer' = w
      /\ w # "recover"
  BY DEF Begin, AllKinds
<1>3. Whole(disk)' /\ Marks'
  BY <1>1, <1>2 DEF Whole, Marks
<1>4. AtRest(backup)'
  BY <1>1, <1>2 DEF AtRest, Shows
<1>5. \A i \in {1, 2} : Shows(i, backup)'
  BY <1>4 DEF AtRest
<1>6. okset' = {i \in Replicas : i < next'}
  BY <1>2 DEF Replicas
<1>7. \A i \in Replicas : ~(i < next')
  BY <1>2 DEF Replicas
<1>8. AtCommit'
  BY <1>2, <1>4, <1>5, <1>6, <1>7 DEF AtCommit
<1>9. QED
  BY <1>2, <1>3, <1>8 DEF CellInv, AtClosed, AtOpen, AtConfirm

LEMMA CellOpen ==
    ASSUME TypeOK, CellInv, NEW c \in Creds, Open(c)
    PROVE  /\ CellInv' /\ disk' = disk
           /\ pc' = "open" \/ (pc' = "commit" /\ sb' \in View)
<1> DEFINE v == disk[1].view
<1>1. pc = "closed" /\ v \in View /\ Reads(disk, v)
  BY ClosedReads DEF Open
<1>2. IF MustReplay(v)
      THEN /\ Begin("recover", [v EXCEPT !.wm = v.txid], c) /\ UNCHANGED <<wal, backup>>
      ELSE /\ pc' = "open" /\ sb' = v /\ wal' = 0
           /\ UNCHANGED <<disk, writer, backup, signer, next, okset,
                          ioErrors, crashes, tears, acked, since>>
  <2>1. PICK i \in PipelineRead(disk, c) :
           IF MustReplay(disk[i].view)
           THEN /\ Begin("recover", [disk[i].view EXCEPT !.wm = disk[i].view.txid], c)
                /\ UNCHANGED <<wal, backup>>
           ELSE /\ pc' = "open" /\ sb' = disk[i].view /\ wal' = 0
                /\ UNCHANGED <<disk, writer, backup, signer, next, okset,
                               ioErrors, crashes, tears, acked, since>>
    BY DEF Open
  <2>2. disk[i].view = v
    BY <1>1, <2>1 DEF Reads
  <2>3. QED
    BY <2>1, <2>2
<1>3. v.txid \in Nat /\ v.wm \in Nat
  BY <1>1, ViewFields
<1>4. CASE ~MustReplay(v)
  <2>1. AtRest(v)
    <3>1. ~ToReplay(v)
      BY <1>3, <1>4 DEF ToReplay, MustReplay
    <3>2. QED
      BY <1>1, <3>1 DEF CellInv, AtClosed
  <2>2. AtRest(sb)'
    BY <1>2, <1>4, <2>1 DEF AtRest, Shows
  <2>3. Whole(disk)' /\ Marks'
    BY <1>2, <1>4 DEF CellInv, Whole, Marks, Replicas
  <2>4. pc' = "open" /\ wal' = 0 /\ disk' = disk
    BY <1>2, <1>4
  <2>5. QED
    BY <2>2, <2>3, <2>4 DEF CellInv, AtClosed, AtOpen, AtConfirm, AtCommit
<1>5. CASE MustReplay(v)
  <2>1. ToReplay(v)
    <3>1. ~(wal \in {0, v.txid + 1})
      BY <1>3, <1>5 DEF MustReplay
    <3>2. QED
      BY <1>1, <3>1 DEF CellInv, AtClosed
  <2>2. PICK u : u = [v EXCEPT !.wm = v.txid]
    OBVIOUS
  <2>3. u \in View /\ u.txid = v.txid /\ u.cred = v.cred /\ u.wm = v.txid
    BY <1>1, <2>2, ViewFields DEF View
  <2>4. /\ disk' = disk /\ pc' = "commit" /\ next' = 0 /\ okset' = {} /\ sb' = u
        /\ writer' = "recover" /\ UNCHANGED wal
    BY <1>2, <1>5, <2>2 DEF Begin
  <2>5. crashes' = crashes
    BY <1>2, <1>5 DEF Begin, Open
  <2>6. okset' = {i \in Replicas : i < next'} /\ \A i \in Replicas : ~(i < next')
    BY <2>4 DEF Replicas
  <2>7. \A i \in {0, 1} : Alike(disk'[i].view, sb')
    BY <2>1, <2>3, <2>4 DEF ToReplay, Shows, Alike
  <2>8. AtCommit'
    BY <2>1, <2>3, <2>4, <2>5, <2>6, <2>7 DEF AtCommit, ToReplay, Shows
  <2>9. Whole(disk)' /\ Marks'
    BY <1>3, <2>3, <2>4 DEF CellInv, Whole, Marks
  <2>10. QED
    BY <2>3, <2>4, <2>8, <2>9 DEF CellInv, AtClosed, AtOpen, AtConfirm
<1>6. QED
  BY <1>4, <1>5

\* The three writers start in an open container and know what they replace.
LEMMA CellBegins ==
    ASSUME IInv, SignInv, CellInv, BeginTxn \/ BeginRewrite \/ BeginChangePassword
    PROVE  CellInv' /\ disk' = disk /\ pc = "open" /\ pc' = "commit" /\ sb' \in View
<1>1. /\ TypeOK /\ pc = "open" /\ sb \in View /\ key = sb.cred /\ wal = 0 /\ sb.wm <= sb.txid
  BY DEF IInv, TypeOK, SignInv, Keys, CellInv, AtOpen, Marks, BeginTxn, BeginRewrite,
         BeginChangePassword
<1>2. sb.txid \in Nat /\ sb.wm \in Nat
  BY <1>1, ViewFields
<1>3. CASE BeginTxn
  <2>1. PICK b \in Bodies : Begin("txn", [sb EXCEPT !.txid = @ + 1, !.body = b], key)
    BY <1>3 DEF BeginTxn
  <2>2. PICK v : v = [sb EXCEPT !.txid = @ + 1, !.body = b]
    OBVIOUS
  <2>3. v \in View /\ v.txid = sb.txid + 1 /\ v.cred = sb.cred /\ v.wm = sb.wm
    BY <1>1, <1>3, <2>2, ViewFields DEF View, BeginTxn
  <2>4. /\ wal' = sb.txid + 1 /\ backup' = sb /\ sb' = v /\ writer' = "txn"
        /\ crashes' = crashes /\ pc' = "commit" /\ disk' = disk
        /\ Begin("txn", v, key)
    BY <1>3, <2>1, <2>2 DEF BeginTxn, Begin
  <2>5. v.wm <= v.txid /\ v.wm < v.txid
    BY <1>1, <1>2, <2>3
  <2>6. Replaces'
    BY <2>3, <2>4, <2>5 DEF Replaces
  <2>7. CellInv'
    BY <1>1, <2>4, <2>5, <2>6, CellBegin DEF AllKinds
  <2>8. QED
    BY <1>1, <2>3, <2>4, <2>7
<1>4. CASE BeginRewrite
  <2>1. PICK b \in Bodies : Begin("rewrite", [sb EXCEPT !.body = b], key)
    BY <1>4 DEF BeginRewrite
  <2>2. PICK v : v = [sb EXCEPT !.body = b]
    OBVIOUS
  <2>3. v \in View /\ v.txid = sb.txid /\ v.cred = sb.cred /\ v.wm = sb.wm
    BY <1>1, <2>2, ViewFields DEF View
  <2>4. /\ wal' = wal /\ backup' = sb /\ sb' = v /\ writer' = "rewrite"
        /\ crashes' = crashes /\ pc' = "commit" /\ disk' = disk
        /\ Begin("rewrite", v, key)
    BY <1>4, <2>1, <2>2 DEF BeginRewrite, Begin
  <2>5. v.wm <= v.txid
    BY <1>1, <2>3
  <2>6. Replaces'
    BY <1>1, <2>3, <2>4 DEF Replaces, Alike
  <2>7. CellInv'
    BY <1>1, <2>4, <2>5, <2>6, CellBegin DEF AllKinds
  <2>8. QED
    BY <1>1, <2>3, <2>4, <2>7
<1>5. CASE BeginChangePassword
  <2>1. PICK c \in Creds \ {sb.cred}, b \in Bodies :
           Begin("password", [sb EXCEPT !.cred = c, !.body = b], c)
    BY <1>5 DEF BeginChangePassword
  <2>2. PICK v : v = [sb EXCEPT !.cred = c, !.body = b]
    OBVIOUS
  <2>3. v \in View /\ v.txid = sb.txid /\ v.cred = c /\ v.wm = sb.wm
    BY <1>1, <2>2, ViewFields DEF View
  <2>4. /\ wal' = wal /\ backup' = sb /\ sb' = v /\ writer' = "password"
        /\ crashes' = crashes /\ pc' = "commit" /\ disk' = disk
        /\ Begin("password", v, c)
    BY <1>5, <2>1, <2>2 DEF BeginChangePassword, Begin
  <2>5. v.wm <= v.txid
    BY <1>1, <2>3
  <2>6. Replaces'
    BY <1>1, <2>1, <2>3, <2>4 DEF Replaces
  <2>7. CellInv'
    BY <1>1, <2>4, <2>5, <2>6, CellBegin DEF AllKinds
  <2>8. QED
    BY <1>1, <2>3, <2>4, <2>7
<1>6. QED
  BY <1>3, <1>4, <1>5

\* One replica is written: what is read stays, or becomes the new version.
LEMMA CellWrite ==
    ASSUME IInv, SignInv, CellInv, WriteReplica
    PROVE  CellInv' /\ Current' \in {Current, sb}
<1>1. /\ TypeOK /\ pc = "commit" /\ next \in {0, 1, 2} /\ signer = sb.cred /\ sb \in View
      /\ AtCommit /\ Whole(disk) /\ Marks
  BY DEF IInv, TypeOK, WriteReplica, Replicas, SignInv, Keys, CellInv
<1>2. /\ pc' = "commit" /\ next' = next + 1 /\ okset' = okset \cup {next}
      /\ UNCHANGED <<writer, wal, sb, backup, crashes>>
      /\ \A i \in Replicas : disk'[i] = IF i = next THEN Written(sb, sb.cred) ELSE disk[i]
  BY <1>1 DEF WriteReplica, TypeOK
<1>3. \A i \in Replicas : disk'[i].view = IF i = next THEN sb ELSE disk[i].view
  BY <1>2 DEF Written
<1>4. Whole(disk)'
  BY <1>1, <1>2, <1>3 DEF Whole
<1>5. Marks'
  BY <1>1, <1>2, <1>3 DEF Marks
<1>6. okset' = {i \in Replicas : i < next'} /\ \A i \in Replicas : i < next' => Shows(i, sb)'
  <2>1. okset = {i \in Replicas : i < next} /\ \A i \in Replicas : i < next => Shows(i, sb)
    BY <1>1 DEF AtCommit
  <2>2. \A i \in Replicas : i < next + 1 <=> i < next \/ i = next
    BY <1>1 DEF Replicas
  <2>3. okset' = {i \in Replicas : i < next'}
    BY <1>1, <1>2, <2>1, <2>2 DEF Replicas
  <2>4. QED
    BY <1>2, <1>3, <2>1, <2>2, <2>3 DEF Shows
<1>7. \A i \in Replicas : i >= next' => i >= next /\ disk'[i].view = disk[i].view
  BY <1>1, <1>2, <1>3 DEF Replicas
<1>8. next' # 0 /\ 0 \in Replicas /\ 1 \in Replicas /\ 2 \in Replicas
  BY <1>1, <1>2 DEF Replicas
<1>9. CASE writer # "recover"
  <2>1. Replaces /\ \A i \in {1, 2} : i >= next => Shows(i, backup)
    BY <1>1, <1>9 DEF AtCommit
  <2>2. Replaces'
    BY <1>2, <2>1 DEF Replaces, Alike
  <2>3. \A i \in {1, 2} : i >= next' => Shows(i, backup)'
    BY <1>2, <1>7, <1>8, <2>1 DEF Shows
  <2>4. AtCommit'
    BY <1>2, <1>6, <1>8, <1>9, <2>2, <2>3 DEF AtCommit
  <2>5. QED
    BY <1>1, <1>2, <1>4, <1>5, <1>9, <2>4
       DEF CellInv, AtClosed, AtOpen, AtConfirm, Current, Switched
<1>10. CASE writer = "recover"
  <2>1. /\ crashes = 1 /\ \A i \in {0, 1} : i >= next => Alike(disk[i].view, sb)
        /\ 2 >= next => disk[2].view.cred = sb.cred
    BY <1>1, <1>10 DEF AtCommit
  <2>2. /\ \A i \in {0, 1} : i >= next' => Alike(disk'[i].view, sb')
        /\ 2 >= next' => disk'[2].view.cred = sb'.cred
    BY <1>2, <1>7, <1>8, <2>1 DEF Alike
  <2>3. AtCommit'
    BY <1>2, <1>6, <1>8, <1>10, <2>1, <2>2 DEF AtCommit
  <2>4. Current' = sb
    BY <1>1, <1>2, <1>10 DEF Current, Switched
  <2>5. QED
    BY <1>2, <1>4, <1>5, <2>3, <2>4 DEF CellInv, AtClosed, AtOpen, AtConfirm
<1>11. QED
  BY <1>9, <1>10

\* The commit succeeds: all three replicas show its version.
LEMMA CellSucceed ==
    ASSUME IInv, SignInv, CellInv, Succeed
    PROVE  CellInv' /\ pc' \in {"open", "confirm"} /\ disk' = disk
<1>1. /\ pc = "commit" /\ next = 3 /\ Whole(disk) /\ Marks /\ AtCommit
      /\ writer \in AllKinds \cup {"recover"}
  BY DEF IInv, TypeOK, Succeed, CellInv
<1>2. \A i \in Replicas : Shows(i, sb)
  BY <1>1 DEF AtCommit, Replicas
<1>3. /\ disk' = disk /\ UNCHANGED <<sb, crashes>>
      /\ pc' = IF writer = "txn" THEN "confirm" ELSE "open"
      /\ wal' = IF writer = "recover" THEN 0 ELSE wal
  BY DEF Succeed, Acknowledge
<1>4. \A i \in Replicas : Shows(i, sb)'
  BY <1>2, <1>3 DEF Shows
<1>5. AtRest(sb)'
  BY <1>4 DEF AtRest, Replicas
<1>6. Whole(disk)' /\ Marks'
  BY <1>1, <1>3 DEF Whole, Marks
<1>7. AtOpen' /\ AtConfirm'
  BY <1>1, <1>3, <1>4, <1>5 DEF AtOpen, AtConfirm, AtCommit, Replaces, AllKinds
<1>8. QED
  BY <1>3, <1>6, <1>7 DEF CellInv, AtClosed, AtCommit

\* Nothing but a crash interrupts a commit.
LEMMA NoFailure ==
    ASSUME OneInterruption, IInv, SignInv, CellInv
    PROVE  ~Fail /\ ~WriteReplicaFails /\ ~CrashTorn
<1>1. ioErrors = 0 /\ tears = 0
  BY DEF OneInterruption, IInv, TypeOK
<1>2. ~WriteReplicaFails /\ ~CrashTorn
  BY <1>1 DEF WriteReplicaFails, CrashTorn, OneInterruption
<1>3. ASSUME pc = "commit", next = 3 PROVE QuorumWritten(2) /\ QuorumVerified
  <2>1. okset = Replicas /\ \A i \in Replicas : Shows(i, sb)
    BY <1>3 DEF CellInv, AtCommit, Replicas
  <2>2. 0 \in Replicas /\ 1 \in Replicas
    BY DEF Replicas
  <2>3. QuorumWritten(2)
    BY <2>1, <2>2, CountTwo DEF QuorumWritten
  <2>4. signer = sb.cred
    BY <1>3 DEF SignInv, Keys
  <2>5. Authentic(disk, signer) = Replicas
    <3>1. \A i \in Replicas : disk[i] = Written(sb, sb.cred)
      BY <2>1 DEF CellInv, Whole, Shows
    <3>2. \A i \in Replicas : disk[i].framed /\ disk[i].mac = sb.cred
      BY <3>1 DEF Written
    <3>3. QED
      BY <2>4, <3>2 DEF Authentic
  <2>6. QED
    BY <2>2, <2>3, <2>5, CountTwo DEF QuorumVerified
<1>4. ~Fail
  BY <1>1, <1>3 DEF Fail, OneInterruption
<1>5. QED
  BY <1>2, <1>4

LEMMA CellCrash ==
    ASSUME OneInterruption, IInv, SignInv, CellInv, Crash
    PROVE  CellInv' /\ disk' = disk /\ pc' = "closed"
<1>1. crashes = 0 /\ crashes' = 1 /\ MaxCrashes = 1
  BY SuperBlockAssumption DEF Crash, Halt, OneInterruption, IInv, TypeOK
<1>2. /\ pc' = "closed" /\ disk' = disk /\ wal' = wal
      /\ pc = "commit" => writer \in {"txn", "recover"}
  BY DEF Crash, Halt, OneInterruption
<1>3. Whole(disk)' /\ Marks'
  BY <1>2 DEF CellInv, Whole, Marks
<1>4. 0 \in Replicas /\ 1 \in Replicas /\ 2 \in Replicas
  BY DEF Replicas
<1>5. pc \in {"open", "confirm", "commit"}
  BY DEF IInv, TypeOK, Crash
<1>6. CASE pc = "open"
  BY <1>1, <1>2, <1>6 DEF CellInv, AtOpen, AtRest, Shows, AtClosed, Crash,
     Whole, Marks, AtConfirm, AtCommit
<1>7. CASE pc = "confirm"
  <2>1. ToReplay(disk[1].view)'
    BY <1>1, <1>2, <1>4, <1>7 DEF CellInv, AtConfirm, Shows, ToReplay
  <2>2. QED
    BY <1>2, <1>3, <2>1 DEF CellInv, AtClosed, AtOpen, AtConfirm, AtCommit
<1>8. CASE pc = "commit"
  <2>1. /\ writer = "txn" /\ Replaces /\ next \in 0..3 /\ sb \in View /\ backup \in View
        /\ \A i \in Replicas : i < next => disk[i].view = sb
        /\ \A i \in {1, 2} : i >= next => disk[i].view = backup
        /\ next = 0 => disk[0].view = backup
    BY <1>1, <1>2, <1>8 DEF CellInv, AtCommit, AtRest, Shows, IInv, TypeOK
  <2>2. /\ sb.txid = backup.txid + 1 /\ sb.cred = backup.cred /\ wal = sb.txid /\ sb.wm < sb.txid
    BY <2>1 DEF Replaces
  <2>3. backup.txid \in Nat
    BY <2>1, ViewFields
  <2>4. CASE next = 0 \/ next = 1
    <3>1. /\ disk[1].view = backup /\ disk[2].view = backup
          /\ disk[0].view = IF next = 0 THEN backup ELSE sb
      BY <1>4, <2>1, <2>4
    <3>2. AtRest(disk[1].view)'
      BY <1>1, <1>2, <2>2, <2>3, <3>1 DEF AtRest, Shows
    <3>3. QED
      BY <1>2, <1>3, <2>2, <3>1, <3>2 DEF CellInv, AtClosed, AtOpen, AtConfirm, AtCommit
  <2>5. CASE next = 2 \/ next = 3
    <3>1. disk[0].view = sb /\ disk[1].view = sb /\ disk[2].view \in {backup, sb}
      BY <1>4, <2>1, <2>5
    <3>2. ToReplay(disk[1].view)'
      BY <1>1, <1>2, <2>2, <3>1 DEF ToReplay, Shows
    <3>3. QED
      BY <1>2, <1>3, <3>2 DEF CellInv, AtClosed, AtOpen, AtConfirm, AtCommit
  <2>6. QED
    BY <2>1, <2>4, <2>5
<1>9. QED
  BY <1>5, <1>6, <1>7, <1>8

LEMMA CellStutters ==
    ASSUME CellInv, UNCHANGED vars
    PROVE  CellInv' /\ disk' = disk /\ pc' = pc /\ sb' = sb
  BY DEF vars, CellInv, Whole, Marks, AtClosed, AtOpen, AtConfirm, AtCommit, AtRest,
         ToReplay, Shows, Replaces, Alike

\* Closing, and the confirm step of a data transaction.
LEMMA CellSettles ==
    ASSUME IInv, CellInv, Lock \/ Confirm
    PROVE  CellInv' /\ disk' = disk /\ pc' \in {"closed", "open"} /\ pc # "commit"
<1>1. disk' = disk /\ UNCHANGED crashes /\ Whole(disk)' /\ Marks'
  BY DEF Lock, Confirm, CellInv, Whole, Marks
<1>2. CASE Lock
  <2>1. pc = "open" /\ pc' = "closed" /\ wal' = 0 /\ AtRest(sb)
    BY <1>2 DEF Lock, CellInv, AtOpen
  <2>2. AtRest(disk[1].view)'
    BY <1>1, <2>1 DEF AtRest, Shows
  <2>3. QED
    BY <1>1, <2>1, <2>2 DEF CellInv, AtClosed, AtOpen, AtConfirm, AtCommit
<1>3. CASE Confirm
  <2>1. pc = "confirm" /\ pc' = "open" /\ wal' = 0 /\ sb' = sb /\ \A i \in Replicas : Shows(i, sb)
    BY <1>3 DEF Confirm, CellInv, AtConfirm
  <2>2. AtRest(sb)'
    BY <1>1, <2>1 DEF AtRest, Shows, Replicas
  <2>3. QED
    BY <1>1, <2>1, <2>2 DEF CellInv, AtClosed, AtOpen, AtConfirm, AtCommit
<1>4. QED
  BY <1>2, <1>3

\* What an unlock would read now.
Stored == IF pc = "closed" THEN disk[1].view ELSE IF pc = "commit" THEN Current ELSE sb

LEMMA StoredReads ==
    ASSUME IInv, CellInv
    PROVE  Stored \in View /\ Reads(disk, Stored) /\ Delivered(disk) = Stored
<1>1. TypeOK /\ Whole(disk) /\ pc \in {"closed", "open", "commit", "confirm"}
  BY DEF IInv, TypeOK, CellInv
<1>2. ASSUME pc = "closed"
      PROVE  Stored \in View /\ Reads(disk, Stored)
  BY <1>1, <1>2, ClosedReads DEF Stored
<1>3. ASSUME pc = "commit"
      PROVE  Stored \in View /\ Reads(disk, Stored)
  BY <1>1, <1>3, CommitReads DEF Stored
<1>4. ASSUME pc \in {"open", "confirm"}
      PROVE  Stored \in View /\ Reads(disk, Stored)
  <2>1. AtRest(sb) /\ sb \in View
    BY <1>1, <1>4 DEF TypeOK, CellInv, AtOpen, AtConfirm, AtRest, Replicas
  <2>2. QED
    BY <1>1, <1>4, <2>1, RestReads DEF Stored
<1>5. Stored \in View /\ Reads(disk, Stored)
  BY <1>1, <1>2, <1>3, <1>4
<1>6. QED
  BY <1>5, ReadsDelivers

\* One step: the invariant holds again, and the value stays or becomes what the
\* commit under way proposes.
LEMMA CellStep ==
    ASSUME OneInterruption, IInv, SignInv, CellInv, [Next]_vars, IInv'
    PROVE  /\ CellInv'
           /\ \/ disk' = disk /\ (pc' = "commit" => pc # "commit" \/ sb' = sb)
              \/ /\ pc = "commit" /\ pc' = "commit" /\ sb' = sb
                 /\ Delivered(disk') \in {Delivered(disk), sb}
<1>1. TypeOK
  BY DEF IInv
<1>2. ASSUME NEW c \in Creds, Open(c)
      PROVE  CellInv' /\ disk' = disk /\ pc # "commit"
  BY <1>1, <1>2, CellOpen DEF Open
<1>3. CASE WriteReplica
  <2>1. CellInv' /\ Current' \in {Current, sb}
    BY <1>3, CellWrite
  <2>2. pc = "commit" /\ pc' = "commit" /\ sb' = sb
    BY <1>3 DEF WriteReplica
  <2>3. Delivered(disk) = Current
    BY <2>2, StoredReads DEF Stored
  <2>4. Delivered(disk)' = Current'
    <3>1. (IInv /\ CellInv)' => (Delivered(disk) = Stored)'
      BY StoredReads, PTL
    <3>2. Stored' = Current'
      BY <2>2 DEF Stored
    <3>3. QED
      BY <2>1, <3>1, <3>2
  <2>5. QED
    BY <2>1, <2>2, <2>3, <2>4
<1>4. CASE Succeed
  BY <1>4, CellSucceed
<1>5. CASE Crash
  BY <1>5, CellCrash
<1>6. CASE Lock \/ Confirm
  BY <1>6, CellSettles
<1>7. CASE BeginTxn \/ BeginRewrite \/ BeginChangePassword
  BY <1>7, CellBegins
<1>8. CASE UNCHANGED vars
  BY <1>8, CellStutters
<1>9. QED
  BY <1>2, <1>3, <1>4, <1>5, <1>6, <1>7, <1>8, NoFailure DEF Next

LEMMA CellInductive == ASSUME OneInterruption PROVE Spec => [](IInv /\ SignInv /\ CellInv)
<1>1. IInv /\ SignInv /\ CellInv /\ [Next]_vars /\ IInv' => CellInv'
  BY CellStep
<1>2. QED
  BY <1>1, CellInit, Inductive, SignInit, SignNext, PTL DEF Spec

(* At every instant, between two replica writes of a change of password too,  *)
(* one credential opens the container and no other does (upl_stage_s1 and S3). *)
THEOREM OneOpens == ASSUME OneInterruption PROVE Spec => []OneCredOpens
<1>1. IInv /\ SignInv /\ CellInv => OneCredOpens
  <2> SUFFICES ASSUME IInv, CellInv PROVE OneCredOpens
    OBVIOUS
  <2>1. Stored.cred \in Creds /\ Reads(disk, Stored)
    BY StoredReads DEF View
  <2>2. QED
    BY <2>1 DEF OneCredOpens, Reads
<1>2. QED
  BY <1>1, CellInductive, PTL

(* Three replicas written one after the other implement one value that a      *)
(* commit replaces in a single step.                                          *)
THEOREM Refinement == ASSUME OneInterruption PROVE Spec => RefinesCell
<1> DEFINE value == Delivered(disk)
           proposed == IF pc = "commit" THEN sb ELSE Delivered(disk)
<1>1. Init => Cell!Init
  <2> SUFFICES ASSUME Init PROVE Cell!Init
    OBVIOUS
  <2>1. IInv /\ CellInv
    BY CellInit, FirstInv
  <2>2. pc = "closed"
    BY DEF Init
  <2>3. QED
    BY <2>1, <2>2, StoredReads DEF Cell!Init
<1>2. IInv /\ SignInv /\ CellInv /\ [Next]_vars /\ IInv' => [Cell!Next]_(Cell!cell)
  <2> SUFFICES ASSUME IInv, SignInv, CellInv, [Next]_vars, IInv'
               PROVE  [Cell!Next]_(Cell!cell)
    OBVIOUS
  <2>1. CellInv' /\ \/ disk' = disk /\ (pc' = "commit" => pc # "commit" \/ sb' = sb)
                    \/ /\ pc = "commit" /\ pc' = "commit" /\ sb' = sb
                       /\ Delivered(disk') \in {Delivered(disk), sb}
    BY CellStep
  <2>2. CASE disk' = disk /\ pc' # "commit"
    <3>1. Cell!Withdraw
      BY <2>2 DEF Cell!Withdraw
    <3>2. QED
      BY <3>1 DEF Cell!Next
  <2>3. CASE disk' = disk /\ pc' = "commit" /\ pc # "commit"
    <3>1. sb' \in View
      BY <2>3 DEF IInv, TypeOK
    <3>2. Cell!Propose
      BY <2>3, <3>1 DEF Cell!Propose
    <3>3. QED
      BY <3>2 DEF Cell!Next
  <2>4. CASE disk' = disk /\ pc' = "commit" /\ pc = "commit" /\ sb' = sb
    BY <2>4 DEF Cell!cell
  <2>5. CASE pc = "commit" /\ pc' = "commit" /\ sb' = sb /\ Delivered(disk') = Delivered(disk)
    BY <2>5 DEF Cell!cell
  <2>6. CASE pc = "commit" /\ pc' = "commit" /\ sb' = sb /\ Delivered(disk') = sb
    <3>1. Cell!Switch
      BY <2>6 DEF Cell!Switch
    <3>2. QED
      BY <3>1 DEF Cell!Next
  <2>7. QED
    BY <2>1, <2>2, <2>3, <2>4, <2>5, <2>6
<1>3. QED
  BY <1>1, <1>2, CellInductive, PTL DEF Spec, RefinesCell, Cell!Spec
===============================================================================
