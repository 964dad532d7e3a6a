---------------------------- MODULE RecordTxnProofs ----------------------------
(* Theorems about RecordTxn and their proofs: the records change only when    *)
(* the superblock is committed, and then by exactly the call under way.       *)
EXTENDS RecordTxn, FiniteSetTheorems, WellFoundedInduction, TLAPS

LEMMA Least ==
    ASSUME NEW S \in SUBSET Nat, IsFiniteSet(S), S # {}
    PROVE  Min(S) \in S /\ \A x \in S : Min(S) <= x
<1> DEFINE Below(m) == {x \in S : x <= m}
           R == StrictSubsetOrdering(S)
           T == {Below(m) : m \in S}
<1>1. IsWellFoundedOn(R, SUBSET S)
  BY FS_FiniteSubsetsOfFinite, FS_StrictSubsetOrderingWellFounded
<1>2. T \subseteq SUBSET S /\ T # {}
  OBVIOUS
<1> HIDE DEF T
<1>3. PICK D \in T : \A C \in T : ~(<<C, D>> \in R)
  BY <1>1, <1>2, WFMin
<1> USE DEF T
<1>4. PICK m \in S : D = Below(m)
  BY <1>3
<1>5. ASSUME NEW x \in S, ~(m <= x) PROVE FALSE
  <2>1. x \in Nat /\ m \in Nat /\ \A y \in S : y \in Nat
    OBVIOUS
  <2>2. x < m /\ m <= m /\ ~(m <= x) /\ \A y \in S : y <= x => y <= m
    BY <1>5, <2>1
  <2>3. Below(x) \subseteq D /\ m \in D /\ m \notin Below(x)
    BY <1>4, <2>2
  <2>4. <<Below(x), D>> \in R
    BY <1>4, <2>3 DEF StrictSubsetOrdering
  <2>5. QED
    BY <1>3, <2>4
<1>6. \E n \in S : \A x \in S : n <= x
  BY <1>5
<1>7. QED
  BY <1>6 DEF Min

LEMMA Lowest ==
    ASSUME NEW n \in Nat, NEW S \in SUBSET (0 .. n), S # {}
    PROVE  Min(S) \in S /\ \A x \in S : Min(S) <= x
<1>1. IsFiniteSet(0 .. n)
  BY FS_Interval
<1>2. IsFiniteSet(S)
  BY <1>1, FS_Subset
<1>3. S \in SUBSET Nat
  OBVIOUS
<1>4. QED
  BY <1>2, <1>3, Least

LEMMA Highest ==
    ASSUME NEW n \in Nat, NEW S \in SUBSET (0 .. n), S # {}
    PROVE  Max(S) \in S /\ \A x \in S : x <= Max(S)
<1> DEFINE R == {x \in 0 .. n : n - x \in S}
<1>1. R \in SUBSET (0 .. n) /\ R # {}
  <2>1. PICK x \in S : TRUE
    OBVIOUS
  <2>2. n - x \in 0 .. n /\ n - (n - x) = x
    OBVIOUS
  <2>3. QED
    BY <2>1, <2>2
<1> HIDE DEF R
<1>2. Min(R) \in R /\ \A x \in R : Min(R) <= x
  BY <1>1, Lowest
<1>3. PICK m : m = n - Min(R)
  OBVIOUS
<1>4. m \in S /\ Min(R) \in 0 .. n
  BY <1>2, <1>3 DEF R
<1>5. ASSUME NEW x \in S PROVE x <= m
  <2>1. n - x \in R
    BY DEF R
  <2>2. Min(R) <= n - x
    BY <1>2, <2>1
  <2>3. QED
    BY <1>3, <1>4, <2>2
<1>6. \E k \in S : \A x \in S : x <= k
  BY <1>4, <1>5
<1>7. QED
  BY <1>6 DEF Max

-----------------------------------------------------------------------------
(* Tables: functions from record ids to versions.                            *)

AllTables == UNION {[D -> Versions] : D \in SUBSET (1 .. MaxLid)}

LEMMA TableIs ==
    ASSUME NEW f
    PROVE  f \in AllTables <=> /\ f = [l \in DOMAIN f |-> f[l]]
                               /\ DOMAIN f \subseteq 1 .. MaxLid
                               /\ \A l \in DOMAIN f : f[l] \in Versions
<1>1. ASSUME f \in AllTables
      PROVE  /\ f = [l \in DOMAIN f |-> f[l]] /\ DOMAIN f \subseteq 1 .. MaxLid
             /\ \A l \in DOMAIN f : f[l] \in Versions
  BY <1>1 DEF AllTables
<1>2. ASSUME f = [l \in DOMAIN f |-> f[l]], DOMAIN f \subseteq 1 .. MaxLid,
             \A l \in DOMAIN f : f[l] \in Versions
      PROVE  f \in AllTables
  <2>1. f \in [DOMAIN f -> Versions]
    BY <1>2
  <2>2. QED
    BY <1>2, <2>1 DEF AllTables
<1>3. QED
  BY <1>1, <1>2

LEMMA SameTable ==
    ASSUME NEW f \in AllTables, NEW g \in AllTables, DOMAIN f = DOMAIN g,
           \A l \in DOMAIN f : f[l] = g[l]
    PROVE  f = g
<1>1. f = [l \in DOMAIN f |-> f[l]] /\ g = [l \in DOMAIN g |-> g[l]]
  BY TableIs
<1>2. QED
  BY <1>1

LEMMA NoTable == << >> \in AllTables /\ DOMAIN << >> = {}
<1>1. DOMAIN << >> = {} /\ << >> = [l \in DOMAIN << >> |-> << >>[l]]
  OBVIOUS
<1>2. QED
  BY <1>1, TableIs

LEMMA OverIs ==
    ASSUME NEW f, NEW g
    PROVE  /\ DOMAIN Over(f, g) = DOMAIN f \cup DOMAIN g
           /\ \A l \in DOMAIN f : Over(f, g)[l] = f[l]
           /\ \A l \in DOMAIN g \ DOMAIN f : Over(f, g)[l] = g[l]
           /\ Over(f, g) = [l \in DOMAIN Over(f, g) |-> Over(f, g)[l]]
  BY DEF Over

LEMMA OverTyped ==
    ASSUME NEW f \in AllTables, NEW g \in AllTables
    PROVE  Over(f, g) \in AllTables
<1>1. /\ DOMAIN f \subseteq 1 .. MaxLid /\ \A l \in DOMAIN f : f[l] \in Versions
      /\ DOMAIN g \subseteq 1 .. MaxLid /\ \A l \in DOMAIN g : g[l] \in Versions
  BY TableIs
<1>2. /\ DOMAIN Over(f, g) = DOMAIN f \cup DOMAIN g
      /\ \A l \in DOMAIN f : Over(f, g)[l] = f[l]
      /\ \A l \in DOMAIN g \ DOMAIN f : Over(f, g)[l] = g[l]
      /\ Over(f, g) = [l \in DOMAIN Over(f, g) |-> Over(f, g)[l]]
  BY OverIs
<1>3. PICK h : h = Over(f, g)
  OBVIOUS
<1>4. /\ DOMAIN h = DOMAIN f \cup DOMAIN g /\ h = [l \in DOMAIN h |-> h[l]]
      /\ \A l \in DOMAIN f : h[l] = f[l]
      /\ \A l \in DOMAIN g \ DOMAIN f : h[l] = g[l]
  BY <1>2, <1>3
<1>5. \A l \in DOMAIN h : h[l] \in Versions
  BY <1>1, <1>4
<1>6. h \in AllTables
  BY <1>1, <1>4, <1>5, TableIs
<1>7. QED
  BY <1>3, <1>6

LEMMA OverNothing ==
    ASSUME NEW f, NEW g \in AllTables, DOMAIN f = {}
    PROVE  Over(f, g) = g
<1>1. g = [l \in DOMAIN g |-> g[l]]
  BY TableIs
<1>2. QED
  BY <1>1 DEF Over

\* What g has already may be put over it any number of times.
LEMMA OverAgain ==
    ASSUME NEW f, NEW g \in AllTables, DOMAIN f \subseteq DOMAIN g,
           \A l \in DOMAIN f : f[l] = g[l]
    PROVE  Over(f, g) = g
<1>1. g = [l \in DOMAIN g |-> g[l]]
  BY TableIs
<1>2. QED
  BY <1>1 DEF Over

LEMMA OverOver ==
    ASSUME NEW f, NEW g, NEW h
    PROVE  Over(Over(f, g), h) = Over(f, Over(g, h))
  BY DEF Over

LEMMA OverTwice ==
    ASSUME NEW f, NEW g
    PROVE  Over(f, Over(f, g)) = Over(f, g)
  BY DEF Over

-----------------------------------------------------------------------------
(* The memtable of a log.                                                    *)

Entries == [lid : 1 .. MaxLid, txid : Nat \ {0}, val : Versions]

\* The last entry of a record among those that are not left out.
Latest(es, out, i) ==
    /\ i \in DOMAIN es /\ es[i].txid \notin out
    /\ \A j \in DOMAIN es : es[j].txid \notin out /\ es[j].lid = es[i].lid => j <= i

IsNewest(n, es, out) ==
    /\ n = [l \in DOMAIN n |-> n[l]]
    /\ \A i : Latest(es, out, i) => es[i].lid \in DOMAIN n /\ n[es[i].lid] = es[i].val
    /\ \A l \in DOMAIN n : \E i : Latest(es, out, i) /\ es[i].lid = l
    /\ DOMAIN n = {es[i].lid : i \in {k \in DOMAIN es : es[k].txid \notin out}}

LEMMA NewestIs ==
    ASSUME NEW es \in Seq(Entries), NEW out
    PROVE  IsNewest(Newest(es, out), es, out)
<1> PICK n : n = Newest(es, out)
  OBVIOUS
<1> DEFINE in == {i \in DOMAIN es : es[i].txid \notin out}
           of(l) == {i \in in : es[i].lid = l}
<1>1. Newest(es, out) = [l \in {es[i].lid : i \in in} |-> es[Max(of(l))].val]
  BY DEF Newest
<1>2. Len(es) \in Nat /\ DOMAIN es = 1 .. Len(es)
  OBVIOUS
<1>3. ASSUME NEW l \in {es[i].lid : i \in in}
      PROVE  Max(of(l)) \in of(l) /\ \A i \in of(l) : i <= Max(of(l))
  <2>1. of(l) \in SUBSET (0 .. Len(es)) /\ of(l) # {}
    BY <1>2
  <2> HIDE DEF of
  <2>2. QED
    BY <1>2, <2>1, Highest
<1>4. /\ DOMAIN n = {es[i].lid : i \in in} /\ n = [l \in DOMAIN n |-> n[l]]
      /\ \A l \in DOMAIN n : n[l] = es[Max(of(l))].val
  BY <1>1
<1>5. ASSUME NEW i, Latest(es, out, i) PROVE es[i].lid \in DOMAIN n /\ n[es[i].lid] = es[i].val
  <2>1. i \in of(es[i].lid) /\ es[i].lid \in DOMAIN n /\ \A j \in of(es[i].lid) : j <= i
    BY <1>4, <1>5 DEF Latest
  <2>2. PICK m : m = Max(of(es[i].lid))
    OBVIOUS
  <2>3. m \in of(es[i].lid) /\ i <= m
    BY <1>3, <1>4, <2>1, <2>2
  <2>4. m <= i /\ m \in Nat /\ i \in Nat
    BY <1>2, <2>1, <2>3
  <2>5. m = i
    BY <2>3, <2>4
  <2>6. QED
    BY <1>4, <2>1, <2>2, <2>5
<1>6. ASSUME NEW l \in DOMAIN n PROVE \E i : Latest(es, out, i) /\ es[i].lid = l
  <2>1. PICK m : m = Max(of(l))
    OBVIOUS
  <2>2. m \in of(l) /\ \A i \in of(l) : i <= m
    BY <1>3, <1>4, <2>1
  <2>3. Latest(es, out, m) /\ es[m].lid = l
    BY <2>2 DEF Latest
  <2>4. QED
    BY <2>3
<1> HIDE DEF of
<1>7. IsNewest(n, es, out)
  BY <1>4, <1>5, <1>6 DEF IsNewest
<1>8. QED
  BY <1>7

LEMMA NewestTyped ==
    ASSUME NEW es \in Seq(Entries), NEW out
    PROVE  Newest(es, out) \in AllTables
<1>1. PICK n : n = Newest(es, out)
  OBVIOUS
<1>2. IsNewest(Newest(es, out), es, out)
  BY NewestIs
<1>3. \A i \in DOMAIN es : es[i] \in Entries
  OBVIOUS
<1>4. \A i \in DOMAIN es : es[i].lid \in 1 .. MaxLid /\ es[i].val \in Versions
  BY <1>3 DEF Entries
<1>5. DOMAIN n \subseteq 1 .. MaxLid /\ \A l \in DOMAIN n : n[l] \in Versions
  <2>1. ASSUME NEW l \in DOMAIN n PROVE l \in 1 .. MaxLid /\ n[l] \in Versions
    <3>1. PICK i : Latest(es, out, i) /\ es[i].lid = l
      BY <1>1, <1>2 DEF IsNewest
    <3>2. n[l] = es[i].val /\ i \in DOMAIN es
      BY <1>1, <1>2, <3>1 DEF IsNewest, Latest
    <3>3. QED
      BY <1>4, <3>1, <3>2
  <2>2. QED
    BY <2>1
<1>6. n = [l \in DOMAIN n |-> n[l]]
  BY <1>1, <1>2 DEF IsNewest
<1>7. n \in AllTables
  BY <1>5, <1>6, TableIs
<1>8. QED
  BY <1>1, <1>7

LEMMA NewestEmpty ==
    ASSUME NEW out
    PROVE  Newest(<< >>, out) = << >>
  BY DEF Newest

LEMMA NewestAppend ==
    ASSUME NEW es \in Seq(Entries), NEW e \in Entries, NEW out
    PROVE  Newest(Append(es, e), out) =
             IF e.txid \in out THEN Newest(es, out)
                               ELSE Over([l \in {e.lid} |-> e.val], Newest(es, out))
<1> DEFINE more == Append(es, e)
           one == [l \in {e.lid} |-> e.val]
<1>1. /\ more \in Seq(Entries) /\ Len(more) = Len(es) + 1 /\ Len(es) \in Nat
      /\ DOMAIN more = 1 .. (Len(es) + 1) /\ DOMAIN es = 1 .. Len(es)
      /\ \A i \in DOMAIN es : more[i] = es[i]
      /\ more[Len(es) + 1] = e
  OBVIOUS
<1> HIDE DEF more
<1>0. IsNewest(Newest(es, out), es, out) /\ IsNewest(Newest(more, out), more, out)
  <2>1. IsNewest(Newest(es, out), es, out)
    BY NewestIs
  <2>2. IsNewest(Newest(more, out), more, out)
    BY <1>1, NewestIs
  <2>3. QED
    BY <2>1, <2>2
<1>2. PICK n, m : n = Newest(es, out) /\ m = Newest(more, out)
  OBVIOUS
<1>3. /\ n = [l \in DOMAIN n |-> n[l]]
      /\ \A i : Latest(es, out, i) => es[i].lid \in DOMAIN n /\ n[es[i].lid] = es[i].val
      /\ \A l \in DOMAIN n : \E i : Latest(es, out, i) /\ es[i].lid = l
      /\ DOMAIN n = {es[i].lid : i \in {k \in DOMAIN es : es[k].txid \notin out}}
  BY <1>2, <1>0 DEF IsNewest
<1>4. /\ m = [l \in DOMAIN m |-> m[l]]
      /\ \A i : Latest(more, out, i) => more[i].lid \in DOMAIN m /\ m[more[i].lid] = more[i].val
      /\ \A l \in DOMAIN m : \E i : Latest(more, out, i) /\ more[i].lid = l
      /\ DOMAIN m = {more[i].lid : i \in {k \in DOMAIN more : more[k].txid \notin out}}
  BY <1>2, <1>0 DEF IsNewest
<1>5. CASE e.txid \in out
  <2>1. {k \in DOMAIN more : more[k].txid \notin out} = {k \in DOMAIN es : es[k].txid \notin out}
    BY <1>1, <1>5
  <2>2. DOMAIN m = DOMAIN n
    BY <1>1, <1>3, <1>4, <2>1
  <2>3. \A i : Latest(es, out, i) => Latest(more, out, i)
    BY <1>1, <1>5 DEF Latest
  <2>4. ASSUME NEW l \in DOMAIN n PROVE m[l] = n[l]
    <3>1. PICK i : Latest(es, out, i) /\ es[i].lid = l
      BY <1>3
    <3>2. more[i] = es[i] /\ Latest(more, out, i)
      BY <1>1, <2>3, <3>1 DEF Latest
    <3>3. QED
      BY <1>3, <1>4, <3>1, <3>2
  <2>5. m = n
    BY <1>3, <1>4, <2>2, <2>4
  <2>6. QED
    BY <1>2, <1>5, <2>5 DEF more
<1>6. CASE e.txid \notin out
  <2>1. DOMAIN m = DOMAIN n \cup {e.lid}
    BY <1>1, <1>3, <1>4, <1>6
  <2>2. Latest(more, out, Len(es) + 1)
    BY <1>1, <1>6 DEF Latest
  <2>3. m[e.lid] = e.val
    BY <1>1, <1>4, <2>2
  <2>4. ASSUME NEW l \in DOMAIN n \ {e.lid} PROVE m[l] = n[l]
    <3>1. PICK i : Latest(es, out, i) /\ es[i].lid = l
      BY <1>3
    <3>2. more[i] = es[i] /\ Latest(more, out, i)
      BY <1>1, <3>1, <2>4 DEF Latest
    <3>3. QED
      BY <1>3, <1>4, <3>1, <3>2
  <2>5. m = Over(one, n)
    BY <1>4, <2>1, <2>3, <2>4 DEF Over
  <2>6. QED
    BY <1>2, <1>6, <2>5 DEF more
<1>7. QED
  BY <1>5, <1>6

\* What is cut off and left out is not missed.
LEMMA NewestPrefix ==
    ASSUME NEW es \in Seq(Entries), NEW n \in 0 .. Len(es), NEW out,
           \A i \in DOMAIN es : i > n => es[i].txid \in out
    PROVE  Newest(SubSeq(es, 1, n), out) = Newest(es, out)
<1> DEFINE less == SubSeq(es, 1, n)
<1>1. /\ less \in Seq(Entries) /\ Len(less) = n /\ Len(es) \in Nat
      /\ DOMAIN less = 1 .. n /\ DOMAIN es = 1 .. Len(es)
      /\ \A i \in DOMAIN less : less[i] = es[i]
  OBVIOUS
<1> HIDE DEF less
<1>0. IsNewest(Newest(es, out), es, out) /\ IsNewest(Newest(less, out), less, out)
  <2>1. IsNewest(Newest(es, out), es, out)
    BY NewestIs
  <2>2. IsNewest(Newest(less, out), less, out)
    BY <1>1, NewestIs
  <2>3. QED
    BY <2>1, <2>2
<1>2. PICK k, m : k = Newest(es, out) /\ m = Newest(less, out)
  OBVIOUS
<1>3. /\ k = [l \in DOMAIN k |-> k[l]]
      /\ \A i : Latest(es, out, i) => es[i].lid \in DOMAIN k /\ k[es[i].lid] = es[i].val
      /\ \A l \in DOMAIN k : \E i : Latest(es, out, i) /\ es[i].lid = l
  BY <1>2, <1>0 DEF IsNewest
<1>4. /\ m = [l \in DOMAIN m |-> m[l]]
      /\ \A i : Latest(less, out, i) => less[i].lid \in DOMAIN m /\ m[less[i].lid] = less[i].val
      /\ \A l \in DOMAIN m : \E i : Latest(less, out, i) /\ less[i].lid = l
  BY <1>2, <1>0 DEF IsNewest
<1>5. ASSUME NEW i PROVE Latest(es, out, i) <=> Latest(less, out, i)
  BY <1>1 DEF Latest
<1>6. \A i : Latest(less, out, i) => less[i] = es[i]
  BY <1>1 DEF Latest
<1>7. DOMAIN k = DOMAIN m
  BY <1>3, <1>4, <1>5, <1>6
<1>8. \A l \in DOMAIN k : k[l] = m[l]
  BY <1>3, <1>4, <1>5, <1>6
<1>9. k = m
  BY <1>3, <1>4, <1>7, <1>8
<1>10. QED
  BY <1>2, <1>9 DEF less

LEMMA NewestSame ==
    ASSUME NEW es \in Seq(Entries), NEW out, NEW other,
           \A i \in DOMAIN es : es[i].txid \in out <=> es[i].txid \in other
    PROVE  Newest(es, out) = Newest(es, other)
<1>1. {i \in DOMAIN es : es[i].txid \notin out} = {i \in DOMAIN es : es[i].txid \notin other}
  OBVIOUS
<1>2. QED
  BY <1>1 DEF Newest

\* Entries of which none is left out come over what was there.
LEMMA NewestMore ==
    ASSUME NEW es \in Seq(Entries), NEW more \in Seq(Entries), NEW out,
           \A i \in DOMAIN more : more[i].txid \notin out
    PROVE  Newest(es \o more, out) = Over(Newest(more, out), Newest(es, out))
<1> PICK all : all = es \o more
  OBVIOUS
<1>1. /\ all \in Seq(Entries) /\ Len(es) \in Nat /\ Len(more) \in Nat
      /\ DOMAIN all = 1 .. (Len(es) + Len(more))
      /\ DOMAIN es = 1 .. Len(es) /\ DOMAIN more = 1 .. Len(more)
      /\ \A i \in DOMAIN es : all[i] = es[i]
      /\ \A i \in DOMAIN more : all[Len(es) + i] = more[i]
      /\ \A i \in DOMAIN all : i > Len(es) =>
            i - Len(es) \in DOMAIN more /\ all[i] = more[i - Len(es)]
  OBVIOUS
<1> PICK n, m, a : n = Newest(es, out) /\ m = Newest(more, out) /\ a = Newest(all, out)
  OBVIOUS
<1>2. IsNewest(n, es, out)
  <2>1. IsNewest(Newest(es, out), es, out)
    BY NewestIs
  <2>2. QED
    BY <2>1
<1>3. IsNewest(m, more, out)
  <2>1. IsNewest(Newest(more, out), more, out)
    BY NewestIs
  <2>2. QED
    BY <2>1
<1>4. IsNewest(a, all, out)
  <2>1. IsNewest(Newest(all, out), all, out)
    BY <1>1, NewestIs
  <2>2. QED
    BY <2>1
<1>5. ASSUME NEW i, Latest(more, out, i) PROVE Latest(all, out, Len(es) + i)
  <2>1. i \in DOMAIN more /\ Len(es) + i \in DOMAIN all /\ all[Len(es) + i] = more[i]
        /\ i \in Nat
    BY <1>1, <1>5 DEF Latest
  <2>2. ASSUME NEW j \in DOMAIN all, all[j].txid \notin out, all[j].lid = more[i].lid
        PROVE  j <= Len(es) + i
    <3>1. CASE j <= Len(es)
      BY <1>1, <2>1, <3>1
    <3>2. CASE j > Len(es)
      <4>1. j - Len(es) \in DOMAIN more /\ all[j] = more[j - Len(es)]
        BY <1>1, <3>2
      <4>2. j - Len(es) <= i
        BY <1>5, <2>2, <4>1 DEF Latest
      <4>3. QED
        BY <1>1, <2>1, <4>2
    <3>3. QED
      BY <1>1, <3>1, <3>2
  <2>3. QED
    BY <1>5, <2>1, <2>2 DEF Latest
<1>6. ASSUME NEW i, Latest(es, out, i), es[i].lid \notin DOMAIN m PROVE Latest(all, out, i)
  <2>1. i \in DOMAIN es /\ i \in DOMAIN all /\ all[i] = es[i] /\ es[i].txid \notin out
    BY <1>1, <1>6 DEF Latest
  <2>2. ASSUME NEW j \in DOMAIN all, all[j].txid \notin out, all[j].lid = es[i].lid
        PROVE  j <= i
    <3>1. CASE j <= Len(es)
      <4>1. j \in DOMAIN es /\ all[j] = es[j]
        BY <1>1, <3>1
      <4>2. QED
        BY <1>6, <2>2, <4>1 DEF Latest
    <3>2. CASE j > Len(es)
      <4>1. j - Len(es) \in DOMAIN more /\ all[j] = more[j - Len(es)]
        BY <1>1, <3>2
      <4>2. more[j - Len(es)].lid \in DOMAIN m
        BY <1>3, <4>1 DEF IsNewest
      <4>3. QED
        BY <1>6, <2>2, <4>1, <4>2
    <3>3. QED
      BY <1>1, <3>1, <3>2
  <2>3. QED
    BY <1>6, <2>1, <2>2 DEF Latest
<1>7. DOMAIN a = DOMAIN m \cup DOMAIN n
  <2>1. \A i \in DOMAIN es : es[i].txid \notin out =>
            i \in DOMAIN all /\ all[i].txid \notin out /\ all[i].lid = es[i].lid
    BY <1>1
  <2>2. \A i \in DOMAIN more : Len(es) + i \in DOMAIN all
            /\ all[Len(es) + i].txid \notin out /\ all[Len(es) + i].lid = more[i].lid
    BY <1>1
  <2>3. ASSUME NEW l \in DOMAIN n PROVE l \in DOMAIN a
    <3>1. PICK i \in DOMAIN es : es[i].txid \notin out /\ es[i].lid = l
      BY <1>2, <2>3 DEF IsNewest
    <3>2. PICK k \in DOMAIN all : all[k].txid \notin out /\ all[k].lid = l
      BY <2>1, <3>1
    <3>3. QED
      BY <1>4, <3>2 DEF IsNewest
  <2>4. ASSUME NEW l \in DOMAIN m PROVE l \in DOMAIN a
    <3>1. PICK i \in DOMAIN more : more[i].lid = l
      BY <1>3, <2>4 DEF IsNewest
    <3>2. PICK k \in DOMAIN all : all[k].txid \notin out /\ all[k].lid = l
      BY <2>2, <3>1
    <3>3. QED
      BY <1>4, <3>2 DEF IsNewest
  <2>5. ASSUME NEW l \in DOMAIN a PROVE l \in DOMAIN m \cup DOMAIN n
    <3>1. PICK i \in DOMAIN all : all[i].txid \notin out /\ all[i].lid = l
      BY <1>4, <2>5 DEF IsNewest
    <3>2. CASE i <= Len(es)
      <4>1. i \in DOMAIN es /\ all[i] = es[i]
        BY <1>1, <3>2
      <4>2. QED
        BY <1>2, <3>1, <4>1 DEF IsNewest
    <3>3. CASE i > Len(es)
      <4>1. i - Len(es) \in DOMAIN more /\ all[i] = more[i - Len(es)]
        BY <1>1, <3>3
      <4>2. QED
        BY <1>3, <3>1, <4>1 DEF IsNewest
    <3>4. QED
      BY <1>1, <3>2, <3>3
  <2>6. QED
    BY <2>3, <2>4, <2>5
<1>8. ASSUME NEW l \in DOMAIN m PROVE a[l] = m[l]
  <2>1. PICK i : Latest(more, out, i) /\ more[i].lid = l
    BY <1>3, <1>8 DEF IsNewest
  <2>2. m[l] = more[i].val /\ i \in DOMAIN more
    BY <1>3, <2>1 DEF IsNewest, Latest
  <2>3. PICK k : all[k] = more[i] /\ Latest(all, out, k)
    BY <1>1, <1>5, <2>1, <2>2
  <2>4. a[all[k].lid] = all[k].val
    BY <1>4, <2>3 DEF IsNewest
  <2>5. QED
    BY <2>1, <2>2, <2>3, <2>4
<1>9. ASSUME NEW l \in DOMAIN n \ DOMAIN m PROVE a[l] = n[l]
  <2>1. PICK i : Latest(es, out, i) /\ es[i].lid = l
    BY <1>2, <1>9 DEF IsNewest
  <2>2. n[l] = es[i].val /\ i \in DOMAIN es
    BY <1>2, <2>1 DEF IsNewest, Latest
  <2>3. all[i] = es[i] /\ Latest(all, out, i)
    BY <1>1, <1>6, <1>9, <2>1, <2>2
  <2>4. a[l] = es[i].val
    BY <1>4, <2>1, <2>3 DEF IsNewest
  <2>5. QED
    BY <2>2, <2>4
<1>10. a = [l \in DOMAIN a |-> a[l]]
  BY <1>4 DEF IsNewest
<1>11. a = Over(m, n)
  BY <1>7, <1>8, <1>9, <1>10 DEF Over
<1>12. QED
  BY <1>11

-----------------------------------------------------------------------------
(* The tables, newest first.                                                 *)

IsMerged(n, ts) ==
    /\ DOMAIN n = UNION {DOMAIN ts[i] : i \in DOMAIN ts}
    /\ n = [l \in DOMAIN n |-> n[l]]
    /\ \A l \in DOMAIN n : \E i \in DOMAIN ts :
          /\ l \in DOMAIN ts[i] /\ n[l] = ts[i][l]
          /\ \A j \in DOMAIN ts : l \in DOMAIN ts[j] => i <= j

LEMMA MergedIs ==
    ASSUME NEW ts \in Seq(AllTables)
    PROVE  IsMerged(Merged(ts), ts)
<1> DEFINE of(l) == {i \in DOMAIN ts : l \in DOMAIN ts[i]}
<1>1. Merged(ts) = [l \in UNION {DOMAIN ts[i] : i \in DOMAIN ts} |-> ts[Min(of(l))][l]]
  BY DEF Merged
<1>2. DOMAIN ts = 1 .. Len(ts) /\ Len(ts) \in Nat
  OBVIOUS
<1>3. ASSUME NEW l \in UNION {DOMAIN ts[i] : i \in DOMAIN ts}
      PROVE  Min(of(l)) \in of(l) /\ \A i \in of(l) : Min(of(l)) <= i
  <2>1. of(l) \in SUBSET (0 .. Len(ts)) /\ of(l) # {}
    BY <1>2
  <2> HIDE DEF of
  <2>2. QED
    BY <1>2, <2>1, Lowest
<1>4. PICK n : n = Merged(ts)
  OBVIOUS
<1>5. /\ DOMAIN n = UNION {DOMAIN ts[i] : i \in DOMAIN ts} /\ n = [l \in DOMAIN n |-> n[l]]
      /\ \A l \in DOMAIN n : n[l] = ts[Min(of(l))][l]
  BY <1>1, <1>4
<1>6. ASSUME NEW l \in DOMAIN n
      PROVE  \E i \in DOMAIN ts : /\ l \in DOMAIN ts[i] /\ n[l] = ts[i][l]
                                  /\ \A j \in DOMAIN ts : l \in DOMAIN ts[j] => i <= j
  <2>1. PICK m : m = Min(of(l))
    OBVIOUS
  <2>2. m \in of(l) /\ \A i \in of(l) : m <= i
    BY <1>3, <1>5, <2>1
  <2>3. m \in DOMAIN ts /\ l \in DOMAIN ts[m] /\ n[l] = ts[m][l]
    BY <1>5, <2>1, <2>2
  <2>4. QED
    BY <2>2, <2>3
<1> HIDE DEF of
<1>7. IsMerged(n, ts)
  BY <1>5, <1>6 DEF IsMerged
<1>8. QED
  BY <1>4, <1>7

LEMMA MergedTyped ==
    ASSUME NEW ts \in Seq(AllTables)
    PROVE  Merged(ts) \in AllTables
<1>1. PICK n : n = Merged(ts)
  OBVIOUS
<1>2. /\ DOMAIN n = UNION {DOMAIN ts[i] : i \in DOMAIN ts} /\ n = [l \in DOMAIN n |-> n[l]]
      /\ \A l \in DOMAIN n : \E i \in DOMAIN ts :
            /\ l \in DOMAIN ts[i] /\ n[l] = ts[i][l]
            /\ \A j \in DOMAIN ts : l \in DOMAIN ts[j] => i <= j
  <2>1. IsMerged(Merged(ts), ts)
    BY MergedIs
  <2>2. QED
    BY <1>1, <2>1 DEF IsMerged
<1>3. ASSUME NEW i \in DOMAIN ts
      PROVE  DOMAIN ts[i] \subseteq 1 .. MaxLid /\ \A l \in DOMAIN ts[i] : ts[i][l] \in Versions
  <2>1. ts[i] \in AllTables
    OBVIOUS
  <2>2. QED
    BY <2>1, TableIs
<1>4. \A l \in DOMAIN n : l \in 1 .. MaxLid /\ n[l] \in Versions
  BY <1>2, <1>3
<1>5. n \in AllTables
  BY <1>2, <1>4, TableIs
<1>6. QED
  BY <1>1, <1>5

LEMMA MergedOne ==
    ASSUME NEW t \in AllTables
    PROVE  Merged(<<t>>) = t
<1>1. PICK ts : ts = <<t>>
  OBVIOUS
<1>2. ts \in Seq(AllTables) /\ DOMAIN ts = {1} /\ ts[1] = t
  BY <1>1
<1>3. IsMerged(Merged(ts), ts)
  BY <1>2, MergedIs
<1>4. PICK n : n = Merged(ts)
  OBVIOUS
<1>5. DOMAIN n = DOMAIN t /\ \A l \in DOMAIN t : n[l] = t[l]
  <2>1. IsMerged(n, ts)
    BY <1>3, <1>4
  <2>2. DOMAIN n = UNION {DOMAIN ts[i] : i \in {1}}
    BY <1>2, <2>1 DEF IsMerged
  <2>3. \A l \in DOMAIN n : n[l] = ts[1][l]
    BY <1>2, <2>1 DEF IsMerged
  <2>4. QED
    BY <1>2, <2>2, <2>3
<1>6. n \in AllTables
  BY <1>2, <1>4, MergedTyped
<1>7. n = t
  BY <1>5, <1>6, SameTable
<1>8. QED
  BY <1>1, <1>4, <1>7

\* A table in front of the others comes over them.
LEMMA MergedFront ==
    ASSUME NEW t \in AllTables, NEW ts \in Seq(AllTables)
    PROVE  Merged(<<t>> \o ts) = Over(t, Merged(ts))
<1> PICK all : all = <<t>> \o ts
  OBVIOUS
<1>1. /\ all \in Seq(AllTables) /\ Len(ts) \in Nat /\ DOMAIN all = 1 .. (1 + Len(ts))
      /\ DOMAIN ts = 1 .. Len(ts) /\ all[1] = t /\ 1 \in DOMAIN all
      /\ \A i \in DOMAIN ts : 1 + i \in DOMAIN all /\ all[1 + i] = ts[i]
      /\ \A i \in DOMAIN all : i # 1 => i - 1 \in DOMAIN ts /\ all[i] = ts[i - 1]
  OBVIOUS
<1> PICK a, m, o : a = Merged(all) /\ m = Merged(ts) /\ o = Over(t, m)
  OBVIOUS
<1>2. /\ DOMAIN a = UNION {DOMAIN all[i] : i \in DOMAIN all}
      /\ \A l \in DOMAIN a : \E i \in DOMAIN all :
            /\ l \in DOMAIN all[i] /\ a[l] = all[i][l]
            /\ \A j \in DOMAIN all : l \in DOMAIN all[j] => i <= j
  <2>1. IsMerged(Merged(all), all)
    BY <1>1, MergedIs
  <2>2. IsMerged(a, all)
    BY <2>1
  <2>3. QED
    BY <2>2 DEF IsMerged
<1>3. /\ DOMAIN m = UNION {DOMAIN ts[i] : i \in DOMAIN ts}
      /\ \A l \in DOMAIN m : \E i \in DOMAIN ts :
            /\ l \in DOMAIN ts[i] /\ m[l] = ts[i][l]
            /\ \A j \in DOMAIN ts : l \in DOMAIN ts[j] => i <= j
  <2>1. IsMerged(Merged(ts), ts)
    BY MergedIs
  <2>2. IsMerged(m, ts)
    BY <2>1
  <2>3. QED
    BY <2>2 DEF IsMerged
<1>4. a \in AllTables /\ m \in AllTables
  <2>1. Merged(all) \in AllTables
    BY <1>1, MergedTyped
  <2>2. Merged(ts) \in AllTables
    BY MergedTyped
  <2>3. QED
    BY <2>1, <2>2
<1>5. o \in AllTables
  BY <1>4, OverTyped
<1>6. /\ DOMAIN o = DOMAIN t \cup DOMAIN m
      /\ \A l \in DOMAIN t : o[l] = t[l]
      /\ \A l \in DOMAIN m \ DOMAIN t : o[l] = m[l]
  BY DEF Over
<1>7. DOMAIN a = DOMAIN o
  <2>1. ASSUME NEW l \in DOMAIN a PROVE l \in DOMAIN t \cup DOMAIN m
    <3>1. PICK i \in DOMAIN all : l \in DOMAIN all[i]
      BY <1>2, <2>1
    <3>2. QED
      BY <1>1, <1>3, <3>1
  <2>2. ASSUME NEW l \in DOMAIN m PROVE l \in DOMAIN a
    <3>1. PICK i \in DOMAIN ts : l \in DOMAIN ts[i]
      BY <1>3, <2>2
    <3>2. PICK k \in DOMAIN all : all[k] = ts[i]
      BY <1>1, <3>1
    <3>3. QED
      BY <1>2, <3>1, <3>2
  <2>3. ASSUME NEW l \in DOMAIN t PROVE l \in DOMAIN a
    <3>1. PICK k \in DOMAIN all : all[k] = t
      BY <1>1
    <3>2. QED
      BY <1>2, <2>3, <3>1
  <2>4. QED
    BY <1>6, <2>1, <2>2, <2>3
<1>8. ASSUME NEW l \in DOMAIN a PROVE a[l] = o[l]
  <2>1. PICK i \in DOMAIN all : /\ l \in DOMAIN all[i] /\ a[l] = all[i][l]
                                /\ \A j \in DOMAIN all : l \in DOMAIN all[j] => i <= j
    BY <1>2, <1>8
  <2>2. CASE l \in DOMAIN t
    <3>1. i <= 1 /\ i \in 1 .. (1 + Len(ts))
      BY <1>1, <2>1, <2>2
    <3>2. i = 1
      BY <1>1, <3>1
    <3>3. QED
      BY <1>1, <1>6, <2>1, <2>2, <3>2
  <2>3. CASE l \notin DOMAIN t
    <3>1. i # 1
      BY <1>1, <2>1, <2>3
    <3>2. i - 1 \in DOMAIN ts /\ all[i] = ts[i - 1]
      BY <1>1, <3>1
    <3>3. l \in DOMAIN m
      BY <1>3, <2>1, <3>2
    <3>4. PICK k \in DOMAIN ts : /\ l \in DOMAIN ts[k] /\ m[l] = ts[k][l]
                                 /\ \A j \in DOMAIN ts : l \in DOMAIN ts[j] => k <= j
      BY <1>3, <3>3
    <3>5. k <= i - 1
      BY <2>1, <3>2, <3>4
    <3>6. i <= 1 + k
      BY <1>1, <2>1, <3>4
    <3>7. k = i - 1
      BY <1>1, <3>5, <3>6
    <3>8. QED
      BY <1>6, <2>1, <2>3, <3>2, <3>3, <3>4, <3>7
  <2>4. QED
    BY <2>2, <2>3
<1>9. a = o
  BY <1>4, <1>5, <1>7, <1>8, SameTable
<1>10. QED
  BY <1>9

-----------------------------------------------------------------------------
(* The log: the frames before the first bad header.                          *)

Frames == Entries \cup {NoFrame}

LEMMA NoFrameIsNoEntry == NoFrame \notin Entries
<1>1. Entries \subseteq EntryOf(Vals \cup {Gone})
  BY DEF Entries, EntryOf, Versions
<1>2. QED
  BY <1>1, NoFrameIsNone

IsChain(c, fs) ==
    /\ c \in Seq(Entries) /\ Len(c) <= Len(fs)
    /\ \A i \in 1 .. Len(c) : c[i] = fs[i]
    /\ Len(c) < Len(fs) => fs[Len(c) + 1] = NoFrame

LEMMA ChainIs ==
    ASSUME NEW fs \in Seq(Frames)
    PROVE  IsChain(Chain(fs), fs)
<1> DEFINE bad == {i \in DOMAIN fs : fs[i] = NoFrame}
<1>1. /\ Chain(fs) = IF bad = {} THEN fs ELSE SubSeq(fs, 1, Min(bad) - 1)
      /\ Len(fs) \in Nat /\ DOMAIN fs = 1 .. Len(fs) /\ \A i \in DOMAIN fs : fs[i] \in Frames
  BY DEF Chain
<1>2. CASE bad = {}
  <2>1. \A i \in DOMAIN fs : fs[i] \in Entries
    BY <1>1, <1>2 DEF Frames
  <2>2. fs \in Seq(Entries)
    BY <1>1, <2>1
  <2>3. QED
    BY <1>1, <1>2, <2>2 DEF IsChain
<1>3. CASE bad # {}
  <2>1. bad \in SUBSET (0 .. Len(fs))
    BY <1>1
  <2> HIDE DEF bad
  <2>2. PICK m : m = Min(bad)
    OBVIOUS
  <2>3. m \in bad /\ \A i \in bad : m <= i
    BY <1>1, <1>3, <2>1, <2>2, Lowest
  <2>4. m \in 1 .. Len(fs) /\ fs[m] = NoFrame /\ m - 1 \in Nat
    BY <1>1, <2>3 DEF bad
  <2>5. ASSUME NEW i \in 1 .. (m - 1) PROVE fs[i] \in Entries
    <3>1. i \in DOMAIN fs /\ ~(m <= i)
      BY <1>1, <2>4
    <3>2. fs[i] # NoFrame
      BY <2>3, <3>1 DEF bad
    <3>3. QED
      BY <1>1, <3>1, <3>2 DEF Frames
  <2>6. PICK c : c = SubSeq(fs, 1, m - 1)
    OBVIOUS
  <2>7. Len(c) = m - 1 /\ c \in Seq(Entries) /\ \A i \in 1 .. Len(c) : c[i] = fs[i]
    BY <1>1, <2>4, <2>5, <2>6
  <2>8. IsChain(c, fs)
    BY <1>1, <2>4, <2>7 DEF IsChain
  <2>9. QED
    BY <1>1, <1>3, <2>2, <2>6, <2>8
<1>4. QED
  BY <1>2, <1>3

LEMMA ChainOnly ==
    ASSUME NEW fs \in Seq(Frames), NEW c, IsChain(c, fs)
    PROVE  Chain(fs) = c
<1>1. PICK d : d = Chain(fs)
  OBVIOUS
<1>2. IsChain(d, fs)
  <2>1. IsChain(Chain(fs), fs)
    BY ChainIs
  <2>2. QED
    BY <1>1, <2>1
<1>3. /\ c \in Seq(Entries) /\ d \in Seq(Entries) /\ Len(c) \in Nat /\ Len(d) \in Nat
      /\ Len(fs) \in Nat /\ Len(c) <= Len(fs) /\ Len(d) <= Len(fs)
      /\ \A i \in 1 .. Len(c) : c[i] = fs[i] /\ c[i] \in Entries
      /\ \A i \in 1 .. Len(d) : d[i] = fs[i] /\ d[i] \in Entries
      /\ Len(c) < Len(fs) => fs[Len(c) + 1] = NoFrame
      /\ Len(d) < Len(fs) => fs[Len(d) + 1] = NoFrame
  BY <1>2 DEF IsChain
<1>4. ~(Len(c) < Len(d))
  <2>1. SUFFICES ASSUME Len(c) < Len(d) PROVE FALSE
    OBVIOUS
  <2>2. Len(c) < Len(fs) /\ Len(c) + 1 \in 1 .. Len(d)
    BY <1>3, <2>1
  <2>3. QED
    BY <1>3, <2>2, NoFrameIsNoEntry
<1>5. ~(Len(d) < Len(c))
  <2>1. SUFFICES ASSUME Len(d) < Len(c) PROVE FALSE
    OBVIOUS
  <2>2. Len(d) < Len(fs) /\ Len(d) + 1 \in 1 .. Len(c)
    BY <1>3, <2>1
  <2>3. QED
    BY <1>3, <2>2, NoFrameIsNoEntry
<1>6. Len(c) = Len(d)
  BY <1>3, <1>4, <1>5
<1>7. c = d
  BY <1>3, <1>6
<1>8. QED
  BY <1>1, <1>7

LEMMA ChainTyped ==
    ASSUME NEW fs \in Seq(Frames)
    PROVE  /\ Chain(fs) \in Seq(Entries) /\ Len(Chain(fs)) \in Nat
           /\ Len(Chain(fs)) <= Len(fs)
           /\ \A i \in 1 .. Len(Chain(fs)) : Chain(fs)[i] = fs[i]
<1>1. IsChain(Chain(fs), fs)
  BY ChainIs
<1>2. QED
  BY <1>1 DEF IsChain

LEMMA Joined ==
    ASSUME NEW S, NEW a \in Seq(S), NEW b \in Seq(S)
    PROVE  /\ a \o b \in Seq(S) /\ Len(a \o b) = Len(a) + Len(b)
           /\ \A i \in 1 .. Len(a) : (a \o b)[i] = a[i]
           /\ \A i \in 1 .. Len(b) : (a \o b)[Len(a) + i] = b[i]
           /\ Len(a) \in Nat /\ Len(b) \in Nat
  OBVIOUS

LEMMA WrittenTyped ==
    ASSUME NEW fs \in Seq(Frames), NEW at \in 0 .. Len(fs), NEW e \in Entries
    PROVE  /\ Written(fs, at, e) \in Seq(Frames)
           /\ Len(Written(fs, at, e)) >= at + 1
           /\ \A i \in 1 .. at : Written(fs, at, e)[i] = fs[i]
           /\ Written(fs, at, e)[at + 1] = e
           /\ ~ResidueAligns => Len(Written(fs, at, e)) = at + 1
<1>1. PICK a, b, c : /\ a = SubSeq(fs, 1, at) /\ b = <<e>>
                     /\ c = IF ResidueAligns THEN SubSeq(fs, at + 2, Len(fs)) ELSE << >>
  OBVIOUS
<1>2. Written(fs, at, e) = a \o b \o c
  BY <1>1 DEF Written
<1>3. /\ a \in Seq(Frames) /\ b \in Seq(Frames) /\ c \in Seq(Frames)
      /\ Len(a) = at /\ Len(b) = 1 /\ Len(c) \in Nat /\ at \in Nat
      /\ ~ResidueAligns => Len(c) = 0
      /\ \A i \in 1 .. at : a[i] = fs[i]
      /\ b[1] = e
  <2>1. a \in Seq(Frames) /\ Len(a) = at /\ at \in Nat /\ \A i \in 1 .. at : a[i] = fs[i]
    BY <1>1
  <2>2. b \in Seq(Frames) /\ Len(b) = 1 /\ b[1] = e
    BY <1>1 DEF Frames
  <2>3. c \in Seq(Frames) /\ Len(c) \in Nat /\ (~ResidueAligns => Len(c) = 0)
    <3>1. CASE ResidueAligns
      BY <1>1, <3>1
    <3>2. CASE ~ResidueAligns
      BY <1>1, <3>2
    <3>3. QED
      BY <3>1, <3>2
  <2>4. QED
    BY <2>1, <2>2, <2>3
<1> HIDE <1>1
<1>4. PICK ab : ab = a \o b
  OBVIOUS
<1>5. /\ ab \in Seq(Frames) /\ Len(ab) = at + 1 /\ ab[at + 1] = e
      /\ \A i \in 1 .. at : ab[i] = fs[i]
  <2>1. /\ a \o b \in Seq(Frames) /\ Len(a \o b) = Len(a) + Len(b)
        /\ \A i \in 1 .. Len(a) : (a \o b)[i] = a[i]
        /\ \A i \in 1 .. Len(b) : (a \o b)[Len(a) + i] = b[i]
        /\ Len(a) \in Nat /\ Len(b) \in Nat
    BY <1>3, Joined
  <2>2. /\ ab \in Seq(Frames) /\ Len(ab) = at + 1
        /\ \A i \in 1 .. at : ab[i] = a[i]
        /\ \A i \in 1 .. 1 : ab[at + i] = b[i]
    BY <1>3, <1>4, <2>1
  <2>3. QED
    BY <1>3, <2>2
<1>6. PICK w : w = ab \o c
  OBVIOUS
<1>7. /\ w \in Seq(Frames) /\ Len(w) = at + 1 + Len(c)
      /\ \A i \in 1 .. (at + 1) : w[i] = ab[i]
  <2>1. /\ ab \o c \in Seq(Frames) /\ Len(ab \o c) = Len(ab) + Len(c)
        /\ \A i \in 1 .. Len(ab) : (ab \o c)[i] = ab[i]
        /\ \A i \in 1 .. Len(c) : (ab \o c)[Len(ab) + i] = c[i]
        /\ Len(ab) \in Nat /\ Len(c) \in Nat
    BY <1>3, <1>5, Joined
  <2>2. QED
    BY <1>3, <1>5, <1>6, <2>1
<1>8. w = Written(fs, at, e)
  BY <1>2, <1>4, <1>6
<1>9. \A i \in 1 .. at : w[i] = fs[i]
  BY <1>3, <1>5, <1>7
<1>10. w[at + 1] = e
  BY <1>3, <1>5, <1>7
<1>11. QED
  BY <1>3, <1>7, <1>8, <1>9, <1>10

\* What was readable before the place of the write stays so, and the entry is.
LEMMA ChainOfWrite ==
    ASSUME NEW fs \in Seq(Frames), NEW at \in 0 .. Len(Chain(fs)), NEW e \in Entries
    PROVE  /\ Written(fs, at, e) \in Seq(Frames)
           /\ at + 1 <= Len(Chain(Written(fs, at, e)))
<1> PICK c, w : c = Chain(fs) /\ w = Written(fs, at, e)
  OBVIOUS
<1>1. /\ c \in Seq(Entries) /\ Len(c) \in Nat /\ Len(c) <= Len(fs)
      /\ \A i \in 1 .. Len(c) : c[i] = fs[i]
  <2>1. /\ Chain(fs) \in Seq(Entries) /\ Len(Chain(fs)) \in Nat
        /\ Len(Chain(fs)) <= Len(fs)
        /\ \A i \in 1 .. Len(Chain(fs)) : Chain(fs)[i] = fs[i]
    BY ChainTyped
  <2>2. QED
    BY <2>1
<1>2. at \in Nat /\ at <= Len(c) /\ at \in 0 .. Len(fs)
  BY <1>1
<1>3. /\ w \in Seq(Frames) /\ Len(w) >= at + 1 /\ w[at + 1] = e
      /\ \A i \in 1 .. at : w[i] = fs[i]
  <2>1. /\ Written(fs, at, e) \in Seq(Frames)
        /\ Len(Written(fs, at, e)) >= at + 1
        /\ \A i \in 1 .. at : Written(fs, at, e)[i] = fs[i]
        /\ Written(fs, at, e)[at + 1] = e
        /\ ~ResidueAligns => Len(Written(fs, at, e)) = at + 1
    BY <1>2, WrittenTyped
  <2>2. QED
    BY <2>1
<1>4. PICK d : d = Chain(w)
  OBVIOUS
<1>5. IsChain(d, w)
  <2>1. IsChain(Chain(w), w)
    BY <1>3, ChainIs
  <2>2. QED
    BY <1>4, <2>1
<1>6. ~(Len(d) < at + 1)
  <2>1. SUFFICES ASSUME Len(d) < at + 1 PROVE FALSE
    OBVIOUS
  <2>2. Len(d) \in Nat /\ Len(w) \in Nat
    BY <1>3, <1>5 DEF IsChain
  <2>3. w[Len(d) + 1] = NoFrame
    BY <1>2, <1>3, <1>5, <2>1, <2>2 DEF IsChain
  <2>4. CASE Len(d) = at
    BY <1>3, <2>3, <2>4, NoFrameIsNoEntry
  <2>5. CASE Len(d) # at
    <3>1. Len(d) + 1 \in 1 .. at /\ Len(d) + 1 \in 1 .. Len(c)
      BY <1>1, <1>2, <2>1, <2>2, <2>5
    <3>2. fs[Len(d) + 1] = NoFrame /\ c[Len(d) + 1] = fs[Len(d) + 1]
      BY <1>1, <1>3, <2>3, <3>1
    <3>3. c[Len(d) + 1] \in Entries
      BY <1>1, <3>1
    <3>4. QED
      BY <3>2, <3>3, NoFrameIsNoEntry
  <2>6. QED
    BY <2>4, <2>5
<1>7. Len(d) \in Nat
  BY <1>5 DEF IsChain
<1>8. at + 1 <= Len(d)
  BY <1>2, <1>6, <1>7
<1>9. QED
  BY <1>3, <1>4, <1>8

\* A write at the end of what is readable appends to it, if no residue follows.
LEMMA ChainAppend ==
    ASSUME ~ResidueAligns, NEW fs \in Seq(Frames), NEW e \in Entries
    PROVE  Chain(Written(fs, Len(Chain(fs)), e)) = Append(Chain(fs), e)
<1> PICK c : c = Chain(fs)
  OBVIOUS
<1>1. /\ c \in Seq(Entries) /\ Len(c) \in Nat /\ Len(c) <= Len(fs)
      /\ \A i \in 1 .. Len(c) : c[i] = fs[i]
  <2>1. /\ Chain(fs) \in Seq(Entries) /\ Len(Chain(fs)) \in Nat
        /\ Len(Chain(fs)) <= Len(fs)
        /\ \A i \in 1 .. Len(Chain(fs)) : Chain(fs)[i] = fs[i]
    BY ChainTyped
  <2>2. QED
    BY <2>1
<1>2. PICK w : w = Written(fs, Len(c), e)
  OBVIOUS
<1>3. /\ w \in Seq(Frames) /\ Len(w) = Len(c) + 1 /\ w[Len(c) + 1] = e
      /\ \A i \in 1 .. Len(c) : w[i] = fs[i]
  <2>1. Len(c) \in 0 .. Len(fs)
    BY <1>1
  <2>2. PICK at \in 0 .. Len(fs) : at = Len(c)
    BY <2>1
  <2>3. /\ Written(fs, at, e) \in Seq(Frames)
        /\ Len(Written(fs, at, e)) >= at + 1
        /\ \A i \in 1 .. at : Written(fs, at, e)[i] = fs[i]
        /\ Written(fs, at, e)[at + 1] = e
        /\ ~ResidueAligns => Len(Written(fs, at, e)) = at + 1
    BY WrittenTyped
  <2>4. w = Written(fs, at, e)
    BY <1>2, <2>2
  <2>5. QED
    BY <2>2, <2>3, <2>4
<1>4. PICK d : d = Append(c, e)
  OBVIOUS
<1>5. /\ d \in Seq(Entries) /\ Len(d) = Len(c) + 1 /\ d[Len(c) + 1] = e
      /\ \A i \in 1 .. Len(c) : d[i] = c[i]
  BY <1>1, <1>4
<1>6. \A i \in 1 .. Len(d) : d[i] = w[i]
  BY <1>1, <1>3, <1>5
<1>7. IsChain(d, w)
  BY <1>3, <1>5, <1>6, <1>1 DEF IsChain
<1>8. Chain(w) = d
  BY <1>3, <1>7, ChainOnly
<1>9. QED
  BY <1>2, <1>4, <1>8

\* A bad header in the readable part cuts it there.
LEMMA ChainOfCut ==
    ASSUME NEW fs \in Seq(Frames), NEW at \in Nat
    PROVE  /\ Severed(fs, at) \in Seq(Frames)
           /\ Len(Severed(fs, at)) = Len(fs)
           /\ at < Len(Chain(fs)) => Chain(Severed(fs, at)) = SubSeq(Chain(fs), 1, at)
           /\ at = 0 => Chain(Severed(fs, at)) = << >>
<1> PICK c, s : c = Chain(fs) /\ s = Severed(fs, at)
  OBVIOUS
<1>1. /\ c \in Seq(Entries) /\ Len(c) \in Nat /\ Len(c) <= Len(fs)
      /\ \A i \in 1 .. Len(c) : c[i] = fs[i]
  <2>1. /\ Chain(fs) \in Seq(Entries) /\ Len(Chain(fs)) \in Nat
        /\ Len(Chain(fs)) <= Len(fs)
        /\ \A i \in 1 .. Len(Chain(fs)) : Chain(fs)[i] = fs[i]
    BY ChainTyped
  <2>2. QED
    BY <2>1
<1>2. s = [i \in DOMAIN fs |-> IF i = at + 1 THEN NoFrame ELSE fs[i]]
  BY DEF Severed
<1>3. /\ s \in Seq(Frames) /\ Len(s) = Len(fs) /\ Len(fs) \in Nat
      /\ \A i \in 1 .. Len(fs) : s[i] = IF i = at + 1 THEN NoFrame ELSE fs[i]
  <2>1. Len(fs) \in Nat /\ DOMAIN fs = 1 .. Len(fs) /\ \A i \in DOMAIN fs : fs[i] \in Frames
    OBVIOUS
  <2>2. NoFrame \in Frames
    BY DEF Frames
  <2>3. s \in [1 .. Len(fs) -> Frames]
    BY <1>2, <2>1, <2>2
  <2>4. s \in Seq(Frames)
    BY <2>1, <2>3
  <2>5. Len(s) = Len(fs)
    BY <2>1, <2>3, <2>4
  <2>6. QED
    BY <1>2, <2>1, <2>4, <2>5
<1>4. ASSUME at < Len(c) PROVE Chain(s) = SubSeq(c, 1, at)
  <2>1. PICK d : d = SubSeq(c, 1, at)
    OBVIOUS
  <2>2. /\ d \in Seq(Entries) /\ Len(d) = at /\ \A i \in 1 .. at : d[i] = c[i]
    BY <1>1, <1>4, <2>1
  <2>3. at + 1 \in 1 .. Len(fs) /\ s[at + 1] = NoFrame
    BY <1>1, <1>3, <1>4
  <2>4. ASSUME NEW i \in 1 .. Len(d) PROVE d[i] = s[i]
    <3>1. i \in 1 .. Len(c) /\ i \in 1 .. Len(fs) /\ i # at + 1
      BY <1>1, <1>3, <1>4, <2>2
    <3>2. QED
      BY <1>1, <1>3, <2>2, <3>1
  <2>5. Len(d) <= Len(s)
    BY <1>3, <2>2, <2>3
  <2>6. IsChain(d, s)
    BY <1>3, <2>2, <2>3, <2>4, <2>5 DEF IsChain
  <2>7. QED
    BY <1>3, <2>1, <2>6, ChainOnly
<1>5. ASSUME at = 0 PROVE Chain(s) = << >>
  <2>1. Len(s) > 0 => s[1] = NoFrame
    BY <1>3, <1>5
  <2>2. IsChain(<< >>, s)
    BY <1>3, <2>1 DEF IsChain
  <2>3. QED
    BY <1>3, <2>2, ChainOnly
<1>6. QED
  BY <1>3, <1>4, <1>5

LEMMA ChainOfNothing == Chain(<< >>) = << >>
<1>1. << >> \in Seq(Frames) /\ IsChain(<< >>, << >>)
  BY DEF IsChain
<1>2. QED
  BY <1>1, ChainOnly

-----------------------------------------------------------------------------
(* What the operations of a call do to a dictionary: the recursion has the    *)
(* values its equation says, as the least place where it had not has a place  *)
(* before it.                                                                 *)

ApplySteps(f, s, ops, n) ==
    f = [i \in 0 .. n |-> IF i = 0 THEN s ELSE Promise!Effect(f[i - 1], ops[i])]

LEMMA ApplyStepsExist ==
    ASSUME NEW s, NEW ops, NEW n \in Nat
    PROVE  \E f : ApplySteps(f, s, ops, n)
<1> DEFINE Bad == {k \in 0 .. n : ~ \E f : ApplySteps(f, s, ops, k)}
<1>1. SUFFICES ASSUME Bad # {} PROVE FALSE
  <2>1. n \in 0 .. n
    OBVIOUS
  <2>2. QED
    BY <1>1, <2>1
<1>2. Bad \in SUBSET (0 .. n)
  OBVIOUS
<1> HIDE DEF Bad
<1>3. PICK k \in Bad : \A x \in Bad : k <= x
  BY <1>1, <1>2, Lowest
<1>4. k \in 0 .. n /\ ~ \E f : ApplySteps(f, s, ops, k)
  BY DEF Bad
<1>5. k # 0
  <2>1. ApplySteps([i \in 0 .. 0 |-> s], s, ops, 0)
    BY DEF ApplySteps
  <2>2. QED
    BY <1>4, <2>1
<1>6. k - 1 \in 0 .. n /\ ~(k <= k - 1)
  BY <1>4, <1>5
<1>7. k - 1 \notin Bad
  BY <1>3, <1>6
<1>8. PICK f : ApplySteps(f, s, ops, k - 1)
  BY <1>6, <1>7 DEF Bad
<1> DEFINE g == [i \in 0 .. k |-> IF i = k THEN Promise!Effect(f[k - 1], ops[k]) ELSE f[i]]
<1>9. ASSUME NEW i \in 0 .. k
      PROVE  g[i] = IF i = 0 THEN s ELSE Promise!Effect(g[i - 1], ops[i])
  <2>1. CASE i = k
    <3>1. k - 1 \in 0 .. k /\ k - 1 # k
      BY <1>4, <1>5
    <3>2. g[k - 1] = f[k - 1]
      BY <3>1
    <3>3. QED
      BY <1>5, <2>1, <3>2
  <2>2. CASE i # k
    <3>1. i \in 0 .. (k - 1) /\ (i # 0 => i - 1 \in 0 .. k /\ i - 1 # k)
      BY <1>4, <1>5, <2>2
    <3>2. g[i] = f[i] /\ (i # 0 => g[i - 1] = f[i - 1])
      BY <2>2, <3>1
    <3>3. f[i] = IF i = 0 THEN s ELSE Promise!Effect(f[i - 1], ops[i])
      BY <1>8, <3>1 DEF ApplySteps
    <3>4. QED
      BY <3>2, <3>3
  <2>3. QED
    BY <2>1, <2>2
<1>10. ApplySteps(g, s, ops, k)
  BY <1>9 DEF ApplySteps
<1>11. QED
  BY <1>4, <1>10

LEMMA ApplyStepsAgree ==
    ASSUME NEW s, NEW ops, NEW other, NEW n \in Nat, NEW m \in Nat, n <= m,
           \A i \in 1 .. n : ops[i] = other[i],
           NEW f, ApplySteps(f, s, ops, n), NEW g, ApplySteps(g, s, other, m)
    PROVE  f[n] = g[n]
<1> DEFINE Bad == {k \in 0 .. n : f[k] # g[k]}
<1>1. SUFFICES ASSUME Bad # {} PROVE FALSE
  <2>1. n \in 0 .. n
    OBVIOUS
  <2>2. QED
    BY <1>1, <2>1
<1>2. Bad \in SUBSET (0 .. n)
  OBVIOUS
<1> HIDE DEF Bad
<1>3. PICK k \in Bad : \A x \in Bad : k <= x
  BY <1>1, <1>2, Lowest
<1>4. k \in 0 .. n /\ f[k] # g[k] /\ k \in 0 .. m
  BY DEF Bad
<1>5. /\ f[k] = IF k = 0 THEN s ELSE Promise!Effect(f[k - 1], ops[k])
      /\ g[k] = IF k = 0 THEN s ELSE Promise!Effect(g[k - 1], other[k])
  BY <1>4 DEF ApplySteps
<1>6. k # 0
  BY <1>4, <1>5
<1>7. k - 1 \in 0 .. n /\ ~(k <= k - 1) /\ k \in 1 .. n
  BY <1>4, <1>6
<1>8. f[k - 1] = g[k - 1]
  BY <1>3, <1>7 DEF Bad
<1>9. QED
  BY <1>4, <1>5, <1>6, <1>7, <1>8

LEMMA AppliedIs ==
    ASSUME NEW s, NEW ops, Len(ops) \in Nat
    PROVE  \E f : ApplySteps(f, s, ops, Len(ops)) /\ Promise!Applied(s, ops) = f[Len(ops)]
<1> DEFINE f == CHOOSE g : ApplySteps(g, s, ops, Len(ops))
<1>1. ApplySteps(f, s, ops, Len(ops))
  BY ApplyStepsExist
<1>2. Promise!Applied(s, ops) = f[Len(ops)]
  BY DEF Promise!Applied, ApplySteps
<1>3. QED
  BY <1>1, <1>2

LEMMA AppliedNone ==
    ASSUME NEW s
    PROVE  Promise!Applied(s, << >>) = s
<1>1. Len(<< >>) = 0
  OBVIOUS
<1>2. PICK f : ApplySteps(f, s, << >>, 0) /\ Promise!Applied(s, << >>) = f[0]
  BY <1>1, AppliedIs
<1>3. QED
  BY <1>2 DEF ApplySteps

LEMMA AppliedOneMore ==
    ASSUME NEW s, NEW S, NEW ops \in Seq(S), NEW e \in S
    PROVE  Promise!Applied(s, Append(ops, e)) = Promise!Effect(Promise!Applied(s, ops), e)
<1>0. PICK n, more : n = Len(ops) /\ more = Append(ops, e)
  OBVIOUS
<1>1. /\ n \in Nat /\ Len(more) = n + 1 /\ more[n + 1] = e /\ n + 1 \in Nat
      /\ \A i \in 1 .. n : ops[i] = more[i]
  BY <1>0
<1>2. PICK f : ApplySteps(f, s, ops, Len(ops)) /\ Promise!Applied(s, ops) = f[Len(ops)]
  BY <1>0, <1>1, AppliedIs
<1>3. PICK g : ApplySteps(g, s, more, Len(more)) /\ Promise!Applied(s, more) = g[Len(more)]
  BY <1>0, <1>1, AppliedIs
<1>4. ApplySteps(f, s, ops, n) /\ ApplySteps(g, s, more, n + 1)
  BY <1>0, <1>1, <1>2, <1>3
<1>5. n <= n + 1 /\ \A i \in 1 .. n : ops[i] = more[i]
  BY <1>1
<1>6. f[n] = g[n]
  <2>1. PICK m \in Nat : m = n + 1
    BY <1>1
  <2>2. n \in Nat /\ n <= m /\ ApplySteps(g, s, more, m)
    BY <1>1, <1>4, <1>5, <2>1
  <2>3. ApplySteps(f, s, ops, n) /\ \A i \in 1 .. n : ops[i] = more[i]
    BY <1>4, <1>5
  <2>4. QED
    BY <2>2, <2>3, ApplyStepsAgree
<1>7. n + 1 \in 0 .. (n + 1) /\ n + 1 # 0 /\ (n + 1) - 1 = n
  BY <1>1
<1>8. g[n + 1] = Promise!Effect(g[n], more[n + 1])
  BY <1>4, <1>7 DEF ApplySteps
<1>9. QED
  BY <1>0, <1>1, <1>2, <1>3, <1>6, <1>8

\* One operation more, seen through the index.
LEMMA EffectShows ==
    ASSUME NEW all, NEW e \in Entries
    PROVE  Present(Over([l \in {e.lid} |-> e.val], all)) = Promise!Effect(Present(all), e)
<1> PICK one : one = [l \in {e.lid} |-> e.val]
  OBVIOUS
<1> PICK o, p, q : o = Over(one, all) /\ p = Present(o) /\ q = Present(all)
  OBVIOUS
<1>1. /\ DOMAIN o = {e.lid} \cup DOMAIN all /\ o[e.lid] = e.val
      /\ \A l \in DOMAIN all : l # e.lid => o[l] = all[l]
  BY DEF Over
<1>2. p = [l \in {k \in DOMAIN o : o[k] # Gone} |-> o[l]]
  BY DEF Present
<1>3. q = [l \in {k \in DOMAIN all : all[k] # Gone} |-> all[l]]
  BY DEF Present
<1>4. CASE e.val = Gone
  <2>1. {k \in DOMAIN o : o[k] # Gone} = DOMAIN q \ {e.lid}
    BY <1>1, <1>3, <1>4
  <2>2. p = [l \in DOMAIN q \ {e.lid} |-> q[l]]
    BY <1>1, <1>2, <1>3, <2>1
  <2>3. QED
    BY <1>4, <2>2 DEF Promise!Effect
<1>5. CASE e.val # Gone
  <2>1. {k \in DOMAIN o : o[k] # Gone} = DOMAIN q \cup {e.lid}
    BY <1>1, <1>3, <1>5
  <2>2. p = [l \in DOMAIN q \cup {e.lid} |-> IF l = e.lid THEN e.val ELSE q[l]]
    BY <1>1, <1>2, <1>3, <2>1
  <2>3. QED
    BY <1>5, <2>2 DEF Promise!Effect
<1>6. QED
  BY <1>4, <1>5

-----------------------------------------------------------------------------
(* What recovery puts again: entries of INDEX records of replayed groups.     *)

RedoSteps(f, n) ==
    f = [i \in 0 .. n |->
            IF i = 0 THEN << >>
            ELSE IF wal[i].kind = "index" /\ wal[i].txid \in Replayed
                 THEN Append(f[i - 1], wal[i].entry)
                 ELSE f[i - 1]]

LEMMA RedoStepsExist ==
    ASSUME NEW n \in Nat
    PROVE  \E f : RedoSteps(f, n)
<1> DEFINE Next1(i, q) == IF wal[i].kind = "index" /\ wal[i].txid \in Replayed
                          THEN Append(q, wal[i].entry) ELSE q
           Bad == {k \in 0 .. n : ~ \E f : RedoSteps(f, k)}
<1>0. \A f, k : RedoSteps(f, k) <=> f = [i \in 0 .. k |-> IF i = 0 THEN << >>
                                                         ELSE Next1(i, f[i - 1])]
  BY DEF RedoSteps
<1> HIDE DEF Next1
<1>1. SUFFICES ASSUME Bad # {} PROVE FALSE
  <2>1. n \in 0 .. n
    OBVIOUS
  <2>2. QED
    BY <1>1, <2>1
<1>2. Bad \in SUBSET (0 .. n)
  OBVIOUS
<1> HIDE DEF Bad
<1>3. PICK k \in Bad : \A x \in Bad : k <= x
  BY <1>1, <1>2, Lowest
<1>4. k \in 0 .. n /\ ~ \E f : RedoSteps(f, k)
  BY DEF Bad
<1>5. k # 0
  <2>1. PICK z : z = [i \in 0 .. 0 |-> << >>]
    OBVIOUS
  <2>2. \A i \in 0 .. 0 : i = 0
    OBVIOUS
  <2>3. z = [i \in 0 .. 0 |-> IF i = 0 THEN << >> ELSE Next1(i, z[i - 1])]
    BY <2>1, <2>2
  <2>4. RedoSteps(z, 0)
    BY <1>0, <2>3
  <2>5. QED
    BY <1>4, <2>4
<1>6. k - 1 \in 0 .. n /\ ~(k <= k - 1)
  BY <1>4, <1>5
<1>7. k - 1 \notin Bad
  BY <1>3, <1>6
<1>8. PICK f : RedoSteps(f, k - 1)
  BY <1>6, <1>7 DEF Bad
<1> DEFINE g == [i \in 0 .. k |-> IF i = k THEN Next1(k, f[k - 1]) ELSE f[i]]
<1>9. ASSUME NEW i \in 0 .. k
      PROVE  g[i] = IF i = 0 THEN << >> ELSE Next1(i, g[i - 1])
  <2>1. CASE i = k
    <3>1. k - 1 \in 0 .. k /\ k - 1 # k
      BY <1>4, <1>5
    <3>2. g[k - 1] = f[k - 1]
      BY <3>1
    <3>3. QED
      BY <1>5, <2>1, <3>2
  <2>2. CASE i # k
    <3>1. i \in 0 .. (k - 1) /\ (i # 0 => i - 1 \in 0 .. k /\ i - 1 # k)
      BY <1>4, <1>5, <2>2
    <3>2. g[i] = f[i] /\ (i # 0 => g[i - 1] = f[i - 1])
      BY <2>2, <3>1
    <3>3. f[i] = IF i = 0 THEN << >> ELSE Next1(i, f[i - 1])
      BY <1>0, <1>8, <3>1
    <3>4. QED
      BY <3>2, <3>3
  <2>3. QED
    BY <2>1, <2>2
<1>10. RedoSteps(g, k)
  BY <1>0, <1>9
<1>11. QED
  BY <1>4, <1>10

RedoEntries == {wal[i].entry : i \in {k \in DOMAIN wal : /\ wal[k].kind = "index"
                                                         /\ wal[k].txid \in Replayed}}

LEMMA RedoIs ==
    ASSUME Len(wal) \in Nat, DOMAIN wal = 1 .. Len(wal)
    PROVE  Redo \in Seq(RedoEntries)
<1> DEFINE f == CHOOSE g : RedoSteps(g, Len(wal))
<1>1. RedoSteps(f, Len(wal))
  BY RedoStepsExist
<1>2. Redo = f[Len(wal)]
  BY DEF Redo, RedoSteps
<1> HIDE DEF f
<1>3. PICK n \in Nat : n = Len(wal)
  OBVIOUS
<1> DEFINE Bad == {k \in 0 .. n : f[k] \notin Seq(RedoEntries)}
<1>4. SUFFICES ASSUME Bad # {} PROVE FALSE
  <2>1. n \in 0 .. n
    OBVIOUS
  <2>2. QED
    BY <1>2, <1>3, <1>4, <2>1
<1>5. Bad \in SUBSET (0 .. n)
  OBVIOUS
<1> HIDE DEF Bad
<1>6. PICK k \in Bad : \A x \in Bad : k <= x
  BY <1>4, <1>5, Lowest
<1>7. k \in 0 .. n /\ f[k] \notin Seq(RedoEntries)
  BY DEF Bad
<1>8. f[k] = IF k = 0 THEN << >>
             ELSE IF wal[k].kind = "index" /\ wal[k].txid \in Replayed
                  THEN Append(f[k - 1], wal[k].entry)
                  ELSE f[k - 1]
  BY <1>1, <1>3, <1>7 DEF RedoSteps
<1>9. k # 0
  BY <1>7, <1>8
<1>10. k - 1 \in 0 .. n /\ ~(k <= k - 1) /\ k \in DOMAIN wal
  BY <1>3, <1>7, <1>9
<1>11. f[k - 1] \in Seq(RedoEntries)
  BY <1>6, <1>10 DEF Bad
<1>12. CASE wal[k].kind = "index" /\ wal[k].txid \in Replayed
  <2>1. wal[k].entry \in RedoEntries
    BY <1>10, <1>12 DEF RedoEntries
  <2>2. QED
    BY <1>7, <1>8, <1>9, <1>11, <1>12, <2>1
<1>13. CASE ~(wal[k].kind = "index" /\ wal[k].txid \in Replayed)
  BY <1>7, <1>8, <1>9, <1>11, <1>13
<1>14. QED
  BY <1>12, <1>13

LEMMA TheOne ==
    ASSUME NEW x
    PROVE  The({x}) = x
  BY DEF The

-----------------------------------------------------------------------------
(* Types.  They hold whether or not the residue of the log lines up; what is  *)
(* readable reaches at least to the cursor.                                   *)

Pcs == Calls \cup Settled \cup
       {"committed", "flushing", "confirming", "aborting", "resetting",
        "locking", "down", "replaying", "marking", "settling", "emptying"}

Records == [kind : {"begin", "index", "prepare", "commit"}, txid : Nat, entry : Frames]

\* A call has begun and the superblock does not have its txid.
Begun == pc \in Calls \cup {"aborting", "resetting"}

IndexTypes ==
    /\ frames \in Seq(Frames) /\ level0 \in Seq(AllTables) /\ level1 \in AllTables
    /\ mem \in AllTables /\ readonly \in BOOLEAN
    /\ cursor \in Nat /\ cursor <= Len(Chain(frames))
    /\ maxLid \in 0 .. MaxLid

TxnTypes ==
    /\ pc \in Pcs
    /\ base \in Nat /\ base <= cursor /\ (base # 0 => Begun)
    /\ pc = "logging" => base < cursor
    /\ todo \in Seq(Entries) /\ wal \in Seq(Records)
    /\ \A i \in DOMAIN wal : wal[i].kind = "index" => wal[i].entry \in Entries
    /\ sbTxid \in 0 .. MaxTxid /\ mark \in 0 .. sbTxid
    /\ Begun => sbTxid < MaxTxid

Types == IndexTypes /\ TxnTypes

LEMMA Bounds == MaxLid \in Nat /\ MaxTxid \in Nat
  BY RecordTxnAssumption

LEMMA GreatestIs ==
    ASSUME NEW n \in Nat, NEW S \in SUBSET (0 .. n)
    PROVE  /\ Greatest(S) \in 0 .. n
           /\ \A x \in S : x <= Greatest(S)
           /\ Greatest(S) \in S \cup {0}
<1> DEFINE T == S \cup {0}
<1>1. T \in SUBSET (0 .. n) /\ T # {}
  OBVIOUS
<1>2. Max(T) \in T /\ \A x \in T : x <= Max(T)
  <2> HIDE DEF T
  <2>1. QED
    BY <1>1, Highest
<1>3. \E k \in T : \A x \in S : x <= k
  BY <1>2
<1>4. Greatest(S) \in T /\ \A x \in S : x <= Greatest(S)
  BY <1>3 DEF Greatest
<1>5. QED
  BY <1>1, <1>4

LEMMA OneEntry ==
    ASSUME NEW e \in Entries
    PROVE  [l \in {e.lid} |-> e.val] \in AllTables
<1>1. PICK one : one = [l \in {e.lid} |-> e.val]
  OBVIOUS
<1>2. e.lid \in 1 .. MaxLid /\ e.val \in Versions
  BY DEF Entries
<1>3. DOMAIN one = {e.lid} /\ one[e.lid] = e.val /\ one = [l \in DOMAIN one |-> one[l]]
  BY <1>1
<1>4. DOMAIN one \subseteq 1 .. MaxLid /\ \A l \in DOMAIN one : one[l] \in Versions
  BY <1>2, <1>3
<1>5. one \in AllTables
  BY <1>3, <1>4, TableIs
<1>6. QED
  BY <1>1, <1>5

LEMMA LogTyped ==
    ASSUME frames \in Seq(Frames)
    PROVE  /\ Chain(frames) \in Seq(Entries) /\ Len(Chain(frames)) \in Nat
           /\ Len(Chain(frames)) <= Len(frames)
           /\ \A i \in 1 .. Len(Chain(frames)) : Chain(frames)[i] = frames[i]
  BY ChainTyped

LEMMA TablesTyped ==
    ASSUME level0 \in Seq(AllTables), level1 \in AllTables
    PROVE  Tables \in AllTables
<1>1. PICK ts : ts = level0 \o <<level1>>
  OBVIOUS
<1>2. ts \in Seq(AllTables)
  BY <1>1
<1>3. Merged(ts) \in AllTables
  BY <1>2, MergedTyped
<1>4. QED
  BY <1>1, <1>3 DEF Tables

LEMMA PutTyped ==
    ASSUME IndexTypes, NEW e \in Entries, Put(e)
    PROVE  IndexTypes' /\ cursor < cursor'
<1>1. PICK at : at = IF readonly THEN Len(Chain(frames)) ELSE cursor
  OBVIOUS
<1>2. PICK m : m = IF readonly THEN Newest(Chain(frames), {}) ELSE mem
  OBVIOUS
<1>3. /\ frames' = Written(frames, at, e) /\ cursor' = at + 1
      /\ mem' = Over([l \in {e.lid} |-> e.val], m)
      /\ maxLid' = Greatest({maxLid, e.lid})
      /\ readonly' = FALSE /\ level0' = level0 /\ level1' = level1
  BY <1>1, <1>2 DEF Put
<1>4. at \in 0 .. Len(Chain(frames)) /\ cursor <= at /\ cursor \in Nat
  BY <1>1, LogTyped DEF IndexTypes
<1>5. Written(frames, at, e) \in Seq(Frames) /\ at + 1 <= Len(Chain(Written(frames, at, e)))
  BY <1>4, ChainOfWrite DEF IndexTypes
<1>6. m \in AllTables
  <2>1. Chain(frames) \in Seq(Entries)
    BY LogTyped DEF IndexTypes
  <2>2. Newest(Chain(frames), {}) \in AllTables
    BY <2>1, NewestTyped
  <2>3. QED
    BY <1>2, <2>2 DEF IndexTypes
<1>7. mem' \in AllTables
  BY <1>3, <1>6, OneEntry, OverTyped
<1>8. maxLid' \in 0 .. MaxLid
  <2>1. {maxLid, e.lid} \in SUBSET (0 .. MaxLid)
    BY DEF IndexTypes, Entries
  <2>2. PICK S \in SUBSET (0 .. MaxLid) : S = {maxLid, e.lid}
    BY <2>1
  <2>3. Greatest(S) \in 0 .. MaxLid
    BY Bounds, GreatestIs
  <2>4. QED
    BY <1>3, <2>2, <2>3
<1>9. frames' \in Seq(Frames) /\ cursor' <= Len(Chain(frames'))
  BY <1>3, <1>5
<1>10. cursor' \in Nat /\ cursor < cursor'
  BY <1>3, <1>4, LogTyped DEF IndexTypes
<1>11. readonly' \in BOOLEAN /\ level0' \in Seq(AllTables) /\ level1' \in AllTables
  BY <1>3 DEF IndexTypes
<1>12. QED
  BY <1>7, <1>8, <1>9, <1>10, <1>11 DEF IndexTypes

LEMMA RebuildTyped ==
    ASSUME IndexTypes, NEW fs \in Seq(Frames), NEW txids, Rebuild(fs, txids)
    PROVE  /\ mem' \in AllTables /\ cursor' = Len(Chain(fs))
           /\ cursor' \in Nat
<1>1. mem' = Newest(Chain(fs), txids) /\ cursor' = Len(Chain(fs))
  BY DEF Rebuild
<1>2. Chain(fs) \in Seq(Entries) /\ Len(Chain(fs)) \in Nat
  BY ChainTyped
<1>3. Newest(Chain(fs), txids) \in AllTables
  BY <1>2, NewestTyped
<1>4. QED
  BY <1>1, <1>2, <1>3

LEMMA ExcludeTyped ==
    ASSUME IndexTypes, NEW txids, RebuildExcluding(txids)
    PROVE  IndexTypes' /\ cursor' = Len(Chain(frames))
<1>1. Rebuild(frames, txids) /\ lsmDisk' = lsmDisk /\ maxLid' = maxLid /\ readonly' = readonly
  BY DEF RebuildExcluding
<1>2. frames \in Seq(Frames)
  BY DEF IndexTypes
<1>3. mem' \in AllTables /\ cursor' = Len(Chain(frames)) /\ cursor' \in Nat
  BY <1>1, <1>2, RebuildTyped
<1>4. frames' = frames /\ level0' = level0 /\ level1' = level1
  BY <1>1 DEF lsmDisk
<1>5. QED
  BY <1>1, <1>3, <1>4 DEF IndexTypes

LEMMA TruncateTyped ==
    ASSUME IndexTypes, NEW from \in Nat, NEW txid, Truncate(from, txid)
    PROVE  IndexTypes' /\ from <= cursor' /\ cursor' = Len(Chain(frames'))
<1>1. /\ cursor >= from
      /\ frames' = IF cursor > from THEN Severed(frames, from) ELSE frames
      /\ Rebuild(frames', {txid})
      /\ level0' = level0 /\ level1' = level1 /\ maxLid' = maxLid /\ readonly' = readonly
  BY DEF Truncate
<1>2. PICK fs : fs = frames'
  OBVIOUS
<1>3. fs \in Seq(Frames) /\ from <= Len(Chain(fs))
  <2>1. cursor \in Nat /\ cursor <= Len(Chain(frames)) /\ Len(Chain(frames)) \in Nat
    BY LogTyped DEF IndexTypes
  <2>2. CASE cursor > from
    <3>1. fs = Severed(frames, from) /\ from < Len(Chain(frames))
      BY <1>1, <1>2, <2>1, <2>2
    <3>2. frames \in Seq(Frames)
      BY DEF IndexTypes
    <3>3. /\ Severed(frames, from) \in Seq(Frames)
          /\ Len(Severed(frames, from)) = Len(frames)
          /\ from < Len(Chain(frames)) =>
                Chain(Severed(frames, from)) = SubSeq(Chain(frames), 1, from)
          /\ from = 0 => Chain(Severed(frames, from)) = << >>
      BY <3>2, ChainOfCut
    <3>4. PICK c : c = Chain(frames)
      OBVIOUS
    <3>5. c \in Seq(Entries) /\ from <= Len(c)
      BY <3>1, <3>4, LogTyped DEF IndexTypes
    <3>6. Len(SubSeq(c, 1, from)) = from
      BY <3>5
    <3>7. Chain(fs) = SubSeq(c, 1, from)
      BY <3>1, <3>3, <3>4
    <3>8. QED
      BY <3>1, <3>3, <3>6, <3>7
  <2>3. CASE ~(cursor > from)
    BY <1>1, <1>2, <2>1, <2>3 DEF IndexTypes
  <2>4. QED
    BY <2>2, <2>3
<1>4. mem' \in AllTables /\ cursor' = Len(Chain(fs)) /\ cursor' \in Nat
  <2>1. Rebuild(fs, {txid})
    BY <1>1, <1>2
  <2>2. QED
    BY <1>3, <2>1, RebuildTyped
<1>5. QED
  BY <1>1, <1>2, <1>3, <1>4 DEF IndexTypes

LEMMA TableWrittenTyped ==
    ASSUME IndexTypes, TableWritten
    PROVE  level0' \in Seq(AllTables) /\ level1' \in AllTables
<1>1. level0' = <<mem>> \o level0 /\ level1' = level1
  BY DEF TableWritten
<1>2. QED
  BY <1>1 DEF IndexTypes

LEMMA CutTyped ==
    ASSUME IndexTypes
    PROVE  Severed(frames, 0) \in Seq(Frames) /\ Chain(Severed(frames, 0)) = << >>
<1>1. frames \in Seq(Frames) /\ 0 \in Nat
  BY DEF IndexTypes
<1>2. PICK at \in Nat : at = 0
  OBVIOUS
<1>3. /\ Severed(frames, at) \in Seq(Frames)
      /\ Len(Severed(frames, at)) = Len(frames)
      /\ at < Len(Chain(frames)) => Chain(Severed(frames, at)) = SubSeq(Chain(frames), 1, at)
      /\ at = 0 => Chain(Severed(frames, at)) = << >>
  BY <1>1, ChainOfCut
<1>4. QED
  BY <1>2, <1>3

LEMMA FlushTyped ==
    ASSUME IndexTypes, Flush
    PROVE  IndexTypes' /\ cursor' = 0
<1>1. /\ TableWritten /\ frames' = Severed(frames, 0) /\ mem' = << >> /\ cursor' = 0
      /\ maxLid' = maxLid /\ readonly' = readonly
  BY DEF Flush
<1>2. frames' \in Seq(Frames) /\ Len(Chain(frames')) = 0
  BY <1>1, CutTyped
<1>3. level0' \in Seq(AllTables) /\ level1' \in AllTables
  BY <1>1, TableWrittenTyped
<1>4. QED
  BY <1>1, <1>2, <1>3, NoTable DEF IndexTypes

LEMMA FlushNoMemoryTyped ==
    ASSUME IndexTypes, FlushNoMemory
    PROVE  IndexTypes' /\ cursor' = cursor
<1>1. /\ TableWritten /\ frames' = frames /\ mem' = << >> /\ cursor' = cursor
      /\ maxLid' = maxLid /\ readonly' = TRUE
  BY DEF FlushNoMemory
<1>2. level0' \in Seq(AllTables) /\ level1' \in AllTables
  BY <1>1, TableWrittenTyped
<1>3. QED
  BY <1>1, <1>2, NoTable DEF IndexTypes

LEMMA CompactTyped ==
    ASSUME IndexTypes, Compact
    PROVE  IndexTypes' /\ cursor' = cursor
<1>1. /\ level1' = Tables /\ level0' = << >> /\ frames' = frames /\ mem' = mem
      /\ cursor' = cursor /\ maxLid' = maxLid /\ readonly' = readonly
  BY DEF Compact, Tables, lsmMem
<1>2. Tables \in AllTables
  BY TablesTyped DEF IndexTypes
<1>3. QED
  BY <1>1, <1>2 DEF IndexTypes

LEMMA OpenTyped ==
    ASSUME IndexTypes, Open
    PROVE  IndexTypes'
<1>1. PICK m : m = Newest(Chain(frames), {})
  OBVIOUS
<1>2. /\ mem' = m /\ cursor' = Len(Chain(frames)) /\ maxLid' = Greatest(DOMAIN Found(m))
      /\ readonly' = FALSE /\ frames' = frames /\ level0' = level0 /\ level1' = level1
  BY <1>1 DEF Open, lsmDisk
<1>3. Chain(frames) \in Seq(Entries) /\ Len(Chain(frames)) \in Nat
  BY LogTyped DEF IndexTypes
<1>4. m \in AllTables
  <2>1. Newest(Chain(frames), {}) \in AllTables
    BY <1>3, NewestTyped
  <2>2. QED
    BY <1>1, <2>1
<1>5. Tables \in AllTables
  BY TablesTyped DEF IndexTypes
<1>6. PICK all : all = Found(m)
  OBVIOUS
<1>7. all \in AllTables
  <2>1. Over(m, Tables) \in AllTables
    BY <1>4, <1>5, OverTyped
  <2>2. QED
    BY <1>6, <2>1 DEF Found
<1>8. DOMAIN all \in SUBSET (0 .. MaxLid)
  <2>1. DOMAIN all \subseteq 1 .. MaxLid
    BY <1>7, TableIs
  <2>2. QED
    BY <2>1, Bounds
<1>9. maxLid' \in 0 .. MaxLid
  <2>1. PICK S \in SUBSET (0 .. MaxLid) : S = DOMAIN all
    BY <1>8
  <2>2. Greatest(S) \in 0 .. MaxLid
    BY Bounds, GreatestIs
  <2>3. QED
    BY <1>2, <1>6, <2>1, <2>2
<1>10. mem' \in AllTables /\ readonly' \in BOOLEAN
  BY <1>2, <1>4
<1>11. frames' \in Seq(Frames) /\ level0' \in Seq(AllTables) /\ level1' \in AllTables
  BY <1>2 DEF IndexTypes
<1>12. cursor' \in Nat /\ cursor' <= Len(Chain(frames'))
  BY <1>2, <1>3
<1>13. QED
  BY <1>9, <1>10, <1>11, <1>12 DEF IndexTypes

LEMMA SameIndexTyped ==
    ASSUME IndexTypes, UNCHANGED lsmVars
    PROVE  IndexTypes' /\ cursor' = cursor
<1>1. /\ frames' = frames /\ level0' = level0 /\ level1' = level1 /\ mem' = mem
      /\ cursor' = cursor /\ maxLid' = maxLid /\ readonly' = readonly
  BY DEF lsmVars, lsmDisk, lsmMem
<1>2. QED
  BY <1>1 DEF IndexTypes

\* A record appended to the WAL.
LEMMA WalTyped ==
    ASSUME TxnTypes, NEW r \in Records, r.kind = "index" => r.entry \in Entries
    PROVE  /\ Append(wal, r) \in Seq(Records)
           /\ \A i \in DOMAIN Append(wal, r) :
                 Append(wal, r)[i].kind = "index" => Append(wal, r)[i].entry \in Entries
<1>1. wal \in Seq(Records) /\ \A i \in DOMAIN wal : wal[i].kind = "index" => wal[i].entry \in Entries
  BY DEF TxnTypes
<1>2. PICK q : q = Append(wal, r)
  OBVIOUS
<1>3. /\ q \in Seq(Records) /\ DOMAIN q = 1 .. (Len(wal) + 1) /\ DOMAIN wal = 1 .. Len(wal)
      /\ Len(wal) \in Nat
      /\ \A i \in DOMAIN wal : q[i] = wal[i]
      /\ q[Len(wal) + 1] = r
  BY <1>1, <1>2
<1>4. ASSUME NEW i \in DOMAIN q, q[i].kind = "index" PROVE q[i].entry \in Entries
  <2>1. CASE i \in DOMAIN wal
    BY <1>1, <1>3, <1>4, <2>1
  <2>2. CASE i \notin DOMAIN wal
    <3>1. i = Len(wal) + 1
      BY <1>3, <2>2
    <3>2. QED
      BY <1>3, <1>4, <3>1
  <2>3. QED
    BY <2>1, <2>2
<1>5. QED
  BY <1>2, <1>3, <1>4

LEMMA PlainRecord ==
    ASSUME NEW kind \in {"begin", "prepare", "commit"}, NEW t \in Nat
    PROVE  /\ Record(kind, t, NoFrame) \in Records
           /\ Record(kind, t, NoFrame).kind = kind /\ Record(kind, t, NoFrame).txid = t
           /\ kind # "index"
  BY DEF Record, Records, Frames

LEMMA TxidIs ==
    ASSUME TxnTypes
    PROVE  /\ Txid \in Nat \ {0} /\ Txid = sbTxid + 1 /\ sbTxid \in Nat /\ Txid # sbTxid
           /\ Begun => Txid \in 0 .. MaxTxid
<1>1. sbTxid \in 0 .. MaxTxid /\ MaxTxid \in Nat /\ (Begun => sbTxid < MaxTxid)
  BY Bounds DEF TxnTypes
<1>2. QED
  BY <1>1 DEF Txid

\* One step that leaves all of the transaction's fields alone but pc, and
\* those that it names.
LEMMA TypesHeld ==
    ASSUME TxnTypes, IndexTypes', pc' \in Pcs, pc' # "logging",
           UNCHANGED <<base, todo, sbTxid, mark>>,
           base <= cursor', Begun' => Begun, Begun => (Begun' \/ base = 0),
           \/ wal' = wal
           \/ wal' = << >>
           \/ \E kind \in {"begin", "prepare", "commit"}, t \in Nat :
                 wal' = Append(wal, Record(kind, t, NoFrame))
    PROVE  Types'
<1>1. /\ base' = base /\ todo' = todo /\ sbTxid' = sbTxid /\ mark' = mark
  OBVIOUS
<1>2. wal' \in Seq(Records) /\ \A i \in DOMAIN wal' : wal'[i].kind = "index" => wal'[i].entry \in Entries
  <2>1. CASE wal' = wal
    BY <2>1 DEF TxnTypes
  <2>2. CASE wal' = << >>
    BY <2>2
  <2>3. ASSUME NEW kind \in {"begin", "prepare", "commit"}, NEW t \in Nat,
               wal' = Append(wal, Record(kind, t, NoFrame))
        PROVE  /\ wal' \in Seq(Records)
               /\ \A i \in DOMAIN wal' : wal'[i].kind = "index" => wal'[i].entry \in Entries
    <3>1. PICK r : r = Record(kind, t, NoFrame)
      OBVIOUS
    <3>2. r \in Records /\ r.kind # "index"
      <4>1. /\ Record(kind, t, NoFrame) \in Records
            /\ Record(kind, t, NoFrame).kind = kind /\ Record(kind, t, NoFrame).txid = t
            /\ kind # "index"
        BY PlainRecord
      <4>2. QED
        BY <3>1, <4>1
    <3>3. /\ Append(wal, r) \in Seq(Records)
          /\ \A i \in DOMAIN Append(wal, r) :
                Append(wal, r)[i].kind = "index" => Append(wal, r)[i].entry \in Entries
      BY <3>2, WalTyped
    <3>4. QED
      BY <2>3, <3>1, <3>3
  <2>4. QED
    BY <2>1, <2>2, <2>3
<1>3. base' \in Nat /\ base' <= cursor' /\ (base' # 0 => Begun')
  BY <1>1 DEF TxnTypes
<1>4. todo' \in Seq(Entries) /\ sbTxid' \in 0 .. MaxTxid /\ mark' \in 0 .. sbTxid'
      /\ (Begun' => sbTxid' < MaxTxid)
  BY <1>1 DEF TxnTypes
<1>5. TxnTypes'
  BY <1>2, <1>3, <1>4 DEF TxnTypes
<1>6. QED
  BY <1>5 DEF Types

LEMMA OperateTyped ==
    ASSUME Types, NEW e \in Entries, Operate(e)
    PROVE  Types'
<1>1. /\ pc = "active" /\ Put(e) /\ pc' = "logging" /\ base' = base /\ todo' = todo
      /\ wal' = wal /\ sbTxid' = sbTxid /\ mark' = mark
  BY DEF Operate
<1>2. IndexTypes' /\ cursor < cursor'
  BY <1>1, PutTyped DEF Types
<1>3. base' < cursor' /\ base' \in Nat
  BY <1>1, <1>2 DEF Types, TxnTypes, IndexTypes
<1>4. TxnTypes'
  BY <1>1, <1>2, <1>3 DEF Types, TxnTypes, Pcs, Calls, Begun, IndexTypes
<1>5. QED
  BY <1>2, <1>4 DEF Types

LEMMA OperationTyped ==
    ASSUME Types, pc = "active", NEW l \in 1 .. MaxLid, NEW v \in Versions
    PROVE  [lid |-> l, txid |-> Txid, val |-> v] \in Entries
<1>1. Txid \in Nat \ {0}
  BY TxidIs DEF Types
<1>2. QED
  BY <1>1 DEF Entries

LEMMA LogIndexTyped ==
    ASSUME Types, LogIndex
    PROVE  Types'
<1>1. /\ pc = "logging" /\ wal' = Append(wal, Record("index", Txid, frames[cursor]))
      /\ pc' = "active" /\ base' = base /\ todo' = todo /\ sbTxid' = sbTxid
      /\ mark' = mark /\ UNCHANGED lsmVars
  BY DEF LogIndex
<1>2. IndexTypes' /\ cursor' = cursor
  BY <1>1, SameIndexTyped DEF Types
<1>3. cursor \in 1 .. Len(Chain(frames))
  BY <1>1, LogTyped DEF Types, TxnTypes, IndexTypes
<1>4. frames[cursor] \in Entries
  <2>1. PICK c : c = Chain(frames)
    OBVIOUS
  <2>2. c \in Seq(Entries) /\ c[cursor] = frames[cursor] /\ cursor \in 1 .. Len(c)
    BY <1>3, <2>1, LogTyped DEF Types, IndexTypes
  <2>3. c[cursor] \in Entries
    BY <2>2
  <2>4. QED
    BY <2>2, <2>3
<1>5. PICK r : r = Record("index", Txid, frames[cursor])
  OBVIOUS
<1>6. r \in Records /\ r.entry \in Entries
  <2>1. Txid \in Nat
    BY TxidIs DEF Types
  <2>2. QED
    BY <1>4, <1>5, <2>1 DEF Record, Records, Frames
<1>7. /\ Append(wal, r) \in Seq(Records)
      /\ \A i \in DOMAIN Append(wal, r) :
            Append(wal, r)[i].kind = "index" => Append(wal, r)[i].entry \in Entries
  BY <1>6, WalTyped DEF Types
<1>8. /\ wal' \in Seq(Records)
      /\ \A i \in DOMAIN wal' : wal'[i].kind = "index" => wal'[i].entry \in Entries
  BY <1>1, <1>5, <1>7
<1>9. TxnTypes'
  BY <1>1, <1>2, <1>8 DEF Types, TxnTypes, Pcs, Calls, Begun
<1>10. QED
  BY <1>2, <1>9 DEF Types

LEMMA UnlockTyped ==
    ASSUME Types, Unlock
    PROVE  Types'
<1>1. /\ pc = "down" /\ Open /\ todo' = Redo /\ pc' = "replaying" /\ base' = base
      /\ wal' = wal /\ sbTxid' = sbTxid /\ mark' = mark
  BY DEF Unlock
<1>2. IndexTypes'
  BY <1>1, OpenTyped DEF Types
<1>3. Redo \in Seq(RedoEntries)
  <2>1. Len(wal) \in Nat /\ DOMAIN wal = 1 .. Len(wal)
    BY DEF Types, TxnTypes
  <2>2. QED
    BY <2>1, RedoIs
<1>4. RedoEntries \subseteq Entries
  BY DEF RedoEntries, Types, TxnTypes
<1>5. PICK q, S : q = Redo /\ S = RedoEntries
  OBVIOUS
<1>6. q \in Seq(S) /\ S \subseteq Entries
  BY <1>3, <1>4, <1>5
<1>7. q \in Seq(Entries)
  BY <1>6
<1>8. base' = 0 /\ cursor' \in Nat
  BY <1>1, <1>2 DEF Types, TxnTypes, Begun, Calls, IndexTypes
<1>9. TxnTypes'
  BY <1>1, <1>5, <1>7, <1>8 DEF Types, TxnTypes, Pcs, Calls, Begun
<1>10. QED
  BY <1>2, <1>9 DEF Types

LEMMA RecoverPutTyped ==
    ASSUME Types, RecoverPut
    PROVE  Types'
<1>1. /\ pc = "replaying" /\ todo # << >> /\ Put(Head(todo)) /\ todo' = Tail(todo)
      /\ pc' = pc /\ base' = base /\ wal' = wal /\ sbTxid' = sbTxid /\ mark' = mark
  BY DEF RecoverPut
<1>2. Head(todo) \in Entries /\ Tail(todo) \in Seq(Entries)
  BY <1>1 DEF Types, TxnTypes
<1>3. PICK e \in Entries : e = Head(todo)
  BY <1>2
<1>4. Put(e)
  BY <1>1, <1>3
<1>5. IndexTypes' /\ cursor < cursor'
  BY <1>4, PutTyped DEF Types
<1>6. base' = 0 /\ cursor' \in Nat
  BY <1>1, <1>5 DEF Types, TxnTypes, Begun, Calls, IndexTypes
<1>7. TxnTypes'
  BY <1>1, <1>2, <1>6 DEF Types, TxnTypes, Pcs, Calls, Begun
<1>8. QED
  BY <1>5, <1>7 DEF Types

LEMMA DownTyped ==
    ASSUME Types, Down, frames' \in Seq(Frames),
           level0' \in Seq(AllTables), level1' \in AllTables
    PROVE  Types'
<1>1. /\ mem' = << >> /\ cursor' = 0 /\ maxLid' = 0 /\ readonly' = FALSE
      /\ pc' = "down" /\ base' = 0 /\ todo' = << >>
      /\ wal' = wal /\ sbTxid' = sbTxid /\ mark' = mark
  BY DEF Down, Forget
<1>2. Len(Chain(frames')) \in Nat
  <2>1. PICK fs \in Seq(Frames) : fs = frames'
    OBVIOUS
  <2>2. Len(Chain(fs)) \in Nat
    BY ChainTyped
  <2>3. QED
    BY <2>1, <2>2
<1>3. IndexTypes'
  <2>1. cursor' \in Nat /\ cursor' <= Len(Chain(frames'))
    BY <1>1, <1>2
  <2>2. mem' \in AllTables /\ readonly' \in BOOLEAN
    BY <1>1, NoTable
  <2>3. maxLid' \in 0 .. MaxLid
    BY <1>1, Bounds
  <2>4. QED
    BY <2>1, <2>2, <2>3 DEF IndexTypes
<1>4. TxnTypes'
  BY <1>1 DEF Types, TxnTypes, Pcs, Calls, Begun
<1>5. QED
  BY <1>3, <1>4 DEF Types

LEMMA TypesInit == Init => Types
<1> SUFFICES ASSUME Init PROVE Types
  OBVIOUS
<1>1. IndexTypes
  <2>1. /\ frames = << >> /\ level0 = << >> /\ level1 = << >> /\ mem = << >>
        /\ cursor = 0 /\ maxLid = 0 /\ readonly = FALSE
    BY DEF Init
  <2>2. Len(Chain(frames)) = 0
    BY <2>1, ChainOfNothing
  <2>3. mem \in AllTables /\ level1 \in AllTables
    BY <2>1, NoTable
  <2>4. maxLid \in 0 .. MaxLid
    BY <2>1, Bounds
  <2>5. frames \in Seq(Frames) /\ level0 \in Seq(AllTables)
    BY <2>1
  <2>6. cursor \in Nat /\ cursor <= Len(Chain(frames))
    <3>1. PICK n : n = Len(Chain(frames))
      OBVIOUS
    <3>2. n = 0 /\ cursor = 0
      BY <2>1, <2>2, <3>1
    <3>3. QED
      BY <3>1, <3>2
  <2>7. readonly \in BOOLEAN
    BY <2>1
  <2>8. QED
    BY <2>3, <2>4, <2>5, <2>6, <2>7 DEF IndexTypes
<1>2. TxnTypes
  BY Bounds DEF Init, TxnTypes, Pcs, Settled, Begun, Calls
<1>3. QED
  BY <1>1, <1>2 DEF Types

LEMMA TypesNext == Types /\ [Next]_vars => Types'
<1> SUFFICES ASSUME Types, [Next]_vars PROVE Types'
  OBVIOUS
<1>0. IndexTypes /\ TxnTypes /\ base <= cursor /\ base \in Nat /\ cursor \in Nat
  BY DEF Types, IndexTypes, TxnTypes
<1>1. CASE UNCHANGED vars
  <2>1. UNCHANGED lsmVars /\ UNCHANGED txnVars
    BY <1>1 DEF vars
  <2>2. IndexTypes' /\ cursor' = cursor
    BY <1>0, <2>1, SameIndexTyped
  <2>3. TxnTypes'
    BY <1>0, <2>1, <2>2 DEF TxnTypes, Begun, txnVars
  <2>4. QED
    BY <2>2, <2>3 DEF Types
<1>2. CASE Begin
  <2>1. /\ UNCHANGED lsmVars /\ pc' = "active" /\ base' = cursor /\ todo' = todo
        /\ sbTxid' = sbTxid /\ mark' = mark /\ sbTxid < MaxTxid
        /\ wal' = Append(wal, Record("begin", Txid, NoFrame))
    BY <1>2 DEF Begin, Logged
  <2>2. IndexTypes' /\ cursor' = cursor
    BY <1>0, <2>1, SameIndexTyped
  <2>3. PICK r : r = Record("begin", Txid, NoFrame)
    OBVIOUS
  <2>4. r \in Records /\ r.kind # "index"
    <3>1. Txid \in Nat
      BY <1>0, TxidIs
    <3>2. QED
      BY <2>3, <3>1 DEF Record, Records, Frames
  <2>5. /\ Append(wal, r) \in Seq(Records)
        /\ \A i \in DOMAIN Append(wal, r) :
              Append(wal, r)[i].kind = "index" => Append(wal, r)[i].entry \in Entries
    BY <1>0, <2>4, WalTyped
  <2>6. /\ wal' \in Seq(Records)
        /\ \A i \in DOMAIN wal' : wal'[i].kind = "index" => wal'[i].entry \in Entries
    BY <2>1, <2>3, <2>5
  <2>7. base' \in Nat /\ base' <= cursor'
    BY <1>0, <2>1, <2>2
  <2>8. TxnTypes'
    BY <1>0, <2>1, <2>6, <2>7 DEF TxnTypes, Pcs, Calls, Begun
  <2>9. QED
    BY <2>2, <2>8 DEF Types
<1>3. CASE \E v \in Vals : Add(v)
  <2>1. PICK v \in Vals : Add(v)
    BY <1>3
  <2>2. PICK e : e = [lid |-> maxLid + 1, txid |-> Txid, val |-> v]
    OBVIOUS
  <2>3. Operate(e) /\ pc = "active" /\ maxLid + 1 \in 1 .. MaxLid /\ v \in Versions
    BY <1>0, <2>1, <2>2, Bounds DEF Add, Operate, Versions, IndexTypes
  <2>4. e \in Entries
    BY <2>2, <2>3, OperationTyped
  <2>5. QED
    BY <2>3, <2>4, OperateTyped
<1>4. CASE \E l \in 1 .. MaxLid : Delete(l)
  <2>1. PICK l \in 1 .. MaxLid : Delete(l)
    BY <1>4
  <2>2. PICK e : e = [lid |-> l, txid |-> Txid, val |-> Gone]
    OBVIOUS
  <2>3. Operate(e) /\ pc = "active" /\ Gone \in Versions
    BY <2>1, <2>2 DEF Delete, Operate, Versions
  <2>4. e \in Entries
    BY <2>2, <2>3, OperationTyped
  <2>5. QED
    BY <2>3, <2>4, OperateTyped
<1>5. CASE LogIndex
  BY <1>5, LogIndexTyped
<1>6. CASE Prepare
  <2>1. /\ UNCHANGED lsmVars /\ UNCHANGED <<base, todo, sbTxid, mark>>
        /\ wal' = Append(wal, Record("prepare", Txid, NoFrame))
    BY <1>6 DEF Prepare, Logged
  <2>2. IndexTypes' /\ base <= cursor'
    BY <1>0, <2>1, SameIndexTyped
  <2>3. Txid \in Nat /\ "prepare" \in {"begin", "prepare", "commit"}
    BY <1>0, TxidIs
  <2>4. /\ pc' \in Pcs /\ pc' # "logging" /\ (Begun' => Begun) /\ (Begun => Begun')
    BY <1>6 DEF Prepare, Pcs, Calls, Settled, Begun
  <2>5. QED
    BY <1>0, <2>1, <2>2, <2>3, <2>4, TypesHeld
<1>7. CASE Commit
  <2>1. /\ UNCHANGED lsmVars /\ pc = "prepared" /\ pc' = "committed" /\ base' = 0
        /\ todo' = todo /\ sbTxid' = Txid /\ mark' = mark /\ wal' = wal
    BY <1>7 DEF Commit
  <2>2. IndexTypes' /\ cursor' = cursor
    BY <1>0, <2>1, SameIndexTyped
  <2>3. Begun
    BY <2>1 DEF Begun, Calls
  <2>4. sbTxid' \in 0 .. MaxTxid /\ mark' \in 0 .. sbTxid'
    BY <1>0, <2>1, <2>3, TxidIs DEF TxnTypes
  <2>5. base' \in Nat /\ base' <= cursor'
    BY <1>0, <2>1, <2>2
  <2>6. TxnTypes'
    BY <1>0, <2>1, <2>4, <2>5 DEF TxnTypes, Pcs, Calls, Begun
  <2>7. QED
    BY <2>2, <2>6 DEF Types
<1>8. CASE CommitTail
  <2>1. /\ UNCHANGED lsmVars /\ UNCHANGED <<base, todo, sbTxid, mark>>
        /\ wal' = Append(wal, Record("commit", sbTxid, NoFrame))
    BY <1>8 DEF CommitTail
  <2>2. IndexTypes' /\ base <= cursor'
    BY <1>0, <2>1, SameIndexTyped
  <2>3. sbTxid \in Nat /\ "commit" \in {"begin", "prepare", "commit"}
    BY <1>0, TxidIs
  <2>4. /\ pc' \in Pcs /\ pc' # "logging" /\ (Begun' => Begun) /\ (Begun => Begun')
    BY <1>8 DEF CommitTail, Pcs, Calls, Settled, Begun
  <2>5. QED
    BY <1>0, <2>1, <2>2, <2>3, <2>4, TypesHeld
<1>9. CASE CommitTailFails
  <2>1. /\ UNCHANGED lsmVars /\ UNCHANGED <<base, todo, sbTxid, mark>>
        /\ (wal' = wal \/ wal' = << >>)
    BY <1>9 DEF CommitTailFails
  <2>2. IndexTypes' /\ base <= cursor'
    BY <1>0, <2>1, SameIndexTyped
  <2>3. /\ pc' \in Pcs /\ pc' # "logging" /\ (Begun' => Begun) /\ (Begun => Begun')
    BY <1>9 DEF CommitTailFails, Pcs, Calls, Settled, Begun
  <2>4. QED
    BY <1>0, <2>1, <2>2, <2>3, TypesHeld
<1>10. CASE CommitFlush
  <2>1. /\ Flush \/ FlushNoMemory \/ UNCHANGED lsmVars
        /\ pc = "flushing" /\ pc' = "confirming"
        /\ UNCHANGED <<base, todo, sbTxid, mark>> /\ wal' = wal
    BY <1>10 DEF CommitFlush
  <2>2. base = 0
    BY <1>0, <2>1 DEF TxnTypes, Begun, Calls
  <2>3. IndexTypes' /\ base <= cursor'
    <3>1. CASE Flush
      BY <1>0, <2>2, <3>1, FlushTyped
    <3>2. CASE FlushNoMemory
      BY <1>0, <3>2, FlushNoMemoryTyped
    <3>3. CASE UNCHANGED lsmVars
      BY <1>0, <3>3, SameIndexTyped
    <3>4. QED
      BY <2>1, <3>1, <3>2, <3>3
  <2>4. pc' \in Pcs /\ pc' # "logging" /\ ~Begun' /\ ~Begun
    BY <2>1 DEF Pcs, Calls, Begun
  <2>5. QED
    BY <1>0, <2>1, <2>2, <2>3, <2>4, TypesHeld
<1>11. CASE Confirm
  <2>1. /\ UNCHANGED lsmVars /\ UNCHANGED <<base, todo, sbTxid, mark>>
        /\ (wal' = wal \/ wal' = << >>)
    BY <1>11 DEF Confirm
  <2>2. IndexTypes' /\ base <= cursor'
    BY <1>0, <2>1, SameIndexTyped
  <2>3. /\ pc' \in Pcs /\ pc' # "logging" /\ (Begun' => Begun) /\ (Begun => Begun')
    BY <1>11 DEF Confirm, Pcs, Calls, Settled, Begun
  <2>4. QED
    BY <1>0, <2>1, <2>2, <2>3, TypesHeld
<1>12. CASE ConfirmFails
  <2>1. /\ UNCHANGED lsmVars /\ UNCHANGED <<base, todo, sbTxid, mark>>
        /\ (wal' = wal \/ wal' = << >>)
    BY <1>12 DEF ConfirmFails
  <2>2. IndexTypes' /\ base <= cursor'
    BY <1>0, <2>1, SameIndexTyped
  <2>3. /\ pc' \in Pcs /\ pc' # "logging" /\ (Begun' => Begun) /\ (Begun => Begun')
    BY <1>12 DEF ConfirmFails, Pcs, Calls, Settled, Begun
  <2>4. QED
    BY <1>0, <2>1, <2>2, <2>3, TypesHeld
<1>13. CASE Fail
  <2>1. /\ UNCHANGED lsmVars /\ UNCHANGED <<base, todo, sbTxid, mark>>
        /\ (wal' = wal \/ wal' = << >>)
    BY <1>13 DEF Fail
  <2>2. IndexTypes' /\ base <= cursor'
    BY <1>0, <2>1, SameIndexTyped
  <2>3. /\ pc' \in Pcs /\ pc' # "logging" /\ (Begun' => Begun) /\ (Begun => Begun')
    BY <1>13 DEF Fail, Pcs, Calls, Settled, Begun
  <2>4. QED
    BY <1>0, <2>1, <2>2, <2>3, TypesHeld
<1>14. CASE RollbackIndex
  <2>1. /\ Truncate(base, Txid) /\ pc = "aborting" /\ pc' = "resetting"
        /\ UNCHANGED <<base, todo, sbTxid, mark>> /\ wal' = wal
    BY <1>14 DEF RollbackIndex
  <2>2. IndexTypes' /\ base <= cursor'
    BY <1>0, <2>1, TruncateTyped
  <2>3. pc' \in Pcs /\ pc' # "logging" /\ Begun' /\ Begun
    BY <2>1 DEF Pcs, Calls, Begun
  <2>4. QED
    BY <1>0, <2>1, <2>2, <2>3, TypesHeld
<1>15. CASE RollbackWal
  <2>1. /\ UNCHANGED lsmVars /\ pc' = "idle" /\ base' = 0 /\ wal' = << >>
        /\ todo' = todo /\ sbTxid' = sbTxid /\ mark' = mark
    BY <1>15 DEF RollbackWal
  <2>2. IndexTypes' /\ cursor' = cursor
    BY <1>0, <2>1, SameIndexTyped
  <2>3. base' \in Nat /\ base' <= cursor'
    BY <1>0, <2>1, <2>2
  <2>4. TxnTypes'
    BY <1>0, <2>1, <2>3 DEF TxnTypes, Pcs, Settled, Calls, Begun
  <2>5. QED
    BY <2>2, <2>4 DEF Types
<1>16. CASE RollbackFails
  <2>1. /\ UNCHANGED lsmVars /\ UNCHANGED <<base, todo, sbTxid, mark>>
        /\ (wal' = wal \/ wal' = << >>)
    BY <1>16 DEF RollbackFails
  <2>2. IndexTypes' /\ base <= cursor'
    BY <1>0, <2>1, SameIndexTyped
  <2>3. /\ pc' \in Pcs /\ pc' # "logging" /\ (Begun' => Begun) /\ (Begun => Begun')
    BY <1>16 DEF RollbackFails, Pcs, Calls, Settled, Begun
  <2>4. QED
    BY <1>0, <2>1, <2>2, <2>3, TypesHeld
<1>17. CASE Lock
  <2>1. /\ UNCHANGED lsmVars /\ UNCHANGED <<base, todo, sbTxid, mark>>
        /\ (wal' = wal \/ wal' = << >>)
    BY <1>17 DEF Lock
  <2>2. IndexTypes' /\ base <= cursor'
    BY <1>0, <2>1, SameIndexTyped
  <2>3. /\ pc' \in Pcs /\ pc' # "logging" /\ (Begun' => Begun) /\ (Begun => Begun')
    BY <1>17 DEF Lock, Pcs, Calls, Settled, Begun
  <2>4. QED
    BY <1>0, <2>1, <2>2, <2>3, TypesHeld
<1>18. CASE Close
  <2>1. /\ \/ TableWritten /\ frames' = Severed(frames, 0)
           \/ TableWritten /\ UNCHANGED frames
           \/ UNCHANGED lsmDisk
        /\ Down
    BY <1>18 DEF Close
  <2>2. frames' \in Seq(Frames) /\ level0' \in Seq(AllTables) /\ level1' \in AllTables
    <3>1. CASE TableWritten /\ frames' = Severed(frames, 0)
      BY <1>0, <3>1, TableWrittenTyped, CutTyped
    <3>2. CASE TableWritten /\ UNCHANGED frames
      BY <1>0, <3>2, TableWrittenTyped DEF IndexTypes
    <3>3. CASE UNCHANGED lsmDisk
      BY <1>0, <3>3 DEF IndexTypes, lsmDisk
    <3>4. QED
      BY <2>1, <3>1, <3>2, <3>3
  <2>3. QED
    BY <2>1, <2>2, DownTyped
<1>19. CASE Kill
  <2>1. (UNCHANGED lsmDisk \/ (TableWritten /\ UNCHANGED frames)) /\ Down
    BY <1>19 DEF Kill
  <2>2. frames' \in Seq(Frames) /\ level0' \in Seq(AllTables) /\ level1' \in AllTables
    <3>1. CASE TableWritten /\ UNCHANGED frames
      BY <1>0, <3>1, TableWrittenTyped DEF IndexTypes
    <3>2. CASE UNCHANGED lsmDisk
      BY <1>0, <3>2 DEF IndexTypes, lsmDisk
    <3>3. QED
      BY <2>1, <3>1, <3>2
  <2>3. QED
    BY <2>1, <2>2, DownTyped
<1>20. CASE Unlock
  BY <1>20, UnlockTyped
<1>21. CASE RecoverPut
  BY <1>21, RecoverPutTyped
<1>22. CASE RecoverExclude
  <2>1. /\ RebuildExcluding(Discarded) \/ UNCHANGED lsmVars
        /\ pc = "replaying" /\ pc' = "marking"
        /\ UNCHANGED <<base, todo, sbTxid, mark>> /\ wal' = wal
    BY <1>22 DEF RecoverExclude
  <2>2. base = 0
    BY <1>0, <2>1 DEF TxnTypes, Begun, Calls
  <2>3. IndexTypes' /\ base <= cursor'
    <3>1. CASE RebuildExcluding(Discarded)
      BY <1>0, <2>2, <3>1, ExcludeTyped, LogTyped DEF IndexTypes
    <3>2. CASE UNCHANGED lsmVars
      BY <1>0, <3>2, SameIndexTyped
    <3>3. QED
      BY <2>1, <3>1, <3>2
  <2>4. pc' \in Pcs /\ pc' # "logging" /\ ~Begun' /\ ~Begun
    BY <2>1 DEF Pcs, Calls, Begun
  <2>5. QED
    BY <1>0, <2>1, <2>2, <2>3, <2>4, TypesHeld
<1>23. CASE RecoverMark
  <2>1. /\ UNCHANGED lsmVars /\ pc = "marking" /\ pc' = "settling" /\ base' = base
        /\ todo' = todo /\ wal' = wal /\ sbTxid' = sbTxid /\ mark' \in {mark, sbTxid}
    BY <1>23 DEF RecoverMark
  <2>2. IndexTypes' /\ cursor' = cursor
    BY <1>0, <2>1, SameIndexTyped
  <2>3. mark' \in 0 .. sbTxid' /\ base' <= cursor'
    BY <1>0, <2>1, <2>2, TxidIs DEF TxnTypes
  <2>4. TxnTypes'
    BY <1>0, <2>1, <2>3 DEF TxnTypes, Pcs, Calls, Begun
  <2>5. QED
    BY <2>2, <2>4 DEF Types
<1>24. CASE RecoverSettle
  <2>1. /\ Flush \/ Truncate(0, Greatest(Discarded)) \/ UNCHANGED lsmVars
        /\ pc = "settling" /\ pc' = "emptying"
        /\ UNCHANGED <<base, todo, sbTxid, mark>> /\ wal' = wal
    BY <1>24 DEF RecoverSettle
  <2>2. base = 0
    BY <1>0, <2>1 DEF TxnTypes, Begun, Calls
  <2>3. IndexTypes' /\ base <= cursor'
    <3>1. CASE Flush
      BY <1>0, <2>2, <3>1, FlushTyped
    <3>2. CASE Truncate(0, Greatest(Discarded))
      <4>1. PICK n \in Nat : n = 0
        OBVIOUS
      <4>2. Truncate(n, Greatest(Discarded))
        BY <3>2, <4>1
      <4>3. QED
        BY <1>0, <2>2, <4>1, <4>2, TruncateTyped
    <3>3. CASE UNCHANGED lsmVars
      BY <1>0, <3>3, SameIndexTyped
    <3>4. QED
      BY <2>1, <3>1, <3>2, <3>3
  <2>4. pc' \in Pcs /\ pc' # "logging" /\ ~Begun' /\ ~Begun
    BY <2>1 DEF Pcs, Calls, Begun
  <2>5. QED
    BY <1>0, <2>1, <2>2, <2>3, <2>4, TypesHeld
<1>25. CASE RecoverReset
  <2>1. /\ UNCHANGED lsmVars /\ UNCHANGED <<base, todo, sbTxid, mark>>
        /\ (wal' = wal \/ wal' = << >>)
    BY <1>25 DEF RecoverReset
  <2>2. IndexTypes' /\ base <= cursor'
    BY <1>0, <2>1, SameIndexTyped
  <2>3. /\ pc' \in Pcs /\ pc' # "logging" /\ (Begun' => Begun) /\ (Begun => Begun')
    BY <1>25 DEF RecoverReset, Pcs, Calls, Settled, Begun
  <2>4. QED
    BY <1>0, <2>1, <2>2, <2>3, TypesHeld
<1>26. CASE Compaction
  <2>1. Compact /\ UNCHANGED txnVars
    BY <1>26 DEF Compaction
  <2>2. IndexTypes' /\ cursor' = cursor
    BY <1>0, <2>1, CompactTyped
  <2>3. TxnTypes'
    BY <1>0, <2>1, <2>2 DEF TxnTypes, Begun, txnVars
  <2>4. QED
    BY <2>2, <2>3 DEF Types
<1>27. QED
  BY <1>1, <1>2, <1>3, <1>4, <1>5, <1>6, <1>7, <1>8, <1>9, <1>10, <1>11, <1>12, <1>13, <1>14, <1>15, <1>16, <1>17, <1>18, <1>19, <1>20, <1>21, <1>22, <1>23, <1>24, <1>25, <1>26 DEF Next

\* The types, for every number of records, transactions and crashes, and for
\* every alignment of the residue in the log.
THEOREM TypeCorrect == Spec => []TypeOK
<1>1. Types => TypeOK
  <2> SUFFICES ASSUME Types PROVE TypeOK
    OBVIOUS
  <2>1. ASSUME NEW i \in DOMAIN frames PROVE frames[i] \in EntryOf(Versions) \cup {NoFrame}
    <3>1. frames[i] \in Frames
      BY DEF Types, IndexTypes
    <3>2. QED
      BY <3>1 DEF Frames, Entries, EntryOf
  <2>2. Table(mem) /\ Table(level1)
    <3>1. mem \in AllTables /\ level1 \in AllTables
      BY DEF Types, IndexTypes
    <3>2. QED
      BY <3>1, TableIs DEF Table
  <2>3. ASSUME NEW i \in DOMAIN level0 PROVE Table(level0[i])
    <3>1. level0[i] \in AllTables
      BY DEF Types, IndexTypes
    <3>2. QED
      BY <3>1, TableIs DEF Table
  <2>4. cursor \in 0 .. Len(frames) /\ base \in 0 .. cursor
    BY LogTyped DEF Types, IndexTypes, TxnTypes
  <2>5. ASSUME NEW i \in DOMAIN todo PROVE todo[i] \in EntryOf(Versions)
    <3>1. todo[i] \in Entries
      BY DEF Types, TxnTypes
    <3>2. QED
      BY <3>1 DEF Entries, EntryOf
  <2>6. pc \in Pcs /\ maxLid \in 0 .. MaxLid /\ sbTxid \in 0 .. MaxTxid /\ mark \in 0 .. sbTxid
    BY DEF Types, IndexTypes, TxnTypes
  <2>7. QED
    BY <2>1, <2>2, <2>3, <2>4, <2>5, <2>6 DEF TypeOK, Pcs
<1>2. QED
  BY <1>1, TypesInit, TypesNext, PTL DEF Spec

-----------------------------------------------------------------------------
(* What the index shows.  A restart leaves out the entries of the transaction *)
(* the superblock does not have; the session has them.                        *)

Log == Chain(frames)
Committed == Over(Newest(Log, {Txid}), Tables)
Session == Over(Newest(Log, {}), Tables)

One(e) == [l \in {e.lid} |-> e.val]

LEMMA ShownTyped ==
    ASSUME IndexTypes
    PROVE  /\ Log \in Seq(Entries) /\ Len(Log) \in Nat /\ DOMAIN Log = 1 .. Len(Log)
           /\ \A i \in DOMAIN Log : Log[i] \in Entries /\ Log[i] = frames[i]
           /\ Tables \in AllTables
           /\ \A out : Newest(Log, out) \in AllTables
           /\ Committed \in AllTables /\ Session \in AllTables
<1>1. /\ Log \in Seq(Entries) /\ Len(Log) \in Nat
      /\ \A i \in 1 .. Len(Log) : Log[i] = frames[i]
  BY LogTyped DEF Log, IndexTypes
<1>2. DOMAIN Log = 1 .. Len(Log) /\ \A i \in DOMAIN Log : Log[i] \in Entries
  BY <1>1
<1>3. Tables \in AllTables
  BY TablesTyped DEF IndexTypes
<1>4. ASSUME NEW out PROVE Newest(Log, out) \in AllTables
  BY <1>1, NewestTyped
<1>5. Committed \in AllTables
  BY <1>3, <1>4, OverTyped DEF Committed
<1>6. Session \in AllTables
  BY <1>3, <1>4, OverTyped DEF Session
<1>7. QED
  BY <1>1, <1>2, <1>3, <1>4, <1>5, <1>6

\* Leaving entries out leaves records out.
LEMMA NewestFewer ==
    ASSUME NEW es \in Seq(Entries), NEW out
    PROVE  DOMAIN Newest(es, out) \subseteq DOMAIN Newest(es, {})
<1>1. IsNewest(Newest(es, out), es, out)
  BY NewestIs
<1>2. IsNewest(Newest(es, {}), es, {})
  BY NewestIs
<1>3. PICK n, m : n = Newest(es, out) /\ m = Newest(es, {})
  OBVIOUS
<1>4. IsNewest(n, es, out) /\ IsNewest(m, es, {})
  BY <1>1, <1>2, <1>3
<1>5. DOMAIN n \subseteq DOMAIN m
  BY <1>4 DEF IsNewest
<1>6. QED
  BY <1>3, <1>5

LEMMA CommittedFewer ==
    ASSUME IndexTypes
    PROVE  DOMAIN Committed \subseteq DOMAIN Session
<1>1. DOMAIN Newest(Log, {Txid}) \subseteq DOMAIN Newest(Log, {})
  BY ShownTyped, NewestFewer
<1>2. DOMAIN Committed = DOMAIN Newest(Log, {Txid}) \cup DOMAIN Tables
  BY DEF Committed, Over
<1>3. DOMAIN Session = DOMAIN Newest(Log, {}) \cup DOMAIN Tables
  BY DEF Session, Over
<1>4. QED
  BY <1>1, <1>2, <1>3

\* Without entries of the transaction under way the two are the same.
LEMMA SettledSame ==
    ASSUME IndexTypes, \A i \in DOMAIN Log : Log[i].txid # Txid
    PROVE  Newest(Log, {Txid}) = Newest(Log, {}) /\ Committed = Session
<1>1. Newest(Log, {Txid}) = Newest(Log, {})
  <2>1. PICK one : one = {Txid}
    OBVIOUS
  <2>2. \A i \in DOMAIN Log : Log[i].txid \in one <=> Log[i].txid \in {}
    BY <2>1
  <2>3. Newest(Log, one) = Newest(Log, {})
    BY <2>2, ShownTyped, NewestSame
  <2>4. QED
    BY <2>1, <2>3
<1>2. QED
  BY <1>1 DEF Committed, Session

LEMMA SameDisk ==
    ASSUME UNCHANGED lsmDisk
    PROVE  Log' = Log /\ Tables' = Tables /\ Session' = Session
           /\ (sbTxid' = sbTxid => Txid' = Txid /\ Committed' = Committed)
<1>1. frames' = frames /\ level0' = level0 /\ level1' = level1
  BY DEF lsmDisk
<1>2. QED
  BY <1>1 DEF Log, Tables, Session, Committed, Txid

LEMMA PutDoes ==
    ASSUME ~ResidueAligns, IndexTypes, cursor = Len(Log),
           readonly \/ mem = Newest(Log, {}), NEW e \in Entries, Put(e), sbTxid' = sbTxid
    PROVE  /\ Log' = Append(Log, e) /\ cursor' = Len(Log) + 1
           /\ Tables' = Tables /\ mem' = Newest(Log', {}) /\ ~readonly' /\ Txid' = Txid
           /\ Session' = Over(One(e), Session)
           /\ Committed' = IF e.txid = Txid THEN Committed ELSE Over(One(e), Committed)
           /\ maxLid' >= maxLid /\ maxLid' >= e.lid
<1>1. /\ frames' = Written(frames, Len(Log), e) /\ cursor' = Len(Log) + 1
      /\ mem' = Over(One(e), Newest(Log, {})) /\ maxLid' = Greatest({maxLid, e.lid})
      /\ readonly' = FALSE /\ level0' = level0 /\ level1' = level1
  BY DEF Put, Log, One
<1>2. Log' = Append(Log, e)
  <2>1. Chain(Written(frames, Len(Chain(frames)), e)) = Append(Chain(frames), e)
    BY ChainAppend DEF IndexTypes
  <2>2. QED
    BY <1>1, <2>1 DEF Log
<1>3. Tables' = Tables /\ Txid' = Txid
  BY <1>1 DEF Tables, Txid
<1>4. ASSUME NEW out
      PROVE  Newest(Log', out) = IF e.txid \in out THEN Newest(Log, out)
                                 ELSE Over(One(e), Newest(Log, out))
  <2>1. PICK es \in Seq(Entries) : es = Log
    BY ShownTyped
  <2>2. Newest(Append(es, e), out) =
             IF e.txid \in out THEN Newest(es, out)
                               ELSE Over([l \in {e.lid} |-> e.val], Newest(es, out))
    BY NewestAppend
  <2>3. QED
    BY <1>2, <2>1, <2>2 DEF One
<1>5. Newest(Log', {}) = Over(One(e), Newest(Log, {}))
  BY <1>4
<1>6. Session' = Over(One(e), Session)
  BY <1>3, <1>5, OverOver DEF Session
<1>7. Committed' = IF e.txid = Txid THEN Committed ELSE Over(One(e), Committed)
  <2>1. Newest(Log', {Txid}) = IF e.txid \in {Txid} THEN Newest(Log, {Txid})
                               ELSE Over(One(e), Newest(Log, {Txid}))
    BY <1>4
  <2>2. Committed' = Over(Newest(Log', {Txid}), Tables)
    BY <1>3 DEF Committed
  <2>3. CASE e.txid = Txid
    BY <2>1, <2>2, <2>3 DEF Committed
  <2>4. CASE e.txid # Txid
    <3>1. Committed' = Over(Over(One(e), Newest(Log, {Txid})), Tables)
      BY <2>1, <2>2, <2>4
    <3>2. QED
      BY <2>4, <3>1, OverOver DEF Committed
  <2>5. QED
    BY <2>3, <2>4
<1>8. maxLid' >= maxLid /\ maxLid' >= e.lid
  <2>0. {maxLid, e.lid} \in SUBSET (0 .. MaxLid)
    BY DEF IndexTypes, Entries
  <2>1. PICK S \in SUBSET (0 .. MaxLid) : S = {maxLid, e.lid}
    BY <2>0
  <2>2. /\ Greatest(S) \in 0 .. MaxLid
        /\ \A x \in S : x <= Greatest(S)
        /\ Greatest(S) \in S \cup {0}
    BY Bounds, GreatestIs
  <2>3. maxLid <= Greatest(S) /\ e.lid <= Greatest(S)
    BY <2>1, <2>2
  <2>4. maxLid \in Nat /\ e.lid \in Nat /\ Greatest(S) \in Nat
    BY <2>2, Bounds DEF IndexTypes, Entries
  <2>5. QED
    BY <1>1, <2>1, <2>3, <2>4
<1>9. QED
  BY <1>1, <1>2, <1>3, <1>5, <1>6, <1>7, <1>8

\* A table of the memtable comes over the tables.
LEMMA TableDoes ==
    ASSUME IndexTypes, TableWritten
    PROVE  Tables' = Over(mem, Tables)
<1>1. level0' = <<mem>> \o level0 /\ level1' = level1
  BY DEF TableWritten
<1>2. PICK a, b, t : a = level0 /\ b = <<level1>> /\ t = <<mem>>
  OBVIOUS
<1>3. a \in Seq(AllTables) /\ b \in Seq(AllTables) /\ t \in Seq(AllTables)
  BY <1>2 DEF IndexTypes
<1>4. (t \o a) \o b = t \o (a \o b) /\ a \o b \in Seq(AllTables)
  BY <1>3
<1>5. Merged(t \o (a \o b)) = Over(mem, Merged(a \o b))
  <2>1. PICK ts \in Seq(AllTables) : ts = a \o b
    BY <1>4
  <2>2. Merged(<<mem>> \o ts) = Over(mem, Merged(ts))
    BY MergedFront DEF IndexTypes
  <2>3. QED
    BY <1>2, <2>1, <2>2
<1>6. Tables' = Merged((t \o a) \o b) /\ Tables = Merged(a \o b)
  BY <1>1, <1>2 DEF Tables
<1>7. QED
  BY <1>4, <1>5, <1>6

LEMMA CompactDoes ==
    ASSUME IndexTypes, Compact, sbTxid' = sbTxid
    PROVE  /\ Log' = Log /\ Tables' = Tables /\ Session' = Session
           /\ Txid' = Txid /\ Committed' = Committed
           /\ UNCHANGED <<mem, cursor, maxLid, readonly>>
<1>1. /\ level1' = Tables /\ level0' = << >> /\ frames' = frames
      /\ UNCHANGED <<mem, cursor, maxLid, readonly>>
  BY DEF Compact, Tables, lsmMem
<1>2. Tables' = Merged(<<Tables>>)
  BY <1>1 DEF Tables
<1>3. PICK t \in AllTables : t = Tables
  BY ShownTyped
<1>4. Merged(<<t>>) = t
  BY MergedOne
<1>5. Tables' = Tables
  BY <1>2, <1>3, <1>4
<1>6. QED
  BY <1>1, <1>5 DEF Log, Session, Committed, Txid

\* A flush of what a restart would show leaves no log and the same records.
LEMMA FlushDoes ==
    ASSUME IndexTypes, Flush, mem = Newest(Log, {Txid}), sbTxid' = sbTxid
    PROVE  /\ Log' = << >> /\ cursor' = 0 /\ mem' = << >>
           /\ readonly' = readonly /\ maxLid' = maxLid /\ Txid' = Txid
           /\ Tables' = Committed /\ Committed' = Committed /\ Session' = Committed
<1>1. /\ TableWritten /\ frames' = Severed(frames, 0) /\ mem' = << >> /\ cursor' = 0
      /\ maxLid' = maxLid /\ readonly' = readonly /\ Txid' = Txid
  BY DEF Flush, Txid
<1>2. Log' = << >>
  BY <1>1, CutTyped DEF Log
<1>3. Tables' = Committed
  BY <1>1, TableDoes DEF Committed
<1>4. PICK c \in AllTables : c = Committed
  BY ShownTyped
<1>5. Over(Newest(<< >>, {Txid}), c) = c /\ Over(Newest(<< >>, {}), c) = c
  <2>1. Newest(<< >>, {Txid}) = << >> /\ Newest(<< >>, {}) = << >>
    BY NewestEmpty
  <2>2. Over(<< >>, c) = c
    BY NoTable, OverNothing
  <2>3. QED
    BY <2>1, <2>2
<1>6. Committed' = Over(Newest(<< >>, {Txid}), c)
  BY <1>1, <1>2, <1>3, <1>4 DEF Committed
<1>7. Session' = Over(Newest(<< >>, {}), c)
  BY <1>2, <1>3, <1>4 DEF Session
<1>8. QED
  BY <1>1, <1>2, <1>3, <1>4, <1>5, <1>6, <1>7

\* So does a table of it that the log still has.
LEMMA TableKept ==
    ASSUME IndexTypes, TableWritten, frames' = frames, mem = Newest(Log, {Txid}),
           sbTxid' = sbTxid
    PROVE  /\ Log' = Log /\ Tables' = Committed /\ Committed' = Committed /\ Txid' = Txid
           /\ DOMAIN Session' = DOMAIN Session
           /\ (\A i \in DOMAIN Log : Log[i].txid # Txid) => Session' = Committed
<1>1. Log' = Log /\ Tables' = Committed /\ Txid' = Txid
  BY TableDoes DEF Log, Committed, Txid
<1>2. PICK n, m, t : n = Newest(Log, {Txid}) /\ m = Newest(Log, {}) /\ t = Tables
  OBVIOUS
<1>3. Committed = Over(n, t) /\ Session = Over(m, t)
  BY <1>2 DEF Committed, Session
<1>4. Committed' = Over(n, Over(n, t)) /\ Session' = Over(m, Over(n, t))
  <2>1. Committed' = Over(Newest(Log', {Txid'}), Tables')
    BY DEF Committed
  <2>2. Session' = Over(Newest(Log', {}), Tables')
    BY DEF Session
  <2>3. QED
    BY <1>1, <1>2, <1>3, <2>1, <2>2
<1>5. Over(n, Over(n, t)) = Over(n, t)
  BY OverTwice
<1>6. DOMAIN Session' = DOMAIN Session
  <2>1. DOMAIN n \subseteq DOMAIN m
    BY <1>2, ShownTyped, NewestFewer
  <2>2. /\ DOMAIN Over(m, Over(n, t)) = DOMAIN m \cup DOMAIN n \cup DOMAIN t
        /\ DOMAIN Over(m, t) = DOMAIN m \cup DOMAIN t
    BY DEF Over
  <2>3. QED
    BY <1>3, <1>4, <2>1, <2>2
<1>7. ASSUME \A i \in DOMAIN Log : Log[i].txid # Txid PROVE Session' = Committed
  <2>1. n = m
    BY <1>2, <1>7, SettledSame
  <2>2. QED
    BY <1>3, <1>4, <1>5, <2>1
<1>8. QED
  BY <1>1, <1>3, <1>4, <1>5, <1>6, <1>7

\* The log is cut where the transaction began.
LEMMA TruncateDoes ==
    ASSUME IndexTypes, NEW from \in Nat, NEW t, cursor = Len(Log),
           \A i \in DOMAIN Log : i > from => Log[i].txid = Txid,
           Truncate(from, t), sbTxid' = sbTxid
    PROVE  /\ from <= Len(Log) /\ Log' = SubSeq(Log, 1, from) /\ cursor' = from
           /\ Tables' = Tables /\ Committed' = Committed /\ Txid' = Txid
           /\ mem' = Newest(Log', {t}) /\ readonly' = readonly /\ maxLid' = maxLid
<1>1. /\ cursor >= from
      /\ frames' = IF cursor > from THEN Severed(frames, from) ELSE frames
      /\ mem' = Newest(Log', {t}) /\ cursor' = Len(Log')
      /\ readonly' = readonly /\ maxLid' = maxLid /\ Tables' = Tables /\ Txid' = Txid
  BY DEF Truncate, Rebuild, Log, Tables, Txid
<1>2. PICK c : c = Log
  OBVIOUS
<1>3. c \in Seq(Entries) /\ Len(c) \in Nat /\ from \in 0 .. Len(c)
  BY <1>1, <1>2, ShownTyped
<1>4. Log' = SubSeq(c, 1, from)
  <2>1. CASE cursor > from
    <3>1. /\ Severed(frames, from) \in Seq(Frames)
          /\ Len(Severed(frames, from)) = Len(frames)
          /\ from < Len(Chain(frames)) =>
                Chain(Severed(frames, from)) = SubSeq(Chain(frames), 1, from)
          /\ from = 0 => Chain(Severed(frames, from)) = << >>
      BY ChainOfCut DEF IndexTypes
    <3>2. from < Len(Chain(frames))
      BY <2>1, <1>3, <1>2 DEF Log
    <3>3. QED
      BY <1>1, <1>2, <2>1, <3>1, <3>2 DEF Log
  <2>2. CASE ~(cursor > from)
    <3>1. from = Len(c)
      BY <1>2, <1>3, <2>2
    <3>2. SubSeq(c, 1, from) = c
      BY <1>3, <3>1
    <3>3. frames' = frames
      BY <1>1, <2>2
    <3>4. QED
      BY <1>2, <3>2, <3>3 DEF Log
  <2>3. QED
    BY <2>1, <2>2
<1>5. cursor' = from
  <2>1. Len(SubSeq(c, 1, from)) = from
    BY <1>3
  <2>2. QED
    BY <1>1, <1>4, <2>1
<1>6. Newest(SubSeq(c, 1, from), {Txid}) = Newest(c, {Txid})
  <2>1. PICK one : one = {Txid}
    OBVIOUS
  <2>2. \A i \in DOMAIN c : i > from => c[i].txid \in one
    BY <1>2, <2>1
  <2>3. Newest(SubSeq(c, 1, from), one) = Newest(c, one)
    BY <1>3, <2>2, NewestPrefix
  <2>4. QED
    BY <2>1, <2>3
<1>7. Committed' = Committed
  <2>1. Committed' = Over(Newest(Log', {Txid'}), Tables')
    BY DEF Committed
  <2>2. QED
    BY <1>1, <1>2, <1>4, <1>6, <2>1 DEF Committed
<1>8. QED
  BY <1>1, <1>2, <1>3, <1>4, <1>5, <1>7

LEMMA OpenDoes ==
    ASSUME IndexTypes, Open, sbTxid' = sbTxid
    PROVE  /\ Log' = Log /\ Tables' = Tables /\ Session' = Session
           /\ Txid' = Txid /\ Committed' = Committed
           /\ cursor' = Len(Log) /\ mem' = Newest(Log, {}) /\ ~readonly'
           /\ \A l \in DOMAIN Session : l <= maxLid'
<1>1. /\ mem' = Newest(Log, {}) /\ cursor' = Len(Log)
      /\ maxLid' = Greatest(DOMAIN Session) /\ readonly' = FALSE /\ UNCHANGED lsmDisk
  BY DEF Open, Log, Session, Found
<1>2. PICK S \in SUBSET (0 .. MaxLid) : S = DOMAIN Session
  <2>1. DOMAIN Session \subseteq 1 .. MaxLid
    BY ShownTyped, TableIs
  <2>2. DOMAIN Session \in SUBSET (0 .. MaxLid)
    BY <2>1, Bounds
  <2>3. QED
    BY <2>2
<1>3. \A l \in S : l <= Greatest(S)
  BY Bounds, GreatestIs
<1>4. QED
  BY <1>1, <1>2, <1>3, SameDisk

-----------------------------------------------------------------------------
(* The invariant.  From here on the residue of the log never lines up with a  *)
(* new frame (~ResidueAligns): the case in which it does is a finding.        *)

After == pc \in {"committed", "flushing", "confirming", "stuck"}
Recovering == pc \in {"down", "replaying", "marking", "settling"}
Shows(e) == e.lid \in DOMAIN Committed /\ Committed[e.lid] = e.val

\* The log: nothing of the transaction the superblock does not have, unless it
\* is under way or recovery has still to leave it out.
LogInv ==
    /\ pc # "down" => cursor = Len(Log)
    /\ \A i \in DOMAIN Log : Log[i].txid <= Txid
    /\ \A i \in DOMAIN Log : Log[i].txid = Txid => Begun \/ (Recovering /\ Txid \in Groups)
    /\ Begun => \A i \in DOMAIN Log : i > base <=> Log[i].txid = Txid
    /\ pc = "resetting" => cursor = base
    /\ pc = "emptying" => Log = << >>

\* The WAL: one group, the superblock's or the next one.
WalInv ==
    /\ \A i \in DOMAIN wal : wal[i].kind = "index" => wal[i].entry.txid = wal[i].txid
    /\ \/ \A i \in DOMAIN wal : wal[i].txid = sbTxid
       \/ \A i \in DOMAIN wal : wal[i].txid = Txid
    /\ \A i \in DOMAIN wal : wal[i].txid = sbTxid => Holds("prepare", sbTxid)
    /\ \A i \in DOMAIN wal : wal[i].kind = "commit" => wal[i].txid = sbTxid
    /\ Begun => wal # << >> /\ \A i \in DOMAIN wal : wal[i].txid = Txid
    /\ After \/ pc = "locking" => \A i \in DOMAIN wal : wal[i].txid = sbTxid
    /\ pc = "prepared" => Holds("prepare", Txid)
    /\ pc = "committed" => Holds("prepare", sbTxid)
    /\ pc = "idle" => wal = << >>

\* The memtable is the replay of the log, or recovery has left entries out of
\* it, or it was lost after a flush and the tables have all of it.
MemInv ==
    /\ pc = "down" => mem = << >> /\ ~readonly
    /\ pc \in {"marking", "settling"} => mem = Newest(Log, {Txid}) /\ ~readonly
    /\ pc = "replaying" => ~readonly
    /\ pc \notin {"down", "marking", "settling"} /\ ~readonly => mem = Newest(Log, {})
    /\ readonly => /\ mem \in {<< >>, Newest(Log, {})} /\ Session = Tables
                   /\ \A i \in DOMAIN Log : Log[i].txid # Txid

\* What recovery puts again is there already.
RedoInv ==
    /\ \A i \in DOMAIN wal :
          wal[i].kind = "index" /\ wal[i].txid = sbTxid => Shows(wal[i].entry)
    /\ \A i \in DOMAIN todo : todo[i].txid = sbTxid /\ Shows(todo[i])
    /\ pc # "replaying" => todo = << >>

\* The call under way.
CallInv ==
    pc \in Calls =>
        /\ \A i \in DOMAIN wal : wal[i].kind = "index" =>
              \E k \in DOMAIN Log : k > base /\ Log[k] = wal[i].entry
        /\ \A j, k \in DOMAIN Log :
              j > base /\ k > base /\ Log[j].lid = Log[k].lid => Log[j].val = Log[k].val
        /\ \A k \in DOMAIN Log :
              k > base /\ Log[k].val # Gone => Log[k].lid \notin DOMAIN Committed
        /\ Present(Session) = Promise!Applied(Present(Committed), Ops)

LidInv == pc # "down" => \A l \in DOMAIN Session : l <= maxLid

IInv == Types /\ LogInv /\ WalInv /\ MemInv /\ RedoInv /\ CallInv /\ LidInv

LEMMA WalIs ==
    ASSUME TxnTypes
    PROVE  /\ Len(wal) \in Nat /\ DOMAIN wal = 1 .. Len(wal)
           /\ \A i \in DOMAIN wal : wal[i] \in Records /\ wal[i].txid \in Nat
           /\ Groups = {wal[i].txid : i \in DOMAIN wal}
<1>1. wal \in Seq(Records)
  BY DEF TxnTypes
<1>2. \A i \in DOMAIN wal : wal[i] \in Records
  BY <1>1
<1>3. QED
  BY <1>1, <1>2 DEF Records, Groups

LEMMA ClassesAre ==
    ASSUME Types, WalInv
    PROVE  /\ Replayed \subseteq {sbTxid} /\ Discarded \subseteq {Txid}
           /\ Txid \in Groups => Txid \in Discarded
<1>1. TxnTypes
  BY DEF Types
<1>2. /\ Txid = sbTxid + 1 /\ sbTxid \in Nat /\ mark \in Nat /\ mark <= sbTxid /\ Txid # sbTxid
      /\ ~(sbTxid >= Txid) /\ Txid > mark /\ sbTxid >= sbTxid
  BY <1>1, TxidIs, Bounds DEF TxnTypes
<1>3. \A t \in Groups : t = sbTxid \/ t = Txid
  BY DEF WalInv, Groups
<1>4. ~Holds("commit", Txid)
  BY <1>2 DEF WalInv, Holds
<1>5. Txid \notin Replayed
  BY <1>2, <1>4 DEF Replayed
<1>6. sbTxid \in Groups /\ sbTxid > mark => sbTxid \in Replayed
  <2>1. sbTxid \in Groups => Holds("prepare", sbTxid)
    BY DEF Groups, WalInv
  <2>2. QED
    BY <1>2, <2>1 DEF Replayed
<1>7. Replayed \subseteq {sbTxid}
  BY <1>3, <1>5 DEF Replayed
<1>8. Discarded \subseteq {Txid}
  BY <1>3, <1>6 DEF Discarded
<1>9. Txid \in Groups => Txid \in Discarded
  BY <1>2, <1>5 DEF Discarded
<1>10. QED
  BY <1>7, <1>8, <1>9

LEMMA RedoShows ==
    ASSUME Types, WalInv, RedoInv
    PROVE  /\ Redo \in Seq(Entries)
           /\ \A i \in DOMAIN Redo : Redo[i].txid = sbTxid /\ Shows(Redo[i])
<1>1. Redo \in Seq(RedoEntries)
  BY WalIs, RedoIs DEF Types
<1>2. ASSUME NEW e \in RedoEntries PROVE e \in Entries /\ e.txid = sbTxid /\ Shows(e)
  <2>1. PICK i \in DOMAIN wal : wal[i].kind = "index" /\ wal[i].txid \in Replayed /\ e = wal[i].entry
    BY <1>2 DEF RedoEntries
  <2>2. wal[i].txid = sbTxid
    BY <2>1, ClassesAre
  <2>3. e \in Entries
    BY <2>1 DEF Types, TxnTypes
  <2>4. e.txid = sbTxid
    BY <2>1, <2>2 DEF WalInv
  <2>5. Shows(e)
    BY <2>1, <2>2 DEF RedoInv
  <2>6. QED
    BY <2>3, <2>4, <2>5
<1>3. PICK q, S : q = Redo /\ S = RedoEntries
  OBVIOUS
<1>4. q \in Seq(S) /\ \A e \in S : e \in Entries /\ e.txid = sbTxid /\ Shows(e)
  BY <1>1, <1>2, <1>3
<1>5. q \in Seq(Entries) /\ \A i \in DOMAIN q : q[i] \in S
  BY <1>4
<1>6. QED
  BY <1>3, <1>4, <1>5

\* Entries that are shown already change nothing.
LEMMA ShownAgain ==
    ASSUME IndexTypes, NEW more \in Seq(Entries),
           \A i \in DOMAIN more : more[i].txid # Txid /\ Shows(more[i])
    PROVE  Over(Newest(Log \o more, {Txid}), Tables) = Committed
<1>1. PICK es \in Seq(Entries) : es = Log
  BY ShownTyped
<1>2. PICK one : one = {Txid}
  OBVIOUS
<1>3. \A i \in DOMAIN more : more[i].txid \notin one
  BY <1>2
<1>4. Newest(es \o more, one) = Over(Newest(more, one), Newest(es, one))
  BY <1>3, NewestMore
<1>5. PICK m, n, t : m = Newest(more, one) /\ n = Newest(es, one) /\ t = Tables
  OBVIOUS
<1>6. IsNewest(m, more, one)
  <2>1. IsNewest(Newest(more, one), more, one)
    BY NewestIs
  <2>2. QED
    BY <1>5, <2>1
<1>7. PICK c \in AllTables : c = Committed
  BY ShownTyped
<1>8. c = Over(n, t)
  BY <1>1, <1>2, <1>5, <1>7 DEF Committed
<1>9. ASSUME NEW l \in DOMAIN m PROVE l \in DOMAIN c /\ m[l] = c[l]
  <2>1. PICK i : Latest(more, one, i) /\ more[i].lid = l
    BY <1>6, <1>9 DEF IsNewest
  <2>2. m[more[i].lid] = more[i].val /\ i \in DOMAIN more
    BY <1>6, <2>1 DEF IsNewest, Latest
  <2>3. Shows(more[i])
    BY <2>2
  <2>4. QED
    BY <1>7, <2>1, <2>2, <2>3 DEF Shows
<1>10. Over(m, c) = c
  BY <1>9, OverAgain
<1>11. Over(Over(m, n), t) = Over(m, Over(n, t))
  BY OverOver
<1>12. QED
  BY <1>1, <1>2, <1>4, <1>5, <1>7, <1>8, <1>10, <1>11

\* What an unlock would find is what the superblock has.
LEMMA DurableIs ==
    ASSUME IInv
    PROVE  DurableVersions = Committed /\ Durable = Present(Committed)
<1>1. Redo \in Seq(Entries) /\ \A i \in DOMAIN Redo : Redo[i].txid = sbTxid /\ Shows(Redo[i])
  BY RedoShows DEF IInv
<1>2. PICK more \in Seq(Entries) : more = Redo
  BY <1>1
<1>3. \A i \in DOMAIN more : more[i].txid # Txid /\ Shows(more[i])
  BY <1>1, <1>2, TxidIs DEF IInv, Types
<1>4. PICK all : all = Log \o more
  OBVIOUS
<1>5. PICK es \in Seq(Entries) : es = Log
  BY ShownTyped DEF IInv, Types
<1>6. /\ all \in Seq(Entries)
      /\ \A i \in DOMAIN all : \/ i \in DOMAIN es /\ all[i] = es[i]
                               \/ \E j \in DOMAIN more : all[i] = more[j]
  BY <1>4, <1>5
<1>7. Newest(all, Discarded) = Newest(all, {Txid})
  <2>1. Discarded \subseteq {Txid} /\ (Txid \in Groups => Txid \in Discarded)
    BY ClassesAre DEF IInv
  <2>2. CASE Discarded = {Txid}
    BY <2>2
  <2>3. CASE Discarded = {}
    <3>1. Txid \notin Groups
      BY <2>1, <2>3
    <3>2. ~Begun
      BY <3>1 DEF IInv, Types, TxnTypes, WalInv, Groups
    <3>3. \A i \in DOMAIN es : es[i].txid # Txid
      BY <1>5, <3>1, <3>2 DEF IInv, LogInv
    <3>4. \A i \in DOMAIN all : all[i].txid # Txid
      BY <1>3, <1>6, <3>3
    <3>5. PICK one, none : one = {Txid} /\ none = Discarded
      OBVIOUS
    <3>6. \A i \in DOMAIN all : all[i].txid \in none <=> all[i].txid \in one
      BY <2>3, <3>4, <3>5
    <3>7. Newest(all, none) = Newest(all, one)
      BY <1>6, <3>6, NewestSame
    <3>8. QED
      BY <3>5, <3>7
  <2>4. QED
    BY <2>1, <2>2, <2>3
<1>8. Over(Newest(Log \o more, {Txid}), Tables) = Committed
  BY <1>3, ShownAgain DEF IInv, Types
<1>9. DurableVersions = Over(Newest(all, Discarded), Tables)
  <2>1. PICK a, x : a = Newest(all, Discarded) /\ x = Over(a, Tables)
    OBVIOUS
  <2>2. {Over(m, Tables) : m \in {a}} = {x}
    BY <2>1
  <2>3. The({x}) = x
    BY TheOne
  <2>4. DurableVersions = The({Over(m, Tables) : m \in {a}})
    BY <1>2, <1>4, <2>1 DEF DurableVersions, Log
  <2>5. QED
    BY <2>1, <2>2, <2>3, <2>4
<1>10. DurableVersions = Committed
  BY <1>4, <1>7, <1>8, <1>9
<1>11. Durable = Present(Committed)
  <2>1. PICK a : a = DurableVersions
    OBVIOUS
  <2>2. {Present(all1) : all1 \in {a}} = {Present(a)}
    OBVIOUS
  <2>3. The({Present(a)}) = Present(a)
    BY TheOne
  <2>4. QED
    BY <1>10, <2>1, <2>2, <2>3 DEF Durable
<1>12. QED
  BY <1>10, <1>11

-----------------------------------------------------------------------------
(* Each step keeps the invariant.                                            *)

Rest == LogInv /\ WalInv /\ MemInv /\ RedoInv /\ CallInv /\ LidInv

Quiet == /\ Log' = Log /\ Tables' = Tables /\ Session' = Session
         /\ Committed' = Committed /\ Txid' = Txid /\ sbTxid' = sbTxid
         /\ UNCHANGED <<mem, cursor, maxLid, readonly>>

LEMMA QuietIs ==
    ASSUME UNCHANGED lsmVars, sbTxid' = sbTxid
    PROVE  Quiet
<1>1. UNCHANGED lsmDisk /\ UNCHANGED <<mem, cursor, maxLid, readonly>>
  BY DEF lsmVars, lsmMem
<1>2. QED
  BY <1>1, SameDisk DEF Quiet

LEMMA Appended ==
    ASSUME TxnTypes, NEW r \in Records, wal' = Append(wal, r)
    PROVE  /\ wal' # << >>
           /\ \A i \in DOMAIN wal : i \in DOMAIN wal' /\ wal'[i] = wal[i]
           /\ \E i \in DOMAIN wal' : wal'[i] = r
           /\ \A i \in DOMAIN wal' : (i \in DOMAIN wal /\ wal'[i] = wal[i]) \/ wal'[i] = r
<1>1. PICK q : q = wal'
  OBVIOUS
<1>2. /\ q \in Seq(Records) /\ DOMAIN q = 1 .. (Len(wal) + 1) /\ DOMAIN wal = 1 .. Len(wal)
      /\ Len(wal) \in Nat
      /\ \A i \in DOMAIN wal : q[i] = wal[i]
      /\ q[Len(wal) + 1] = r
  BY <1>1 DEF TxnTypes
<1>3. Len(wal) + 1 \in DOMAIN q /\ \A i \in DOMAIN wal : i \in DOMAIN q
  BY <1>2
<1>4. \A i \in DOMAIN q : i \in DOMAIN wal \/ i = Len(wal) + 1
  BY <1>2
<1>5. q # << >>
  BY <1>3
<1>6. QED
  BY <1>1, <1>2, <1>3, <1>4, <1>5

\* What the WAL says survives a record that adds nothing but itself.
LEMMA PlainAppended ==
    ASSUME TxnTypes, NEW kind \in {"begin", "prepare", "commit"}, NEW t \in Nat,
           wal' = Append(wal, Record(kind, t, NoFrame))
    PROVE  /\ wal' # << >>
           /\ \A i \in DOMAIN wal : i \in DOMAIN wal' /\ wal'[i] = wal[i]
           /\ \E i \in DOMAIN wal' : wal'[i].kind = kind /\ wal'[i].txid = t
           /\ \A i \in DOMAIN wal' : \/ i \in DOMAIN wal /\ wal'[i] = wal[i]
                                     \/ wal'[i].kind = kind /\ wal'[i].txid = t
           /\ kind # "index"
<1>1. PICK r : r = Record(kind, t, NoFrame)
  OBVIOUS
<1>2. r \in Records /\ r.kind = kind /\ r.txid = t /\ kind # "index"
  <2>1. /\ Record(kind, t, NoFrame) \in Records
        /\ Record(kind, t, NoFrame).kind = kind /\ Record(kind, t, NoFrame).txid = t
        /\ kind # "index"
    BY PlainRecord
  <2>2. QED
    BY <1>1, <2>1
<1>3. wal' = Append(wal, r)
  BY <1>1
<1>4. /\ wal' # << >>
      /\ \A i \in DOMAIN wal : i \in DOMAIN wal' /\ wal'[i] = wal[i]
      /\ \E i \in DOMAIN wal' : wal'[i] = r
      /\ \A i \in DOMAIN wal' : (i \in DOMAIN wal /\ wal'[i] = wal[i]) \/ wal'[i] = r
  BY <1>2, <1>3, Appended
<1>5. QED
  BY <1>2, <1>4

LEMMA NoWal ==
    ASSUME wal' = << >>, todo' = << >>, ~Begun', pc' # "prepared", pc' # "committed"
    PROVE  WalInv' /\ RedoInv'
<1>1. DOMAIN wal' = {} /\ DOMAIN todo' = {}
  OBVIOUS
<1>2. WalInv'
  BY <1>1 DEF WalInv
<1>3. RedoInv'
  BY <1>1 DEF RedoInv
<1>4. QED
  BY <1>2, <1>3

LEMMA SameWal ==
    ASSUME RedoInv, Quiet, wal' = wal, todo' = todo, pc' # "replaying" => todo = << >>
    PROVE  RedoInv'
<1>1. \A e : Shows(e)' <=> Shows(e)
  BY DEF Quiet, Shows
<1>2. QED
  BY DEF RedoInv, Quiet, Shows

LEMMA QuietLids ==
    ASSUME LidInv, Quiet, pc # "down"
    PROVE  LidInv'
  BY DEF LidInv, Quiet


LEMMA CommitTailFailsKeeps ==
    ASSUME IInv, CommitTailFails
    PROVE  Rest'
<1>1. /\ pc = "committed" /\ pc' = "confirming"
      /\ wal' = wal /\ base' = base /\ todo' = todo /\ UNCHANGED lsmVars /\ sbTxid' = sbTxid
  BY DEF CommitTailFails, Settled, Logged
<1>2. Quiet
  BY <1>1, QuietIs
<1>3. LogInv'
  BY <1>1, <1>2 DEF IInv, LogInv, Quiet, Groups, Begun, Calls, After, Recovering, Settled
<1>4. WalInv'
  BY <1>1, <1>2 DEF IInv, WalInv, Quiet, Holds, Begun, Calls, After, Recovering, Settled
<1>5. RedoInv'
  BY <1>1, <1>2, SameWal DEF IInv, RedoInv, Calls
<1>6. MemInv'
  BY <1>1, <1>2 DEF IInv, MemInv, Quiet, Calls
<1>7. CallInv'
  BY <1>1 DEF CallInv, Calls
<1>8. LidInv'
  BY <1>1, <1>2, QuietLids DEF IInv, Calls
<1>9. QED
  BY <1>3, <1>4, <1>5, <1>6, <1>7, <1>8 DEF Rest

LEMMA ConfirmKeeps ==
    ASSUME IInv, Confirm
    PROVE  Rest'
<1>1. /\ pc = "confirming" /\ pc' = "idle"
      /\ wal' = << >> /\ base' = base /\ todo' = todo /\ UNCHANGED lsmVars /\ sbTxid' = sbTxid
  BY DEF Confirm, Settled, Logged
<1>2. Quiet
  BY <1>1, QuietIs
<1>3. LogInv'
  BY <1>1, <1>2 DEF IInv, LogInv, Quiet, Groups, Begun, Calls, After, Recovering, Settled
<1>4. WalInv' /\ RedoInv'
  BY <1>1, NoWal DEF IInv, RedoInv, Begun, Calls, After, Recovering, Settled
<1>5. RedoInv'
  BY <1>4
<1>6. MemInv'
  BY <1>1, <1>2 DEF IInv, MemInv, Quiet, Calls
<1>7. CallInv'
  BY <1>1 DEF CallInv, Calls
<1>8. LidInv'
  BY <1>1, <1>2, QuietLids DEF IInv, Calls
<1>9. QED
  BY <1>3, <1>4, <1>5, <1>6, <1>7, <1>8 DEF Rest

LEMMA ConfirmFailsKeeps ==
    ASSUME IInv, ConfirmFails
    PROVE  Rest'
<1>1. /\ pc = "confirming" /\ pc' = "stuck"
      /\ wal' = wal /\ base' = base /\ todo' = todo /\ UNCHANGED lsmVars /\ sbTxid' = sbTxid
  BY DEF ConfirmFails, Settled, Logged
<1>2. Quiet
  BY <1>1, QuietIs
<1>3. LogInv'
  BY <1>1, <1>2 DEF IInv, LogInv, Quiet, Groups, Begun, Calls, After, Recovering, Settled
<1>4. WalInv'
  BY <1>1, <1>2 DEF IInv, WalInv, Quiet, Holds, Begun, Calls, After, Recovering, Settled
<1>5. RedoInv'
  BY <1>1, <1>2, SameWal DEF IInv, RedoInv, Calls
<1>6. MemInv'
  BY <1>1, <1>2 DEF IInv, MemInv, Quiet, Calls
<1>7. CallInv'
  BY <1>1 DEF CallInv, Calls
<1>8. LidInv'
  BY <1>1, <1>2, QuietLids DEF IInv, Calls
<1>9. QED
  BY <1>3, <1>4, <1>5, <1>6, <1>7, <1>8 DEF Rest

LEMMA FailKeeps ==
    ASSUME IInv, Fail
    PROVE  Rest'
<1>1. /\ pc \in Calls /\ pc' = "aborting"
      /\ wal' = wal /\ base' = base /\ todo' = todo /\ UNCHANGED lsmVars /\ sbTxid' = sbTxid
  BY DEF Fail, Settled, Logged
<1>2. Quiet
  BY <1>1, QuietIs
<1>3. LogInv'
  BY <1>1, <1>2 DEF IInv, LogInv, Quiet, Groups, Begun, Calls, After, Recovering, Settled
<1>4. WalInv'
  BY <1>1, <1>2 DEF IInv, WalInv, Quiet, Holds, Begun, Calls, After, Recovering, Settled
<1>5. RedoInv'
  BY <1>1, <1>2, SameWal DEF IInv, RedoInv, Calls
<1>6. MemInv'
  BY <1>1, <1>2 DEF IInv, MemInv, Quiet, Calls
<1>7. CallInv'
  BY <1>1 DEF CallInv, Calls
<1>8. LidInv'
  BY <1>1, <1>2, QuietLids DEF IInv, Calls
<1>9. QED
  BY <1>3, <1>4, <1>5, <1>6, <1>7, <1>8 DEF Rest

LEMMA RollbackWalKeeps ==
    ASSUME IInv, RollbackWal
    PROVE  Rest'
<1>1. /\ pc = "resetting" /\ pc' = "idle"
      /\ wal' = << >> /\ base' = 0 /\ todo' = todo /\ UNCHANGED lsmVars /\ sbTxid' = sbTxid
  BY DEF RollbackWal, Settled, Logged
<1>2. Quiet
  BY <1>1, QuietIs
<1>3. LogInv'
  BY <1>1, <1>2 DEF IInv, LogInv, Quiet, Groups, Begun, Calls, After, Recovering, Settled
<1>4. WalInv' /\ RedoInv'
  BY <1>1, NoWal DEF IInv, RedoInv, Begun, Calls, After, Recovering, Settled
<1>5. RedoInv'
  BY <1>4
<1>6. MemInv'
  BY <1>1, <1>2 DEF IInv, MemInv, Quiet, Calls
<1>7. CallInv'
  BY <1>1 DEF CallInv, Calls
<1>8. LidInv'
  BY <1>1, <1>2, QuietLids DEF IInv, Calls
<1>9. QED
  BY <1>3, <1>4, <1>5, <1>6, <1>7, <1>8 DEF Rest

LEMMA RollbackFailsKeeps ==
    ASSUME IInv, RollbackFails
    PROVE  Rest'
<1>1. /\ pc \in {"aborting", "resetting"} /\ pc' = "aborting"
      /\ wal' = wal /\ base' = base /\ todo' = todo /\ UNCHANGED lsmVars /\ sbTxid' = sbTxid
  BY DEF RollbackFails, Settled, Logged
<1>2. Quiet
  BY <1>1, QuietIs
<1>3. LogInv'
  BY <1>1, <1>2 DEF IInv, LogInv, Quiet, Groups, Begun, Calls, After, Recovering, Settled
<1>4. WalInv'
  BY <1>1, <1>2 DEF IInv, WalInv, Quiet, Holds, Begun, Calls, After, Recovering, Settled
<1>5. RedoInv'
  BY <1>1, <1>2, SameWal DEF IInv, RedoInv, Calls
<1>6. MemInv'
  BY <1>1, <1>2 DEF IInv, MemInv, Quiet, Calls
<1>7. CallInv'
  BY <1>1 DEF CallInv, Calls
<1>8. LidInv'
  BY <1>1, <1>2, QuietLids DEF IInv, Calls
<1>9. QED
  BY <1>3, <1>4, <1>5, <1>6, <1>7, <1>8 DEF Rest

LEMMA RecoverResetKeeps ==
    ASSUME IInv, RecoverReset
    PROVE  Rest'
<1>1. /\ pc = "emptying" /\ pc' = "idle"
      /\ wal' = << >> /\ base' = base /\ todo' = todo /\ UNCHANGED lsmVars /\ sbTxid' = sbTxid
  BY DEF RecoverReset, Settled, Logged
<1>2. Quiet
  BY <1>1, QuietIs
<1>3. LogInv'
  BY <1>1, <1>2 DEF IInv, LogInv, Quiet, Groups, Begun, Calls, After, Recovering, Settled
<1>4. WalInv' /\ RedoInv'
  BY <1>1, NoWal DEF IInv, RedoInv, Begun, Calls, After, Recovering, Settled
<1>5. RedoInv'
  BY <1>4
<1>6. MemInv'
  BY <1>1, <1>2 DEF IInv, MemInv, Quiet, Calls
<1>7. CallInv'
  BY <1>1 DEF CallInv, Calls
<1>8. LidInv'
  BY <1>1, <1>2, QuietLids DEF IInv, Calls
<1>9. QED
  BY <1>3, <1>4, <1>5, <1>6, <1>7, <1>8 DEF Rest

LEMMA SameKeeps ==
    ASSUME IInv, Quiet, UNCHANGED txnVars, frames' = frames
    PROVE  Rest' /\ Ops' = Ops
<1>1. /\ pc' = pc /\ base' = base /\ todo' = todo /\ wal' = wal /\ sbTxid' = sbTxid
  BY DEF txnVars
<1>2. Ops' = Ops
  BY <1>1 DEF Ops, Quiet
<1>3. LogInv'
  BY <1>1 DEF IInv, LogInv, Quiet, Groups, Begun, Recovering
<1>4. WalInv'
  BY <1>1 DEF IInv, WalInv, Quiet, Holds, Begun, After
<1>5. RedoInv'
  BY <1>1, SameWal DEF IInv, RedoInv
<1>6. MemInv'
  BY <1>1 DEF IInv, MemInv, Quiet
<1>7. CallInv'
  BY <1>1, <1>2 DEF IInv, CallInv, Quiet
<1>8. LidInv'
  BY <1>1 DEF IInv, LidInv, Quiet
<1>9. QED
  BY <1>2, <1>3, <1>4, <1>5, <1>6, <1>7, <1>8 DEF Rest

LEMMA StutterKeeps ==
    ASSUME IInv, UNCHANGED vars
    PROVE  Rest' /\ Ops' = Ops /\ Committed' = Committed
<1>1. UNCHANGED lsmVars /\ UNCHANGED txnVars
  BY DEF vars
<1>2. Quiet /\ frames' = frames
  BY <1>1, QuietIs DEF lsmVars, lsmDisk, txnVars
<1>3. QED
  BY <1>1, <1>2, SameKeeps DEF Quiet

LEMMA CompactionKeeps ==
    ASSUME IInv, Compaction
    PROVE  Rest' /\ Ops' = Ops /\ Committed' = Committed
<1>1. Compact /\ UNCHANGED txnVars /\ sbTxid' = sbTxid /\ frames' = frames
  BY DEF Compaction, txnVars, Compact
<1>2. Quiet
  BY <1>1, CompactDoes DEF Quiet, IInv, Types
<1>3. QED
  BY <1>1, <1>2, SameKeeps DEF Quiet

LEMMA Piece ==
    ASSUME NEW S, NEW s \in Seq(S), NEW n \in 0 .. Len(s), NEW b \in 0 .. n
    PROVE  /\ SubSeq(s, b + 1, n) \in Seq(S) /\ Len(SubSeq(s, b + 1, n)) = n - b
           /\ \A i \in 1 .. (n - b) : SubSeq(s, b + 1, n)[i] = s[b + i]
<1>1. Len(s) \in Nat /\ n \in Nat /\ b \in Nat /\ b <= n /\ n <= Len(s)
  OBVIOUS
<1>2. \A i \in (b + 1) .. n : s[i] \in S
  BY <1>1
<1>3. PICK q : q = SubSeq(s, b + 1, n)
  OBVIOUS
<1>4. q = [i \in 1 .. (n - b) |-> s[b + i]]
  <2>1. (1 + n) - (b + 1) = n - b
    BY <1>1
  <2>2. \A i \in 1 .. (n - b) : (i + (b + 1)) - 1 = b + i
    BY <1>1
  <2>3. q = [i \in 1 .. ((1 + n) - (b + 1)) |-> s[(i + (b + 1)) - 1]]
    BY <1>3
  <2>4. QED
    BY <2>1, <2>2, <2>3
<1>5. n - b \in Nat /\ \A i \in 1 .. (n - b) : b + i \in (b + 1) .. n
  BY <1>1
<1>6. q \in [1 .. (n - b) -> S]
  BY <1>2, <1>4, <1>5
<1>7. q \in Seq(S)
  BY <1>5, <1>6
<1>8. Len(q) = n - b
  BY <1>5, <1>6, <1>7
<1>9. QED
  BY <1>3, <1>4, <1>7, <1>8

\* The operations of a call, as the readable log has them.
LEMMA OpsAre ==
    ASSUME Types, LogInv, pc \in Calls
    PROVE  /\ Ops \in Seq(Entries) /\ Len(Ops) = Len(Log) - base /\ base <= Len(Log)
           /\ \A i \in DOMAIN Ops : base + i \in DOMAIN Log /\ base + i > base /\ Ops[i] = Log[base + i]
           /\ \A k \in DOMAIN Log : k > base =>
                 k - base \in DOMAIN Ops /\ Ops[k - base] = Log[k]
<1>1. /\ Len(Log) \in Nat /\ DOMAIN Log = 1 .. Len(Log) /\ cursor = Len(Log)
      /\ \A i \in DOMAIN Log : Log[i] \in Entries /\ Log[i] = frames[i]
      /\ base \in Nat /\ base <= Len(Log)
  BY ShownTyped DEF Types, TxnTypes, LogInv, Calls
<1>2. frames \in Seq(Frames) /\ Len(Log) <= Len(frames)
  BY LogTyped DEF Types, IndexTypes, Log
<1>3. PICK q : q = SubSeq(frames, base + 1, cursor)
  OBVIOUS
<1>4. Ops = q
  BY <1>3 DEF Ops
<1>5. /\ q \in Seq(Frames) /\ Len(q) = Len(Log) - base
      /\ \A i \in 1 .. (Len(Log) - base) : q[i] = frames[base + i]
  <2>0. Len(frames) \in Nat /\ Len(Log) \in 0 .. Len(frames)
    BY <1>1, <1>2
  <2>1. PICK n \in 0 .. Len(frames) : n = Len(Log)
    BY <2>0
  <2>2. PICK b \in 0 .. n : b = base
    BY <1>1, <2>1
  <2>3. /\ SubSeq(frames, b + 1, n) \in Seq(Frames) /\ Len(SubSeq(frames, b + 1, n)) = n - b
        /\ \A i \in 1 .. (n - b) : SubSeq(frames, b + 1, n)[i] = frames[b + i]
    BY <1>2, Piece
  <2>4. QED
    BY <1>1, <1>3, <2>1, <2>2, <2>3
<1>6. DOMAIN q = 1 .. (Len(Log) - base)
  BY <1>5
<1>7. ASSUME NEW i \in DOMAIN q
      PROVE  base + i \in DOMAIN Log /\ base + i > base /\ q[i] = Log[base + i] /\ q[i] \in Entries
  <2>1. base + i \in DOMAIN Log /\ base + i > base
    BY <1>1, <1>6
  <2>2. q[i] = frames[base + i]
    BY <1>5, <1>6
  <2>3. QED
    BY <1>1, <2>1, <2>2
<1>8. q \in Seq(Entries)
  BY <1>5, <1>7
<1>9. ASSUME NEW k \in DOMAIN Log, k > base PROVE k - base \in DOMAIN q /\ q[k - base] = Log[k]
  <2>1. k - base \in DOMAIN q /\ base + (k - base) = k
    BY <1>1, <1>6, <1>9
  <2>2. QED
    BY <1>7, <2>1
<1>10. QED
  BY <1>1, <1>4, <1>5, <1>7, <1>8, <1>9

LEMMA NoTxid ==
    ASSUME LogInv, ~Begun, ~Recovering
    PROVE  \A i \in DOMAIN Log : Log[i].txid # Txid
  BY DEF LogInv

LEMMA BeginKeeps ==
    ASSUME IInv, Types', Begin
    PROVE  Rest'
<1>1. /\ pc = "idle" /\ pc' = "active" /\ base' = cursor /\ todo' = todo
      /\ UNCHANGED lsmVars /\ sbTxid' = sbTxid
      /\ wal' = Append(wal, Record("begin", Txid, NoFrame))
  BY DEF Begin, Logged
<1>2. Quiet
  BY <1>1, QuietIs
<1>3. /\ \A i \in DOMAIN Log : Log[i].txid # Txid
      /\ Committed = Session /\ cursor = Len(Log) /\ DOMAIN Log = 1 .. Len(Log) /\ Len(Log) \in Nat
  <2>1. ~Begun /\ ~Recovering
    BY <1>1 DEF Begun, Calls, Recovering
  <2>2. \A i \in DOMAIN Log : Log[i].txid # Txid
    BY <2>1, NoTxid DEF IInv
  <2>3. QED
    BY <1>1, <2>2, SettledSame, ShownTyped DEF IInv, Types, LogInv
<1>4. \A i \in DOMAIN Log : ~(i > base')
  BY <1>1, <1>3
<1>5. LogInv'
  BY <1>1, <1>2, <1>3, <1>4 DEF IInv, LogInv, Quiet, Begun, Calls
<1>6. /\ wal' # << >> /\ DOMAIN wal = {}
      /\ \A i \in DOMAIN wal' : wal'[i].kind = "begin" /\ wal'[i].txid = Txid
  <2>1. Txid \in Nat /\ "begin" \in {"begin", "prepare", "commit"}
    BY TxidIs DEF IInv, Types
  <2>2. DOMAIN wal = {}
    BY <1>1 DEF IInv, WalInv
  <2>3. /\ wal' # << >>
        /\ \A i \in DOMAIN wal : i \in DOMAIN wal' /\ wal'[i] = wal[i]
        /\ \E i \in DOMAIN wal' : wal'[i].kind = "begin" /\ wal'[i].txid = Txid
        /\ \A i \in DOMAIN wal' : \/ i \in DOMAIN wal /\ wal'[i] = wal[i]
                                  \/ wal'[i].kind = "begin" /\ wal'[i].txid = Txid
        /\ "begin" # "index"
    BY <1>1, <2>1, PlainAppended DEF IInv, Types
  <2>4. QED
    BY <2>2, <2>3
<1>7. Txid # sbTxid
  BY TxidIs DEF IInv, Types
<1>8. WalInv'
  BY <1>1, <1>2, <1>6, <1>7 DEF WalInv, Quiet, Holds, Begun, Calls, After
<1>9. RedoInv'
  <2>1. todo = << >>
    BY <1>1 DEF IInv, RedoInv
  <2>2. QED
    BY <1>1, <1>6, <2>1 DEF RedoInv
<1>10. MemInv'
  BY <1>1, <1>2 DEF IInv, MemInv, Quiet
<1>11. Ops' = << >>
  <2>1. frames' = frames /\ cursor' = cursor
    BY <1>1 DEF lsmVars, lsmDisk, lsmMem
  <2>2. frames \in Seq(Frames) /\ cursor \in Nat /\ cursor <= Len(frames)
    BY LogTyped DEF IInv, Types, IndexTypes
  <2>3. SubSeq(frames, cursor + 1, cursor) = << >>
    BY <2>2
  <2>4. QED
    BY <1>1, <2>1, <2>3 DEF Ops, Calls
<1>12. CallInv'
  <2>1. Present(Session') = Promise!Applied(Present(Committed'), Ops')
    BY <1>2, <1>3, <1>11, AppliedNone DEF Quiet
  <2>2. QED
    BY <1>2, <1>4, <1>6, <2>1 DEF CallInv, Quiet
<1>13. LidInv'
  BY <1>1, <1>2, QuietLids DEF IInv
<1>14. QED
  BY <1>5, <1>8, <1>9, <1>10, <1>12, <1>13 DEF Rest

LEMMA LogIndexKeeps ==
    ASSUME IInv, LogIndex
    PROVE  Rest'
<1>1. /\ pc = "logging" /\ wal' = Append(wal, Record("index", Txid, frames[cursor]))
      /\ pc' = "active" /\ base' = base /\ todo' = todo /\ sbTxid' = sbTxid
      /\ UNCHANGED lsmVars
  BY DEF LogIndex
<1>2. Quiet
  BY <1>1, QuietIs
<1>3. /\ cursor \in DOMAIN Log /\ cursor > base /\ frames[cursor] = Log[cursor]
      /\ Log[cursor] \in Entries /\ Log[cursor].txid = Txid
  <2>1. cursor = Len(Log) /\ base < cursor /\ base \in Nat
    BY <1>1 DEF IInv, LogInv, Types, TxnTypes
  <2>2. cursor \in DOMAIN Log /\ cursor > base
    BY <2>1, ShownTyped DEF IInv, Types
  <2>3. frames[cursor] = Log[cursor] /\ Log[cursor] \in Entries
    BY <2>2, ShownTyped DEF IInv, Types
  <2>4. Log[cursor].txid = Txid
    BY <1>1, <2>2 DEF IInv, LogInv, Begun, Calls
  <2>5. QED
    BY <2>2, <2>3, <2>4
<1>4. PICK r : r = Record("index", Txid, frames[cursor])
  OBVIOUS
<1>5. /\ r \in Records /\ r.kind = "index" /\ r.txid = Txid /\ r.entry = Log[cursor]
  <2>1. Txid \in Nat
    BY TxidIs DEF IInv, Types
  <2>2. QED
    BY <1>3, <1>4, <2>1 DEF Record, Records, Frames
<1>6. /\ wal' # << >>
      /\ \A i \in DOMAIN wal : i \in DOMAIN wal' /\ wal'[i] = wal[i]
      /\ \E i \in DOMAIN wal' : wal'[i] = r
      /\ \A i \in DOMAIN wal' : (i \in DOMAIN wal /\ wal'[i] = wal[i]) \/ wal'[i] = r
  BY <1>1, <1>4, <1>5, Appended DEF IInv, Types
<1>7. Txid # sbTxid
  BY TxidIs DEF IInv, Types
<1>8. LogInv'
  BY <1>1, <1>2 DEF IInv, LogInv, Quiet, Begun, Calls
<1>9. \A i \in DOMAIN wal' : wal'[i].txid = Txid
  BY <1>1, <1>5, <1>6 DEF IInv, WalInv, Begun, Calls
<1>10. WalInv'
  <2>1. \A i \in DOMAIN wal' : wal'[i].kind = "index" => wal'[i].entry.txid = wal'[i].txid
    BY <1>3, <1>5, <1>6 DEF IInv, WalInv
  <2>2. \A i \in DOMAIN wal' : wal'[i].kind # "commit"
    BY <1>5, <1>6, <1>7, <1>9 DEF IInv, WalInv
  <2>3. QED
    BY <1>1, <1>2, <1>6, <1>7, <1>9, <2>1, <2>2 DEF WalInv, Quiet, After
<1>11. RedoInv'
  <2>1. todo = << >>
    BY <1>1 DEF IInv, RedoInv
  <2>2. QED
    BY <1>1, <1>2, <1>7, <1>9, <2>1 DEF RedoInv, Quiet
<1>12. MemInv'
  BY <1>1, <1>2 DEF IInv, MemInv, Quiet
<1>13. Ops' = Ops
  BY <1>1 DEF Ops, lsmVars, lsmDisk, lsmMem, Calls
<1>14. CallInv'
  <2>1. ASSUME NEW i \in DOMAIN wal', wal'[i].kind = "index"
        PROVE  \E k \in DOMAIN Log : k > base /\ Log[k] = wal'[i].entry
    <3>1. CASE i \in DOMAIN wal /\ wal'[i] = wal[i]
      BY <1>1, <2>1, <3>1 DEF IInv, CallInv, Calls
    <3>2. CASE wal'[i] = r
      BY <1>3, <1>5, <3>2
    <3>3. QED
      BY <1>6, <3>1, <3>2
  <2>2. pc \in Calls
    BY <1>1 DEF Calls
  <2>3. QED
    BY <1>1, <1>2, <1>13, <2>1, <2>2 DEF IInv, CallInv, Quiet
<1>15. LidInv'
  BY <1>1, <1>2, QuietLids DEF IInv
<1>16. QED
  BY <1>8, <1>10, <1>11, <1>12, <1>14, <1>15 DEF Rest

LEMMA PrepareKeeps ==
    ASSUME IInv, Prepare
    PROVE  Rest'
<1>1. /\ pc = "active" /\ wal' = Append(wal, Record("prepare", Txid, NoFrame))
      /\ pc' = "prepared" /\ base' = base /\ todo' = todo /\ sbTxid' = sbTxid
      /\ UNCHANGED lsmVars
  BY DEF Prepare, Logged
<1>2. Quiet
  BY <1>1, QuietIs
<1>3. /\ wal' # << >>
      /\ \A i \in DOMAIN wal : i \in DOMAIN wal' /\ wal'[i] = wal[i]
      /\ \E i \in DOMAIN wal' : wal'[i].kind = "prepare" /\ wal'[i].txid = Txid
      /\ \A i \in DOMAIN wal' : \/ i \in DOMAIN wal /\ wal'[i] = wal[i]
                                \/ wal'[i].kind = "prepare" /\ wal'[i].txid = Txid
      /\ "prepare" # "index"
  <2>1. Txid \in Nat /\ "prepare" \in {"begin", "prepare", "commit"}
    BY TxidIs DEF IInv, Types
  <2>2. QED
    BY <1>1, <2>1, PlainAppended DEF IInv, Types
<1>4. Txid # sbTxid
  BY TxidIs DEF IInv, Types
<1>5. LogInv'
  BY <1>1, <1>2 DEF IInv, LogInv, Quiet, Begun, Calls
<1>6. \A i \in DOMAIN wal' : wal'[i].txid = Txid
  BY <1>1, <1>3 DEF IInv, WalInv, Begun, Calls
<1>7. WalInv'
  <2>1. \A i \in DOMAIN wal' : wal'[i].kind = "index" => wal'[i].entry.txid = wal'[i].txid
    BY <1>3 DEF IInv, WalInv
  <2>2. \A i \in DOMAIN wal' : wal'[i].kind # "commit"
    BY <1>3, <1>4, <1>6 DEF IInv, WalInv
  <2>3. Holds("prepare", Txid)'
    BY <1>2, <1>3 DEF Holds, Quiet
  <2>4. QED
    BY <1>1, <1>2, <1>3, <1>4, <1>6, <2>1, <2>2, <2>3 DEF WalInv, Quiet, After
<1>8. RedoInv'
  <2>1. todo = << >>
    BY <1>1 DEF IInv, RedoInv
  <2>2. QED
    BY <1>1, <1>2, <1>4, <1>6, <2>1 DEF RedoInv, Quiet
<1>9. MemInv'
  BY <1>1, <1>2 DEF IInv, MemInv, Quiet
<1>10. Ops' = Ops
  BY <1>1 DEF Ops, lsmVars, lsmDisk, lsmMem, Calls
<1>11. CallInv'
  <2>1. ASSUME NEW i \in DOMAIN wal', wal'[i].kind = "index"
        PROVE  \E k \in DOMAIN Log : k > base /\ Log[k] = wal'[i].entry
    BY <1>1, <1>3, <2>1 DEF IInv, CallInv, Calls
  <2>2. pc \in Calls
    BY <1>1 DEF Calls
  <2>3. QED
    BY <1>1, <1>2, <1>10, <2>1, <2>2 DEF IInv, CallInv, Quiet
<1>12. LidInv'
  BY <1>1, <1>2, QuietLids DEF IInv
<1>13. QED
  BY <1>5, <1>7, <1>8, <1>9, <1>11, <1>12 DEF Rest

LEMMA CommitTailKeeps ==
    ASSUME IInv, CommitTail
    PROVE  Rest'
<1>1. /\ pc = "committed" /\ pc' \in {"flushing", "confirming"}
      /\ wal' = Append(wal, Record("commit", sbTxid, NoFrame))
      /\ base' = base /\ todo' = todo /\ sbTxid' = sbTxid /\ UNCHANGED lsmVars
  BY DEF CommitTail
<1>2. Quiet
  BY <1>1, QuietIs
<1>3. /\ wal' # << >>
      /\ \A i \in DOMAIN wal : i \in DOMAIN wal' /\ wal'[i] = wal[i]
      /\ \E i \in DOMAIN wal' : wal'[i].kind = "commit" /\ wal'[i].txid = sbTxid
      /\ \A i \in DOMAIN wal' : \/ i \in DOMAIN wal /\ wal'[i] = wal[i]
                                \/ wal'[i].kind = "commit" /\ wal'[i].txid = sbTxid
      /\ "commit" # "index"
  <2>1. sbTxid \in Nat /\ "commit" \in {"begin", "prepare", "commit"}
    BY TxidIs DEF IInv, Types
  <2>2. QED
    BY <1>1, <2>1, PlainAppended DEF IInv, Types
<1>4. \A i \in DOMAIN wal' : wal'[i].txid = sbTxid
  BY <1>1, <1>3 DEF IInv, WalInv, After
<1>5. LogInv'
  BY <1>1, <1>2 DEF IInv, LogInv, Quiet, Begun, Calls, Recovering
<1>6. WalInv'
  <2>1. \A i \in DOMAIN wal' : wal'[i].kind = "index" => wal'[i].entry.txid = wal'[i].txid
    BY <1>3 DEF IInv, WalInv
  <2>2. Holds("prepare", sbTxid)'
    BY <1>1, <1>2, <1>3 DEF IInv, WalInv, Holds
  <2>3. QED
    BY <1>1, <1>2, <1>3, <1>4, <2>1, <2>2 DEF WalInv, Quiet, After, Begun, Calls
<1>7. RedoInv'
  <2>1. todo = << >>
    BY <1>1 DEF IInv, RedoInv
  <2>2. \A e : Shows(e)' <=> Shows(e)
    BY <1>2 DEF Shows, Quiet
  <2>3. ASSUME NEW i \in DOMAIN wal', wal'[i].kind = "index" PROVE Shows(wal'[i].entry)
    BY <1>3, <1>4, <2>3 DEF IInv, RedoInv
  <2>4. QED
    BY <1>1, <1>2, <2>1, <2>3 DEF RedoInv, Quiet, Shows
<1>8. MemInv'
  BY <1>1, <1>2 DEF IInv, MemInv, Quiet
<1>9. CallInv'
  BY <1>1 DEF CallInv, Calls
<1>10. LidInv'
  BY <1>1, <1>2, QuietLids DEF IInv
<1>11. QED
  BY <1>5, <1>6, <1>7, <1>8, <1>9, <1>10 DEF Rest

LEMMA LockKeeps ==
    ASSUME IInv, Lock
    PROVE  Rest'
<1>1. /\ pc \in {"idle", "stuck"} /\ pc' = "locking" /\ (wal' = << >> \/ wal' = wal)
      /\ base' = base /\ todo' = todo /\ sbTxid' = sbTxid /\ UNCHANGED lsmVars
  BY DEF Lock, Settled
<1>2. Quiet
  BY <1>1, QuietIs
<1>3. todo = << >>
  BY <1>1 DEF IInv, RedoInv
<1>4. LogInv'
  BY <1>1, <1>2 DEF IInv, LogInv, Quiet, Begun, Calls, Recovering
<1>5. WalInv' /\ RedoInv'
  <2>1. CASE wal' = << >>
    BY <1>1, <1>3, <2>1, NoWal DEF Begun, Calls
  <2>2. CASE wal' = wal
    <3>1. \A i \in DOMAIN wal : wal[i].txid = sbTxid
      BY <1>1 DEF IInv, WalInv, After
    <3>2. WalInv'
      BY <1>1, <1>2, <2>2, <3>1 DEF IInv, WalInv, Quiet, Holds, After, Begun, Calls
    <3>3. RedoInv'
      BY <1>1, <1>2, <1>3, <2>2, SameWal DEF IInv
    <3>4. QED
      BY <3>2, <3>3
  <2>3. QED
    BY <1>1, <2>1, <2>2
<1>6. MemInv'
  BY <1>1, <1>2 DEF IInv, MemInv, Quiet
<1>7. CallInv'
  BY <1>1 DEF CallInv, Calls
<1>8. LidInv'
  BY <1>1, <1>2, QuietLids DEF IInv
<1>9. QED
  BY <1>4, <1>5, <1>6, <1>7, <1>8 DEF Rest

LEMMA RecoverMarkKeeps ==
    ASSUME IInv, RecoverMark
    PROVE  Rest'
<1>1. /\ pc = "marking" /\ pc' = "settling" /\ wal' = wal
      /\ base' = base /\ todo' = todo /\ sbTxid' = sbTxid /\ UNCHANGED lsmVars
  BY DEF RecoverMark
<1>2. Quiet
  BY <1>1, QuietIs
<1>3. LogInv'
  BY <1>1, <1>2 DEF IInv, LogInv, Quiet, Begun, Calls, Recovering, Groups
<1>4. WalInv'
  BY <1>1, <1>2 DEF IInv, WalInv, Quiet, Holds, After, Begun, Calls
<1>5. RedoInv'
  BY <1>1, <1>2, SameWal DEF IInv, RedoInv
<1>6. MemInv'
  BY <1>1, <1>2 DEF IInv, MemInv, Quiet
<1>7. CallInv'
  BY <1>1 DEF CallInv, Calls
<1>8. LidInv'
  BY <1>1, <1>2, QuietLids DEF IInv
<1>9. QED
  BY <1>3, <1>4, <1>5, <1>6, <1>7, <1>8 DEF Rest

\* An operation: the entry is fresh, or it deletes what the call deletes.
LEMMA OperateKeeps ==
    ASSUME ~ResidueAligns, IInv, Types', NEW e \in Entries, Operate(e), e.txid = Txid,
           \A k \in DOMAIN Log : k > base /\ Log[k].lid = e.lid => Log[k].val = e.val,
           e.val # Gone => e.lid \notin DOMAIN Committed
    PROVE  Rest' /\ Ops' = Append(Ops, e) /\ Committed' = Committed
<1>1. /\ pc = "active" /\ Put(e) /\ pc' = "logging" /\ base' = base /\ todo' = todo
      /\ wal' = wal /\ sbTxid' = sbTxid
  BY DEF Operate
<1>2. cursor = Len(Log) /\ (readonly \/ mem = Newest(Log, {}))
  BY <1>1 DEF IInv, LogInv, MemInv
<1>3. /\ Log' = Append(Log, e) /\ cursor' = Len(Log) + 1
      /\ Tables' = Tables /\ mem' = Newest(Log', {}) /\ ~readonly' /\ Txid' = Txid
      /\ Session' = Over(One(e), Session) /\ Committed' = Committed
      /\ maxLid' >= maxLid /\ maxLid' >= e.lid
  <2>1. IndexTypes
    BY DEF IInv, Types
  <2>2. /\ Log' = Append(Log, e) /\ cursor' = Len(Log) + 1
        /\ Tables' = Tables /\ mem' = Newest(Log', {}) /\ ~readonly' /\ Txid' = Txid
        /\ Session' = Over(One(e), Session)
        /\ Committed' = IF e.txid = Txid THEN Committed ELSE Over(One(e), Committed)
        /\ maxLid' >= maxLid /\ maxLid' >= e.lid
    BY <1>1, <1>2, <2>1, PutDoes
  <2>3. QED
    BY <2>2
<1>4. /\ Log \in Seq(Entries) /\ Len(Log) \in Nat /\ DOMAIN Log = 1 .. Len(Log)
  BY ShownTyped DEF IInv, Types
<1>5. PICK more : more = Log'
  OBVIOUS
<1>6. /\ DOMAIN more = 1 .. (Len(Log) + 1) /\ Len(more) = Len(Log) + 1
      /\ more \in Seq(Entries)
      /\ \A i \in DOMAIN Log : i \in DOMAIN more /\ more[i] = Log[i]
      /\ Len(Log) + 1 \in DOMAIN more /\ more[Len(Log) + 1] = e
      /\ \A i \in DOMAIN more : (i \in DOMAIN Log /\ more[i] = Log[i]) \/ (i = Len(Log) + 1 /\ more[i] = e)
  BY <1>3, <1>4, <1>5
<1>7. base \in Nat /\ base <= Len(Log) /\ Len(Log) + 1 > base
  BY <1>2, <1>4 DEF IInv, Types, TxnTypes
<1>8. Txid \in Nat /\ Txid # sbTxid
  BY TxidIs DEF IInv, Types
<1>9. LogInv'
  <2>1. cursor' = Len(more)
    BY <1>3, <1>6
  <2>2. \A i \in DOMAIN more : more[i].txid <= Txid
    BY <1>6, <1>8 DEF IInv, LogInv
  <2>3. \A i \in DOMAIN more : i > base <=> more[i].txid = Txid
    BY <1>1, <1>6, <1>7 DEF IInv, LogInv, Begun, Calls
  <2>4. Begun'
    BY <1>1 DEF Begun, Calls
  <2>5. QED
    BY <1>1, <1>3, <1>5, <2>1, <2>2, <2>3, <2>4 DEF LogInv
<1>10. WalInv'
  BY <1>1, <1>3 DEF IInv, WalInv, Holds, Begun, Calls, After
<1>11. RedoInv'
  <2>1. todo = << >>
    BY <1>1 DEF IInv, RedoInv
  <2>2. \A i \in DOMAIN wal : wal[i].txid = Txid
    BY <1>1 DEF IInv, WalInv, Begun, Calls
  <2>3. QED
    BY <1>1, <1>8, <2>1, <2>2 DEF RedoInv
<1>12. MemInv'
  BY <1>1, <1>3 DEF MemInv
<1>13. Ops' = Append(Ops, e)
  <2>1. /\ Ops \in Seq(Entries) /\ Len(Ops) = Len(Log) - base /\ base <= Len(Log)
        /\ \A i \in DOMAIN Ops : base + i \in DOMAIN Log /\ base + i > base /\ Ops[i] = Log[base + i]
        /\ \A k \in DOMAIN Log : k > base =>
              k - base \in DOMAIN Ops /\ Ops[k - base] = Log[k]
    BY <1>1, OpsAre DEF IInv, Calls
  <2>2. PICK q, o : q = Append(Ops, e) /\ o = Ops
    OBVIOUS
  <2>3. /\ o \in Seq(Entries) /\ Len(o) = Len(Log) - base /\ Len(o) \in Nat
        /\ DOMAIN o = 1 .. (Len(Log) - base)
        /\ \A i \in DOMAIN o : base + i \in DOMAIN Log /\ o[i] = Log[base + i]
    BY <1>4, <1>7, <2>1, <2>2
  <2>4. /\ q \in Seq(Entries) /\ Len(q) = Len(Log) + 1 - base
        /\ \A i \in DOMAIN o : q[i] = o[i]
        /\ q[Len(Log) - base + 1] = e
        /\ DOMAIN q = 1 .. (Len(Log) + 1 - base)
    BY <1>4, <1>7, <2>2, <2>3
  <2>5. PICK fs : fs = frames'
    OBVIOUS
  <2>6. /\ fs \in Seq(Frames) /\ Len(Log) + 1 \in 0 .. Len(fs)
        /\ \A i \in 1 .. (Len(Log) + 1) : fs[i] = more[i]
    <3>1. /\ Chain(fs) = more /\ fs \in Seq(Frames)
      BY <1>5, <2>5 DEF Log, Types, IndexTypes
    <3>2. /\ Chain(fs) \in Seq(Entries) /\ Len(Chain(fs)) \in Nat
          /\ Len(Chain(fs)) <= Len(fs)
          /\ \A i \in 1 .. Len(Chain(fs)) : Chain(fs)[i] = fs[i]
      BY <3>1, ChainTyped
    <3>3. Len(fs) \in Nat
      BY <3>1
    <3>4. QED
      BY <1>4, <1>6, <3>1, <3>2, <3>3
  <2>7. PICK n \in 0 .. Len(fs) : n = Len(Log) + 1
    BY <2>6
  <2>8. PICK b \in 0 .. n : b = base
    BY <1>4, <1>7, <2>7
  <2>9. PICK p : p = SubSeq(fs, b + 1, n)
    OBVIOUS
  <2>10. /\ SubSeq(fs, b + 1, n) \in Seq(Frames) /\ Len(SubSeq(fs, b + 1, n)) = n - b
         /\ \A i \in 1 .. (n - b) : SubSeq(fs, b + 1, n)[i] = fs[b + i]
    BY <2>6, Piece
  <2>11. /\ p \in Seq(Frames) /\ Len(p) = Len(Log) + 1 - base
         /\ \A i \in 1 .. (Len(Log) + 1 - base) : p[i] = fs[base + i]
    BY <2>7, <2>8, <2>9, <2>10
  <2>12. ASSUME NEW i \in 1 .. (Len(Log) + 1 - base) PROVE p[i] = q[i]
    <3>1. base + i \in 1 .. (Len(Log) + 1) /\ p[i] = more[base + i]
      BY <1>4, <1>7, <2>6, <2>11
    <3>2. CASE i = Len(Log) + 1 - base
      <4>1. base + i = Len(Log) + 1 /\ i = Len(Log) - base + 1
        BY <1>4, <1>7, <3>2
      <4>2. QED
        BY <1>6, <2>4, <3>1, <4>1
    <3>3. CASE i # Len(Log) + 1 - base
      <4>1. i \in DOMAIN o
        BY <1>4, <1>7, <2>3, <3>3
      <4>2. q[i] = Log[base + i] /\ more[base + i] = Log[base + i]
        BY <1>6, <2>3, <2>4, <4>1
      <4>3. QED
        BY <3>1, <4>2
    <3>4. QED
      BY <3>2, <3>3
  <2>13. p = q
    <3>1. p = [i \in 1 .. Len(p) |-> p[i]] /\ q = [i \in 1 .. Len(q) |-> q[i]]
      BY <2>4, <2>11
    <3>2. Len(p) = Len(q) /\ Len(p) = Len(Log) + 1 - base
      BY <2>4, <2>11
    <3>3. QED
      BY <2>12, <3>1, <3>2
  <2>14. Ops' = SubSeq(fs, base + 1, cursor')
    BY <1>1, <2>5 DEF Ops, Calls
  <2>15. QED
    BY <1>3, <2>2, <2>7, <2>8, <2>9, <2>13, <2>14
<1>14. CallInv'
  <2>0. pc \in Calls
    BY <1>1 DEF Calls
  <2>1. \A i \in DOMAIN wal : wal[i].kind = "index" =>
           \E k \in DOMAIN more : k > base /\ more[k] = wal[i].entry
    BY <1>6, <2>0 DEF IInv, CallInv
  <2>2. \A j, k \in DOMAIN more :
           j > base /\ k > base /\ more[j].lid = more[k].lid => more[j].val = more[k].val
    BY <1>6, <2>0 DEF IInv, CallInv
  <2>3. \A k \in DOMAIN more :
           k > base /\ more[k].val # Gone => more[k].lid \notin DOMAIN Committed
    BY <1>6, <2>0 DEF IInv, CallInv
  <2>4. Present(Session') = Promise!Applied(Present(Committed'), Ops')
    <3>1. PICK s, c : s = Session /\ c = Present(Committed)
      OBVIOUS
    <3>2. Present(Over([l \in {e.lid} |-> e.val], s)) = Promise!Effect(Present(s), e)
      BY EffectShows
    <3>3. PICK o \in Seq(Entries) : o = Ops
      BY <2>0, OpsAre DEF IInv
    <3>4. Promise!Applied(c, Append(o, e)) = Promise!Effect(Promise!Applied(c, o), e)
      BY AppliedOneMore
    <3>5. Present(s) = Promise!Applied(c, o)
      BY <2>0, <3>1, <3>3 DEF IInv, CallInv
    <3>6. Present(Session') = Promise!Effect(Present(s), e)
      BY <1>3, <3>1, <3>2 DEF One
    <3>7. Promise!Applied(Present(Committed'), Ops') = Promise!Applied(c, Append(o, e))
      BY <1>3, <1>13, <3>1, <3>3
    <3>8. QED
      BY <3>4, <3>5, <3>6, <3>7
  <2>5. QED
    BY <1>1, <1>3, <1>5, <2>1, <2>2, <2>3, <2>4 DEF CallInv
<1>15. LidInv'
  <2>1. DOMAIN Session' = {e.lid} \cup DOMAIN Session
    BY <1>3 DEF Over, One
  <2>2. \A l \in DOMAIN Session : l <= maxLid
    BY <1>1 DEF IInv, LidInv
  <2>3. DOMAIN Session \subseteq 1 .. MaxLid /\ maxLid \in Nat /\ maxLid' \in Nat /\ e.lid \in Nat
    BY ShownTyped, TableIs, Bounds DEF IInv, Types, IndexTypes, Entries
  <2>4. \A l \in DOMAIN Session' : l <= maxLid'
    BY <1>3, <2>1, <2>2, <2>3, Bounds
  <2>5. QED
    BY <2>4 DEF LidInv
<1>16. QED
  BY <1>3, <1>9, <1>10, <1>11, <1>12, <1>13, <1>14, <1>15 DEF Rest

\* The ids in the log are ids the session knows.
LEMMA LogKnown ==
    ASSUME IndexTypes, NEW k \in DOMAIN Log
    PROVE  Log[k].lid \in DOMAIN Session
<1>1. PICK es \in Seq(Entries) : es = Log
  BY ShownTyped
<1>2. IsNewest(Newest(es, {}), es, {})
  BY NewestIs
<1>3. PICK n : n = Newest(es, {})
  OBVIOUS
<1>4. IsNewest(n, es, {})
  BY <1>2, <1>3
<1>5. es[k].lid \in DOMAIN n
  BY <1>1, <1>4 DEF IsNewest
<1>6. DOMAIN Session = DOMAIN n \cup DOMAIN Tables
  BY <1>1, <1>3 DEF Session, Over
<1>7. QED
  BY <1>1, <1>5, <1>6

LEMMA AddKeeps ==
    ASSUME ~ResidueAligns, IInv, Types', NEW v \in Vals, Add(v)
    PROVE  Rest' /\ Committed' = Committed /\ \E e \in Entries : Ops' = Append(Ops, e)
<1>1. PICK e : e = [lid |-> maxLid + 1, txid |-> Txid, val |-> v]
  OBVIOUS
<1>2. Operate(e) /\ pc = "active" /\ maxLid + 1 \in 1 .. MaxLid /\ v \in Versions
  BY <1>1, Bounds DEF Add, Operate, Versions, IInv, Types, IndexTypes
<1>3. e \in Entries /\ e.txid = Txid /\ e.lid = maxLid + 1
  BY <1>1, <1>2, OperationTyped DEF IInv
<1>4. ASSUME NEW l \in DOMAIN Session PROVE l # e.lid
  <2>1. l <= maxLid
    BY <1>2 DEF IInv, LidInv
  <2>2. maxLid \in Nat
    BY Bounds DEF IInv, Types, IndexTypes
  <2>3. l \in 1 .. MaxLid
    BY ShownTyped, TableIs DEF IInv, Types
  <2>4. QED
    BY <1>3, <2>1, <2>2, <2>3, Bounds
<1>5. e.lid \notin DOMAIN Committed
  BY <1>4, CommittedFewer DEF IInv, Types
<1>6. \A k \in DOMAIN Log : Log[k].lid # e.lid
  BY <1>4, LogKnown DEF IInv, Types
<1>7. QED
  BY <1>2, <1>3, <1>5, <1>6, OperateKeeps

LEMMA DeleteKeeps ==
    ASSUME ~ResidueAligns, IInv, Types', NEW l \in 1 .. MaxLid, Delete(l)
    PROVE  Rest' /\ Committed' = Committed /\ \E e \in Entries : Ops' = Append(Ops, e)
<1>1. PICK e : e = [lid |-> l, txid |-> Txid, val |-> Gone]
  OBVIOUS
<1>2. Operate(e) /\ pc = "active" /\ Deletes /\ Gone \in Versions
  BY <1>1 DEF Delete, Operate, Versions
<1>3. e \in Entries /\ e.txid = Txid /\ e.val = Gone
  BY <1>1, <1>2, OperationTyped DEF IInv
<1>4. ASSUME NEW k \in DOMAIN Log, k > base PROVE Log[k].val = e.val
  <2>1. k - base \in DOMAIN Ops /\ Ops[k - base] = Log[k]
    BY <1>2, <1>4, OpsAre DEF IInv, Calls
  <2>2. QED
    BY <1>2, <1>3, <2>1 DEF Deletes
<1>5. QED
  BY <1>2, <1>3, <1>4, OperateKeeps

-----------------------------------------------------------------------------
(* Steps that change the tables or the log.                                   *)

LEMMA SameShown ==
    ASSUME RedoInv, Committed' = Committed, wal' = wal, todo' = todo, sbTxid' = sbTxid,
           pc' # "replaying" => todo = << >>
    PROVE  RedoInv'
<1>1. \A e : Shows(e)' <=> Shows(e)
  BY DEF Shows
<1>2. QED
  BY DEF RedoInv, Shows

LEMMA FewerLids ==
    ASSUME LidInv, pc # "down", DOMAIN Session' \subseteq DOMAIN Session, maxLid' = maxLid
    PROVE  LidInv'
  BY DEF LidInv

\* What a flush writes is what a restart would show.
LEMMA MemIs ==
    ASSUME IInv, pc \in {"flushing", "locking", "settling"}, mem # << >>
    PROVE  mem = Newest(Log, {Txid})
<1>1. CASE pc = "settling"
  BY <1>1 DEF IInv, MemInv
<1>2. CASE pc \in {"flushing", "locking"}
  <2>1. \A i \in DOMAIN Log : Log[i].txid # Txid
    BY <1>2, NoTxid DEF IInv, Begun, Calls, Recovering
  <2>2. mem = Newest(Log, {})
    BY <1>2 DEF IInv, MemInv
  <2>3. QED
    BY <2>1, <2>2, SettledSame DEF IInv, Types
<1>3. QED
  BY <1>1, <1>2

LEMMA CommitFlushKeeps ==
    ASSUME IInv, CommitFlush
    PROVE  Rest' /\ Committed' = Committed
<1>1. /\ pc = "flushing" /\ pc' = "confirming" /\ wal' = wal
      /\ base' = base /\ todo' = todo /\ sbTxid' = sbTxid
      /\ Flush \/ FlushNoMemory \/ UNCHANGED lsmVars
  BY DEF CommitFlush
<1>2. \A i \in DOMAIN Log : Log[i].txid # Txid
  BY <1>1, NoTxid DEF IInv, Begun, Calls, Recovering
<1>3. IndexTypes /\ cursor = Len(Log) /\ Txid' = Txid /\ todo = << >>
  BY <1>1 DEF IInv, Types, LogInv, RedoInv, Txid
<1>4. Committed = Session
  BY <1>2, <1>3, SettledSame
<1>5. WalInv'
  BY <1>1, <1>3 DEF IInv, WalInv, Holds, After, Begun, Calls
<1>6. CallInv'
  BY <1>1 DEF CallInv, Calls
<1>7. CASE Flush
  <2>1. mem = Newest(Log, {Txid})
    BY <1>1, <1>7, MemIs DEF Flush, TableWritten
  <2>2. /\ Log' = << >> /\ cursor' = 0 /\ mem' = << >>
        /\ readonly' = readonly /\ maxLid' = maxLid /\ Txid' = Txid
        /\ Tables' = Committed /\ Committed' = Committed /\ Session' = Committed
    BY <1>1, <1>3, <1>7, <2>1, FlushDoes
  <2>3. DOMAIN Log' = {} /\ Len(Log') = 0
    BY <2>2
  <2>4. LogInv'
    BY <1>1, <2>2, <2>3 DEF LogInv, Begun, Calls
  <2>5. Newest(Log', {}) = << >>
    BY <2>2, NewestEmpty
  <2>6. MemInv'
    BY <1>1, <2>2, <2>3, <2>5 DEF MemInv
  <2>7. RedoInv'
    BY <1>1, <1>3, <2>2, SameShown DEF IInv
  <2>8. LidInv'
    BY <1>1, <1>4, <2>2, FewerLids DEF IInv
  <2>9. QED
    BY <1>5, <1>6, <2>2, <2>4, <2>6, <2>7, <2>8 DEF Rest
<1>8. CASE FlushNoMemory
  <2>1. /\ TableWritten /\ mem' = << >> /\ readonly' = TRUE /\ frames' = frames
        /\ cursor' = cursor /\ maxLid' = maxLid
    BY <1>8 DEF FlushNoMemory
  <2>2. mem = Newest(Log, {Txid})
    BY <1>1, <2>1, MemIs DEF TableWritten
  <2>3. /\ Log' = Log /\ Tables' = Committed /\ Committed' = Committed /\ Txid' = Txid
        /\ Session' = Committed
    BY <1>1, <1>2, <1>3, <2>1, <2>2, TableKept
  <2>4. LogInv'
    BY <1>1, <1>2, <2>1, <2>3 DEF IInv, LogInv, Begun, Calls
  <2>5. MemInv'
    BY <1>1, <1>2, <2>1, <2>3 DEF MemInv
  <2>6. RedoInv'
    BY <1>1, <1>3, <2>3, SameShown DEF IInv
  <2>7. LidInv'
    BY <1>1, <1>4, <2>1, <2>3, FewerLids DEF IInv
  <2>8. QED
    BY <1>5, <1>6, <2>3, <2>4, <2>5, <2>6, <2>7 DEF Rest
<1>9. CASE UNCHANGED lsmVars
  <2>1. Quiet
    BY <1>1, <1>9, QuietIs
  <2>2. LogInv'
    BY <1>1, <1>2, <2>1 DEF IInv, LogInv, Quiet, Begun, Calls
  <2>3. MemInv'
    BY <1>1, <2>1 DEF IInv, MemInv, Quiet
  <2>4. RedoInv'
    BY <1>1, <1>3, <2>1, SameWal DEF IInv
  <2>5. LidInv'
    BY <1>1, <2>1, QuietLids DEF IInv
  <2>6. QED
    BY <1>5, <1>6, <2>1, <2>2, <2>3, <2>4, <2>5 DEF Rest, Quiet
<1>10. QED
  BY <1>1, <1>7, <1>8, <1>9

LEMMA UnlockKeeps ==
    ASSUME IInv, Unlock
    PROVE  Rest' /\ Committed' = Committed
<1>1. /\ pc = "down" /\ pc' = "replaying" /\ wal' = wal /\ Open /\ todo' = Redo
      /\ base' = base /\ sbTxid' = sbTxid
  BY DEF Unlock
<1>2. /\ Log' = Log /\ Tables' = Tables /\ Session' = Session
      /\ Txid' = Txid /\ Committed' = Committed
      /\ cursor' = Len(Log) /\ mem' = Newest(Log, {}) /\ ~readonly'
      /\ \A l \in DOMAIN Session : l <= maxLid'
  BY <1>1, OpenDoes DEF IInv, Types
<1>3. LogInv'
  BY <1>1, <1>2 DEF IInv, LogInv, Groups, Begun, Calls, Recovering
<1>4. WalInv'
  BY <1>1, <1>2 DEF IInv, WalInv, Holds, After, Begun, Calls
<1>5. MemInv'
  BY <1>1, <1>2 DEF MemInv
<1>6. RedoInv'
  <2>1. \A i \in DOMAIN Redo : Redo[i].txid = sbTxid /\ Shows(Redo[i])
    BY RedoShows DEF IInv
  <2>2. \A i \in DOMAIN todo' : todo'[i].txid = sbTxid /\ Shows(todo'[i])
    BY <1>1, <2>1
  <2>3. QED
    BY <1>1, <1>2, <2>2 DEF IInv, RedoInv, Shows
<1>7. CallInv'
  BY <1>1 DEF CallInv, Calls
<1>8. LidInv'
  BY <1>2 DEF LidInv
<1>9. QED
  BY <1>2, <1>3, <1>4, <1>5, <1>6, <1>7, <1>8 DEF Rest

\* Only the entries of the transaction under way are cut off.
LEMMA RollbackIndexKeeps ==
    ASSUME IInv, RollbackIndex
    PROVE  Rest' /\ Committed' = Committed
<1>1. /\ pc = "aborting" /\ pc' = "resetting" /\ wal' = wal /\ Truncate(base, Txid)
      /\ base' = base /\ todo' = todo /\ sbTxid' = sbTxid
  BY DEF RollbackIndex
<1>2. /\ IndexTypes /\ cursor = Len(Log) /\ base \in Nat /\ todo = << >>
      /\ \A i \in DOMAIN Log : i > base <=> Log[i].txid = Txid
  BY <1>1 DEF IInv, Types, TxnTypes, LogInv, RedoInv, Begun
<1>3. /\ base <= Len(Log) /\ Log' = SubSeq(Log, 1, base) /\ cursor' = base
      /\ Tables' = Tables /\ Committed' = Committed /\ Txid' = Txid
      /\ mem' = Newest(Log', {Txid}) /\ readonly' = readonly /\ maxLid' = maxLid
  BY <1>1, <1>2, TruncateDoes
<1>4. PICK c, d : c = Log /\ d = Log'
  OBVIOUS
<1>5. /\ c \in Seq(Entries) /\ Len(c) \in Nat /\ DOMAIN c = 1 .. Len(c) /\ base \in 0 .. Len(c)
  BY <1>2, <1>3, <1>4, ShownTyped
<1>6. /\ d \in Seq(Entries) /\ Len(d) = base /\ DOMAIN d = 1 .. base
      /\ \A i \in DOMAIN d : i \in DOMAIN c /\ d[i] = c[i]
  BY <1>3, <1>4, <1>5
<1>7. \A i \in DOMAIN d : ~(i > base) /\ d[i].txid # Txid
  BY <1>2, <1>4, <1>5, <1>6
<1>8. LogInv'
  <2>1. \A i \in DOMAIN d : d[i].txid <= Txid
    BY <1>4, <1>6 DEF IInv, LogInv
  <2>2. cursor' = Len(d) /\ cursor' = base
    BY <1>3, <1>6
  <2>3. \A i \in DOMAIN d : i > base <=> d[i].txid = Txid
    BY <1>7
  <2>4. QED
    BY <1>1, <1>3, <1>4, <1>7, <2>1, <2>2, <2>3 DEF LogInv
<1>9. WalInv'
  BY <1>1, <1>3 DEF IInv, WalInv, Holds, After, Begun, Calls
<1>10. Newest(d, {Txid}) = Newest(d, {})
  <2>1. PICK one : one = {Txid}
    OBVIOUS
  <2>2. \A i \in DOMAIN d : d[i].txid \in one <=> d[i].txid \in {}
    BY <1>7, <2>1
  <2>3. Newest(d, one) = Newest(d, {})
    BY <1>6, <2>2, NewestSame
  <2>4. QED
    BY <2>1, <2>3
<1>11. Session' = Committed
  <2>1. Session' = Over(Newest(d, {}), Tables')
    BY <1>4 DEF Session
  <2>2. Committed' = Over(Newest(d, {Txid'}), Tables')
    BY <1>4 DEF Committed
  <2>3. QED
    BY <1>3, <1>10, <2>1, <2>2
<1>12. MemInv'
  <2>1. mem' = Newest(d, {})
    BY <1>3, <1>4, <1>10
  <2>2. ASSUME readonly PROVE Session' = Tables'
    <3>1. Session = Tables /\ \A i \in DOMAIN Log : Log[i].txid # Txid
      BY <2>2 DEF IInv, MemInv
    <3>2. Committed = Session
      BY <1>2, <3>1, SettledSame
    <3>3. QED
      BY <1>3, <1>11, <3>1, <3>2
  <2>3. QED
    BY <1>1, <1>3, <1>4, <1>7, <2>1, <2>2 DEF MemInv
<1>13. RedoInv'
  BY <1>1, <1>2, <1>3, SameShown DEF IInv
<1>14. CallInv'
  BY <1>1 DEF CallInv, Calls
<1>15. LidInv'
  BY <1>1, <1>2, <1>3, <1>11, CommittedFewer, FewerLids DEF IInv
<1>16. QED
  BY <1>3, <1>8, <1>9, <1>12, <1>13, <1>14, <1>15 DEF Rest

\* The process ends: the tables may have what a restart would show as well.
LEMMA DownKeeps ==
    ASSUME IInv, pc # "down", Down,
           \/ UNCHANGED lsmDisk
           \/ pc = "locking" /\ TableWritten /\ frames' = Severed(frames, 0)
           \/ pc \in {"flushing", "locking", "settling"} /\ TableWritten /\ UNCHANGED frames
    PROVE  Rest' /\ Committed' = Committed
<1>1. /\ mem' = << >> /\ cursor' = 0 /\ maxLid' = 0 /\ readonly' = FALSE
      /\ pc' = "down" /\ base' = 0 /\ todo' = << >> /\ wal' = wal /\ sbTxid' = sbTxid
  BY DEF Down, Forget
<1>2. IndexTypes /\ Txid' = Txid
  BY <1>1 DEF IInv, Types, Txid
<1>3. (Log' = Log \/ Log' = << >>) /\ Committed' = Committed
  <2>1. CASE UNCHANGED lsmDisk
    BY <1>1, <2>1, SameDisk
  <2>2. CASE pc = "locking" /\ TableWritten /\ frames' = Severed(frames, 0)
    <3>1. mem = Newest(Log, {Txid})
      BY <2>2, MemIs DEF TableWritten
    <3>2. Log' = << >>
      BY <1>2, <2>2, CutTyped DEF Log
    <3>3. Tables' = Committed
      BY <1>2, <2>2, <3>1, TableDoes DEF Committed
    <3>4. PICK c \in AllTables : c = Committed
      BY <1>2, ShownTyped
    <3>5. Over(<< >>, c) = c
      BY NoTable, OverNothing
    <3>6. Newest(<< >>, {Txid}) = << >>
      BY NewestEmpty
    <3>7. Committed' = Over(Newest(Log', {Txid'}), Tables')
      BY DEF Committed
    <3>8. QED
      BY <1>2, <3>2, <3>3, <3>4, <3>5, <3>6, <3>7
  <2>3. CASE pc \in {"flushing", "locking", "settling"} /\ TableWritten /\ UNCHANGED frames
    <3>1. mem = Newest(Log, {Txid})
      BY <2>3, MemIs DEF TableWritten
    <3>2. QED
      BY <1>1, <1>2, <2>3, <3>1, TableKept
  <2>4. QED
    BY <2>1, <2>2, <2>3
<1>4. \A i \in DOMAIN Log' : i \in DOMAIN Log /\ Log'[i] = Log[i]
  BY <1>3
<1>5. Begun => Txid \in Groups
  BY DEF IInv, Types, TxnTypes, WalInv, Groups
<1>6. LogInv'
  <2>1. \A i \in DOMAIN Log : Log[i].txid <= Txid /\ (Log[i].txid = Txid => Txid \in Groups)
    BY <1>5 DEF IInv, LogInv
  <2>2. Groups' = Groups
    BY <1>1 DEF Groups
  <2>3. \A i \in DOMAIN Log' : Log'[i].txid <= Txid' /\ (Log'[i].txid = Txid' => Txid' \in Groups')
    BY <1>2, <1>4, <2>1, <2>2
  <2>4. ~Begun' /\ Recovering'
    BY <1>1 DEF Begun, Calls, Recovering
  <2>5. QED
    BY <1>1, <2>3, <2>4 DEF LogInv
<1>7. WalInv'
  BY <1>1, <1>2 DEF IInv, WalInv, Holds, After, Begun, Calls
<1>8. MemInv'
  BY <1>1 DEF MemInv
<1>9. RedoInv'
  <2>1. \A i \in DOMAIN wal :
           wal[i].kind = "index" /\ wal[i].txid = sbTxid =>
              /\ wal[i].entry.lid \in DOMAIN Committed'
              /\ Committed'[wal[i].entry.lid] = wal[i].entry.val
    BY <1>3 DEF IInv, RedoInv, Shows
  <2>2. DOMAIN todo' = {}
    BY <1>1
  <2>3. QED
    BY <1>1, <2>1, <2>2 DEF RedoInv, Shows
<1>10. CallInv' /\ LidInv'
  BY <1>1 DEF CallInv, Calls, LidInv
<1>11. QED
  BY <1>3, <1>6, <1>7, <1>8, <1>9, <1>10 DEF Rest

LEMMA CloseKeeps ==
    ASSUME IInv, Close
    PROVE  Rest' /\ Committed' = Committed
  BY DownKeeps DEF Close

LEMMA KillKeeps ==
    ASSUME IInv, Kill
    PROVE  Rest' /\ Committed' = Committed
  BY DownKeeps DEF Kill

LEMMA RecoverPutKeeps ==
    ASSUME ~ResidueAligns, IInv, Types', RecoverPut
    PROVE  Rest' /\ Committed' = Committed
<1>1. /\ pc = "replaying" /\ pc' = "replaying" /\ todo # << >> /\ Put(Head(todo))
      /\ todo' = Tail(todo) /\ wal' = wal /\ base' = base /\ sbTxid' = sbTxid
  BY DEF RecoverPut
<1>2. PICK t : t = todo
  OBVIOUS
<1>3. t \in Seq(Entries) /\ t # << >> /\ Len(t) \in Nat
  BY <1>1, <1>2 DEF IInv, Types, TxnTypes
<1>4. /\ 1 \in DOMAIN t /\ t[1] = Head(t) /\ Head(t) \in Entries
      /\ \A i \in DOMAIN Tail(t) : i + 1 \in DOMAIN t /\ Tail(t)[i] = t[i + 1]
  BY <1>3
<1>5. PICK e \in Entries : e = Head(t)
  BY <1>4
<1>6. e.txid = sbTxid /\ Shows(e) /\ \A i \in DOMAIN t : t[i].txid = sbTxid /\ Shows(t[i])
  BY <1>2, <1>4, <1>5 DEF IInv, RedoInv
<1>7. Txid # sbTxid /\ sbTxid <= Txid /\ Txid \in Nat
  BY TxidIs DEF IInv, Types
<1>8. IndexTypes /\ cursor = Len(Log) /\ mem = Newest(Log, {})
  BY <1>1 DEF IInv, Types, LogInv, MemInv
<1>9. Put(e)
  BY <1>1, <1>2, <1>5
<1>10. /\ Log' = Append(Log, e) /\ cursor' = Len(Log) + 1
       /\ Tables' = Tables /\ mem' = Newest(Log', {}) /\ ~readonly' /\ Txid' = Txid
       /\ Session' = Over(One(e), Session)
       /\ Committed' = IF e.txid = Txid THEN Committed ELSE Over(One(e), Committed)
       /\ maxLid' >= maxLid /\ maxLid' >= e.lid
  BY <1>1, <1>8, <1>9, PutDoes
<1>11. Committed' = Committed
  <2>1. PICK c \in AllTables : c = Committed
    BY <1>8, ShownTyped
  <2>2. PICK one : one = One(e)
    OBVIOUS
  <2>3. DOMAIN one = {e.lid} /\ one[e.lid] = e.val
    BY <2>2 DEF One
  <2>4. e.lid \in DOMAIN c /\ c[e.lid] = e.val
    BY <1>6, <2>1 DEF Shows
  <2>5. Over(one, c) = c
    BY <2>3, <2>4, OverAgain
  <2>6. QED
    BY <1>6, <1>7, <1>10, <2>1, <2>2, <2>5
<1>12. PICK d : d = Log'
  OBVIOUS
<1>13. /\ Len(d) = Len(Log) + 1
       /\ \A i \in DOMAIN d : (i \in DOMAIN Log /\ d[i] = Log[i]) \/ d[i] = e
  <2>1. PICK es \in Seq(Entries) : es = Log
    BY <1>8, ShownTyped
  <2>2. d = Append(es, e)
    BY <1>10, <1>12, <2>1
  <2>3. QED
    BY <2>1, <2>2
<1>14. LogInv'
  <2>1. \A i \in DOMAIN d : d[i].txid <= Txid /\ (d[i].txid = Txid => Txid \in Groups)
    BY <1>1, <1>6, <1>7, <1>13 DEF IInv, LogInv, Begun, Calls
  <2>2. Groups' = Groups /\ ~Begun' /\ Recovering'
    BY <1>1 DEF Groups, Begun, Calls, Recovering
  <2>3. QED
    BY <1>1, <1>10, <1>12, <1>13, <2>1, <2>2 DEF LogInv
<1>15. WalInv'
  BY <1>1, <1>10 DEF IInv, WalInv, Holds, After, Begun, Calls
<1>16. MemInv'
  BY <1>1, <1>10 DEF MemInv
<1>17. RedoInv'
  <2>1. \A i \in DOMAIN Tail(t) : Tail(t)[i].txid = sbTxid /\ Shows(Tail(t)[i])
    BY <1>4, <1>6
  <2>2. \A i \in DOMAIN todo' : todo'[i].txid = sbTxid /\ Shows(todo'[i])
    BY <1>1, <1>2, <2>1
  <2>3. QED
    BY <1>1, <1>11, <2>2 DEF IInv, RedoInv, Shows
<1>18. CallInv'
  BY <1>1 DEF CallInv, Calls
<1>19. LidInv'
  <2>1. DOMAIN Session' = {e.lid} \cup DOMAIN Session
    BY <1>10 DEF Over, One
  <2>2. \A l \in DOMAIN Session : l <= maxLid
    BY <1>1 DEF IInv, LidInv
  <2>3. DOMAIN Session \subseteq 1 .. MaxLid /\ maxLid \in Nat /\ maxLid' \in Nat /\ e.lid \in Nat
    BY ShownTyped, TableIs, Bounds DEF IInv, Types, IndexTypes, Entries
  <2>4. \A l \in DOMAIN Session' : l <= maxLid'
    BY <1>10, <2>1, <2>2, <2>3, Bounds
  <2>5. QED
    BY <2>4 DEF LidInv
<1>20. QED
  BY <1>11, <1>14, <1>15, <1>16, <1>17, <1>18, <1>19 DEF Rest

LEMMA RecoverExcludeKeeps ==
    ASSUME IInv, RecoverExclude
    PROVE  Rest' /\ Committed' = Committed
<1>1. /\ pc = "replaying" /\ pc' = "marking" /\ todo = << >> /\ todo' = todo
      /\ IF Discarded # {} THEN RebuildExcluding(Discarded) ELSE UNCHANGED lsmVars
      /\ wal' = wal /\ base' = base /\ sbTxid' = sbTxid
  BY DEF RecoverExclude
<1>2. UNCHANGED lsmDisk /\ maxLid' = maxLid /\ readonly' = readonly
  BY <1>1 DEF RebuildExcluding, lsmVars, lsmMem
<1>3. /\ Log' = Log /\ Tables' = Tables /\ Session' = Session /\ Txid' = Txid
      /\ Committed' = Committed
  BY <1>1, <1>2, SameDisk
<1>4. /\ cursor = Len(Log) /\ mem = Newest(Log, {}) /\ ~readonly
      /\ Discarded \subseteq {Txid} /\ (Txid \in Groups => Txid \in Discarded)
  BY <1>1, ClassesAre DEF IInv, LogInv, MemInv
<1>5. mem' = Newest(Log, {Txid}) /\ cursor' = Len(Log)
  <2>1. CASE Discarded # {}
    <3>1. Discarded = {Txid}
      BY <1>4, <2>1
    <3>2. mem' = Newest(Log, Discarded) /\ cursor' = Len(Log)
      BY <1>1, <2>1 DEF RebuildExcluding, Rebuild, Log
    <3>3. QED
      BY <3>1, <3>2
  <2>2. CASE Discarded = {}
    <3>1. \A i \in DOMAIN Log : Log[i].txid # Txid
      BY <1>1, <1>4, <2>2 DEF IInv, LogInv, Begun, Calls
    <3>2. Newest(Log, {Txid}) = Newest(Log, {})
      BY <3>1, SettledSame DEF IInv, Types
    <3>3. mem' = mem /\ cursor' = cursor
      BY <1>1, <2>2 DEF lsmVars, lsmMem
    <3>4. QED
      BY <1>4, <3>2, <3>3
  <2>3. QED
    BY <2>1, <2>2
<1>6. LogInv'
  BY <1>1, <1>3, <1>5 DEF IInv, LogInv, Groups, Begun, Calls, Recovering
<1>7. WalInv'
  BY <1>1, <1>3 DEF IInv, WalInv, Holds, After, Begun, Calls
<1>8. MemInv'
  BY <1>1, <1>2, <1>3, <1>4, <1>5 DEF MemInv
<1>9. RedoInv'
  BY <1>1, <1>3, SameShown DEF IInv
<1>10. CallInv'
  BY <1>1 DEF CallInv, Calls
<1>11. LidInv'
  BY <1>1, <1>2, <1>3, FewerLids DEF IInv
<1>12. QED
  BY <1>3, <1>6, <1>7, <1>8, <1>9, <1>10, <1>11 DEF Rest

\* The log is empty afterwards, whichever way it is settled.
LEMMA RecoverSettleKeeps ==
    ASSUME IInv, RecoverSettle
    PROVE  Rest' /\ Committed' = Committed
<1>1. /\ pc = "settling" /\ pc' = "emptying" /\ wal' = wal
      /\ base' = base /\ todo' = todo /\ sbTxid' = sbTxid
      /\ \/ Flush
         \/ /\ mem = << >> /\ Discarded # {} /\ cursor > 0
            /\ Truncate(0, Greatest(Discarded))
         \/ /\ mem = << >> /\ (Discarded = {} \/ cursor = 0)
            /\ UNCHANGED lsmVars
  BY DEF RecoverSettle
<1>2. /\ IndexTypes /\ cursor = Len(Log) /\ mem = Newest(Log, {Txid}) /\ ~readonly
      /\ todo = << >> /\ Txid' = Txid
      /\ Log \in Seq(Entries) /\ Len(Log) \in Nat /\ DOMAIN Log = 1 .. Len(Log)
  BY <1>1, ShownTyped DEF IInv, Types, LogInv, MemInv, RedoInv, Txid
<1>3. ASSUME mem = << >> PROVE \A i \in DOMAIN Log : Log[i].txid = Txid
  <2>1. PICK es, one : es = Log /\ one = {Txid}
    OBVIOUS
  <2>2. IsNewest(Newest(es, one), es, one)
    BY <1>2, <2>1, NewestIs
  <2>3. PICK n : n = Newest(es, one)
    OBVIOUS
  <2>4. n = << >> /\ IsNewest(n, es, one)
    BY <1>2, <1>3, <2>1, <2>2, <2>3
  <2>5. DOMAIN n = {}
    BY <2>4
  <2>6. \A i \in DOMAIN es : es[i].txid \in one
    BY <2>4, <2>5 DEF IsNewest
  <2>7. QED
    BY <2>1, <2>6
<1>4. /\ Log' = << >> /\ cursor' = 0 /\ mem' = << >> /\ readonly' = readonly
      /\ maxLid' = maxLid /\ Committed' = Committed /\ Session' = Committed
  <2>1. CASE Flush
    BY <1>1, <1>2, <2>1, FlushDoes
  <2>2. CASE mem = << >> /\ Truncate(0, Greatest(Discarded))
    <3>1. PICK t : t = Greatest(Discarded)
      OBVIOUS
    <3>2. /\ 0 <= Len(Log) /\ Log' = SubSeq(Log, 1, 0) /\ cursor' = 0
          /\ Tables' = Tables /\ Committed' = Committed /\ Txid' = Txid
          /\ mem' = Newest(Log', {t}) /\ readonly' = readonly /\ maxLid' = maxLid
      BY <1>1, <1>2, <1>3, <2>2, <3>1, TruncateDoes
    <3>3. Log' = << >>
      BY <1>2, <3>2
    <3>4. \A out : Newest(<< >>, out) = << >>
      BY NewestEmpty
    <3>5. mem' = << >>
      BY <3>2, <3>3, <3>4
    <3>6. Session' = Over(Newest(Log', {}), Tables') /\ Committed' = Over(Newest(Log', {Txid'}), Tables')
      BY DEF Session, Committed
    <3>7. Session' = Committed'
      BY <3>3, <3>4, <3>6
    <3>8. QED
      BY <3>2, <3>3, <3>5, <3>7
  <2>3. CASE mem = << >> /\ (Discarded = {} \/ cursor = 0) /\ UNCHANGED lsmVars
    <3>1. DOMAIN Log = {}
      <4>1. CASE cursor = 0
        BY <1>2, <4>1
      <4>2. CASE Discarded = {}
        <5>1. Txid \notin Groups
          BY <4>2, ClassesAre DEF IInv
        <5>2. \A i \in DOMAIN Log : Log[i].txid # Txid
          BY <1>1, <5>1 DEF IInv, LogInv, Begun, Calls
        <5>3. QED
          BY <1>3, <2>3, <5>2
      <4>3. QED
        BY <2>3, <4>1, <4>2
    <3>2. Log = << >> /\ cursor = 0
      BY <1>2, <3>1
    <3>3. Quiet
      BY <1>1, <2>3, QuietIs
    <3>4. \A i \in DOMAIN Log : Log[i].txid # Txid
      BY <3>1
    <3>5. Committed = Session
      BY <1>2, <3>4, SettledSame
    <3>6. QED
      BY <2>3, <3>2, <3>3, <3>5 DEF Quiet
  <2>4. QED
    BY <1>1, <2>1, <2>2, <2>3
<1>5. DOMAIN Log' = {} /\ Len(Log') = 0 /\ Newest(Log', {}) = << >>
  <2>1. Newest(<< >>, {}) = << >>
    BY NewestEmpty
  <2>2. QED
    BY <1>4, <2>1
<1>6. LogInv'
  BY <1>1, <1>4, <1>5 DEF LogInv, Begun, Calls
<1>7. WalInv'
  BY <1>1, <1>2 DEF IInv, WalInv, Holds, After, Begun, Calls
<1>8. MemInv'
  BY <1>1, <1>2, <1>4, <1>5 DEF MemInv
<1>9. RedoInv'
  BY <1>1, <1>2, <1>4, SameShown DEF IInv
<1>10. CallInv'
  BY <1>1 DEF CallInv, Calls
<1>11. LidInv'
  BY <1>1, <1>2, <1>4, CommittedFewer, FewerLids DEF IInv
<1>12. QED
  BY <1>4, <1>6, <1>7, <1>8, <1>9, <1>10, <1>11 DEF Rest

\* The commit of the superblock: what the call sees is what a restart shows.
LEMMA CommitKeeps ==
    ASSUME IInv, Commit
    PROVE  Rest' /\ Present(Committed') = Promise!Applied(Present(Committed), Ops)
<1>1. /\ pc = "prepared" /\ pc' = "committed" /\ wal' = wal /\ todo' = todo
      /\ base' = 0 /\ sbTxid' = Txid /\ UNCHANGED lsmVars
  BY DEF Commit
<1>2. /\ Log' = Log /\ Tables' = Tables /\ Session' = Session
      /\ mem' = mem /\ cursor' = cursor /\ maxLid' = maxLid /\ readonly' = readonly
  <2>1. UNCHANGED lsmDisk
    BY <1>1 DEF lsmVars
  <2>2. QED
    BY <1>1, <2>1, SameDisk DEF lsmVars, lsmMem
<1>3. /\ Txid \in Nat /\ Txid' = Txid + 1 /\ Txid # sbTxid
      /\ Log \in Seq(Entries) /\ Len(Log) \in Nat /\ DOMAIN Log = 1 .. Len(Log)
      /\ \A i \in DOMAIN Log : Log[i] \in Entries
  BY <1>1, TxidIs, ShownTyped DEF IInv, Types, Txid
<1>4. \A i \in DOMAIN Log : Log[i].txid <= Txid /\ Log[i].txid \in Nat
  BY <1>3 DEF IInv, LogInv, Entries
<1>5. \A i \in DOMAIN Log : Log[i].txid # Txid' /\ Log[i].txid <= Txid'
  BY <1>3, <1>4
<1>6. Committed' = Session
  <2>1. PICK es \in Seq(Entries) : es = Log
    BY <1>3
  <2>2. PICK one : one = {Txid'}
    OBVIOUS
  <2>3. \A i \in DOMAIN es : es[i].txid \in one <=> es[i].txid \in {}
    BY <1>5, <2>1, <2>2
  <2>4. Newest(es, one) = Newest(es, {})
    BY <2>3, NewestSame
  <2>5. Committed' = Over(Newest(Log', {Txid'}), Tables')
    BY DEF Committed
  <2>6. QED
    BY <1>2, <2>1, <2>2, <2>4, <2>5 DEF Session
<1>7. \A i \in DOMAIN wal : wal[i].txid = Txid
  BY <1>1 DEF IInv, WalInv, Begun, Calls
<1>8. LogInv'
  BY <1>1, <1>2, <1>5 DEF IInv, LogInv, Begun, Calls
<1>9. WalInv'
  <2>1. Holds("prepare", Txid)
    BY <1>1 DEF IInv, WalInv
  <2>2. Holds("prepare", sbTxid)'
    BY <1>1, <2>1 DEF Holds
  <2>3. QED
    BY <1>1, <1>7, <2>2 DEF IInv, WalInv, After, Begun, Calls
<1>10. MemInv'
  BY <1>1, <1>2, <1>5 DEF IInv, MemInv
<1>11. RedoInv'
  <2>1. ASSUME NEW i \in DOMAIN wal, wal[i].kind = "index"
        PROVE  wal[i].entry.lid \in DOMAIN Session /\ Session[wal[i].entry.lid] = wal[i].entry.val
    <3>1. PICK k \in DOMAIN Log : k > base /\ Log[k] = wal[i].entry
      BY <1>1, <2>1 DEF IInv, CallInv, Calls
    <3>2. PICK es \in Seq(Entries) : es = Log
      BY <1>3
    <3>3. IsNewest(Newest(es, {}), es, {})
      BY NewestIs
    <3>4. PICK n : n = Newest(es, {})
      OBVIOUS
    <3>5. IsNewest(n, es, {})
      BY <3>3, <3>4
    <3>6. es[k].lid \in DOMAIN n
      BY <3>1, <3>2, <3>5 DEF IsNewest
    <3>7. PICK j : Latest(es, {}, j) /\ es[j].lid = es[k].lid
      BY <3>5, <3>6 DEF IsNewest
    <3>8. n[es[k].lid] = es[j].val /\ j \in DOMAIN es /\ k <= j
      BY <3>1, <3>2, <3>5, <3>7 DEF IsNewest, Latest
    <3>9. base \in Nat /\ j > base
      BY <1>3, <3>1, <3>2, <3>8 DEF IInv, Types, TxnTypes
    <3>10. es[j].val = es[k].val
      BY <1>1, <3>1, <3>2, <3>7, <3>8, <3>9 DEF IInv, CallInv, Calls
    <3>11. PICK t : t = Tables
      OBVIOUS
    <3>12. Session = Over(n, t)
      BY <3>2, <3>4, <3>11 DEF Session
    <3>13. es[k].lid \in DOMAIN Over(n, t) /\ Over(n, t)[es[k].lid] = n[es[k].lid]
      BY <3>6 DEF Over
    <3>14. QED
      BY <3>1, <3>2, <3>8, <3>10, <3>12, <3>13
  <2>2. todo = << >>
    BY <1>1 DEF IInv, RedoInv
  <2>3. DOMAIN todo' = {}
    BY <1>1, <2>2
  <2>4. QED
    BY <1>1, <1>6, <2>1, <2>2, <2>3 DEF RedoInv, Shows
<1>12. CallInv'
  BY <1>1 DEF CallInv, Calls
<1>13. LidInv'
  BY <1>1, <1>2, FewerLids DEF IInv
<1>14. Present(Committed') = Promise!Applied(Present(Committed), Ops)
  BY <1>1, <1>6 DEF IInv, CallInv, Calls
<1>15. QED
  BY <1>8, <1>9, <1>10, <1>11, <1>12, <1>13, <1>14 DEF Rest

-----------------------------------------------------------------------------
(* The invariant of the specification.                                        *)

LEMMA RestInit == Init => Rest
<1> SUFFICES ASSUME Init PROVE Rest
  OBVIOUS
<1>1. /\ frames = << >> /\ level0 = << >> /\ level1 = << >> /\ mem = << >> /\ cursor = 0
      /\ maxLid = 0 /\ readonly = FALSE /\ pc = "idle" /\ todo = << >> /\ wal = << >>
  BY DEF Init
<1>2. Log = << >> /\ Newest(Log, {}) = << >>
  BY <1>1, ChainOfNothing, NewestEmpty DEF Log
<1>3. DOMAIN Log = {} /\ Len(Log) = 0 /\ DOMAIN wal = {} /\ DOMAIN todo = {}
  BY <1>1, <1>2
<1>4. DOMAIN Session = {}
  <2>1. Tables = Merged(<< << >> >>)
    BY <1>1 DEF Tables
  <2>2. PICK t \in AllTables : t = << >> /\ DOMAIN t = {}
    BY NoTable
  <2>3. Merged(<<t>>) = t
    BY MergedOne
  <2>4. Session = Over(<< >>, t)
    BY <1>2, <2>1, <2>2, <2>3 DEF Session
  <2>5. Over(t, t) = t
    BY <2>2, OverNothing
  <2>6. QED
    BY <2>2, <2>4, <2>5
<1>5. LogInv
  BY <1>1, <1>3 DEF LogInv, Begun, Calls
<1>6. WalInv
  BY <1>1, <1>3 DEF WalInv, Begun, Calls
<1>7. MemInv
  BY <1>1, <1>2 DEF MemInv
<1>8. RedoInv
  BY <1>1, <1>3 DEF RedoInv
<1>9. CallInv /\ LidInv
  BY <1>1, <1>4 DEF CallInv, Calls, LidInv
<1>10. QED
  BY <1>5, <1>6, <1>7, <1>8, <1>9 DEF Rest

\* What a restart shows changes with the commit only; the operations of a call
\* are added one by one and dropped together.
Promised ==
    \/ Committed' = Committed /\ \/ Ops' = Ops
                                 \/ Ops' = << >>
                                 \/ \E e \in Entries : Ops' = Append(Ops, e)
    \/ Ops' = << >> /\ Present(Committed') = Promise!Applied(Present(Committed), Ops)

LEMMA NoOps ==
    ASSUME pc' \notin Calls
    PROVE  Ops' = << >>
  BY DEF Ops

LEMMA StepKeeps ==
    ASSUME ~ResidueAligns, IInv, Types', [Next]_vars
    PROVE  Rest' /\ Promised
<1>1. CASE Begin
  <2>1. UNCHANGED lsmVars /\ sbTxid' = sbTxid /\ pc' = "active" /\ base' = cursor /\ pc = "idle"
    BY <1>1 DEF Begin
  <2>2. Committed' = Committed /\ cursor' = cursor
    BY <2>1, QuietIs DEF Quiet
  <2>3. Ops = << >>
    BY <2>1 DEF Ops, Calls
  <2>4. Ops' = << >>
    <3>1. PICK fs, c : fs = frames' /\ c = cursor
      OBVIOUS
    <3>2. c \in Nat /\ c + 1 > c
      BY <3>1 DEF IInv, Types, IndexTypes
    <3>3. SubSeq(fs, c + 1, c) = << >>
      BY <3>2
    <3>4. QED
      BY <2>1, <2>2, <3>1, <3>3 DEF Ops, Calls
  <2>5. QED
    BY <1>1, <2>2, <2>3, <2>4, BeginKeeps DEF Promised
<1>2. CASE \E v \in Vals : Add(v)
  BY <1>2, AddKeeps DEF Promised
<1>3. CASE \E l \in 1 .. MaxLid : Delete(l)
  BY <1>3, DeleteKeeps DEF Promised
<1>4. CASE LogIndex
  <2>1. UNCHANGED lsmVars /\ sbTxid' = sbTxid /\ pc' = "active" /\ base' = base /\ pc = "logging"
    BY <1>4 DEF LogIndex
  <2>2. Committed' = Committed /\ cursor' = cursor /\ frames' = frames
    BY <2>1, QuietIs DEF Quiet, lsmVars, lsmDisk
  <2>3. Ops' = Ops
    BY <2>1, <2>2 DEF Ops, Calls
  <2>4. QED
    BY <1>4, <2>2, <2>3, LogIndexKeeps DEF Promised
<1>5. CASE Prepare
  <2>1. UNCHANGED lsmVars /\ sbTxid' = sbTxid /\ pc' = "prepared" /\ base' = base /\ pc = "active"
    BY <1>5 DEF Prepare
  <2>2. Committed' = Committed /\ cursor' = cursor /\ frames' = frames
    BY <2>1, QuietIs DEF Quiet, lsmVars, lsmDisk
  <2>3. Ops' = Ops
    BY <2>1, <2>2 DEF Ops, Calls
  <2>4. QED
    BY <1>5, <2>2, <2>3, PrepareKeeps DEF Promised
<1>6. CASE Commit
  <2>1. Ops' = << >>
    BY <1>6, NoOps DEF Commit, Calls
  <2>2. QED
    BY <1>6, <2>1, CommitKeeps DEF Promised
<1>7. CASE CommitTail \/ CommitTailFails \/ Confirm \/ ConfirmFails \/ Fail
           \/ RollbackWal \/ RollbackFails \/ Lock \/ RecoverMark \/ RecoverReset
  <2>1. UNCHANGED lsmVars /\ sbTxid' = sbTxid /\ pc' \notin Calls
    BY <1>7 DEF CommitTail, CommitTailFails, Confirm, ConfirmFails, Fail, RollbackWal,
                RollbackFails, Lock, RecoverMark, RecoverReset, Calls
  <2>2. Committed' = Committed /\ Ops' = << >>
    BY <2>1, QuietIs, NoOps DEF Quiet
  <2>3. Rest'
    BY <1>7, CommitTailKeeps, CommitTailFailsKeeps, ConfirmKeeps, ConfirmFailsKeeps, FailKeeps,
       RollbackWalKeeps, RollbackFailsKeeps, LockKeeps, RecoverMarkKeeps, RecoverResetKeeps
  <2>4. QED
    BY <2>2, <2>3 DEF Promised
<1>8. CASE CommitFlush \/ RollbackIndex \/ Close \/ Kill \/ Unlock \/ RecoverPut
           \/ RecoverExclude \/ RecoverSettle
  <2>1. pc' \notin Calls
    BY <1>8 DEF CommitFlush, RollbackIndex, Close, Kill, Down, Unlock, RecoverPut,
                RecoverExclude, RecoverSettle, Calls
  <2>2. Rest' /\ Committed' = Committed
    BY <1>8, CommitFlushKeeps, RollbackIndexKeeps, CloseKeeps, KillKeeps, UnlockKeeps,
       RecoverPutKeeps, RecoverExcludeKeeps, RecoverSettleKeeps
  <2>3. QED
    BY <2>1, <2>2, NoOps DEF Promised
<1>9. CASE Compaction
  BY <1>9, CompactionKeeps DEF Promised
<1>10. CASE UNCHANGED vars
  BY <1>10, StutterKeeps DEF Promised
<1>11. QED
  BY <1>1, <1>2, <1>3, <1>4, <1>5, <1>6, <1>7, <1>8, <1>9, <1>10 DEF Next

\* The inductive invariant: at every moment the log, the WAL, the memtable and
\* the tables together determine what a restart finds, and it is what the
\* superblock has committed.
THEOREM Recoverable == ~ResidueAligns => (Spec => []IInv)
<1> SUFFICES ASSUME ~ResidueAligns PROVE Spec => []IInv
  OBVIOUS
<1>1. Init => IInv
  BY TypesInit, RestInit DEF IInv, Rest
<1>2. IInv /\ [Next]_vars => IInv'
  <2> SUFFICES ASSUME IInv, [Next]_vars PROVE IInv'
    OBVIOUS
  <2>1. Types'
    BY TypesNext DEF IInv
  <2>2. Rest'
    BY <2>1, StepKeeps
  <2>3. QED
    BY <2>1, <2>2 DEF IInv, Rest
<1>3. QED
  BY <1>1, <1>2, PTL DEF Spec

\* A get finds the log over the tables, even when the memtable was lost.
LEMMA FoundIs ==
    ASSUME IInv, pc \notin {"down", "marking", "settling"}
    PROVE  Reads(mem) = Present(Session)
<1>1. CASE mem = Newest(Log, {})
  BY <1>1 DEF Reads, Found, Session
<1>2. CASE mem # Newest(Log, {})
  <2>1. mem = << >> /\ Session = Tables
    BY <1>2 DEF IInv, MemInv
  <2>2. PICK t \in AllTables : t = Tables
    BY ShownTyped DEF IInv, Types
  <2>3. Over(<< >>, t) = t
    BY NoTable, OverNothing
  <2>4. QED
    BY <2>1, <2>2, <2>3 DEF Reads, Found
<1>3. QED
  BY <1>1, <1>2

LEMMA OpsTyped ==
    ASSUME IInv
    PROVE  Ops \in Seq(Entries)
<1>1. CASE pc \in Calls
  BY <1>1, OpsAre DEF IInv
<1>2. CASE pc \notin Calls
  BY <1>2 DEF Ops
<1>3. QED
  BY <1>1, <1>2

\* Between two calls the session shows what a restart would show: a call that
\* failed has left nothing in the index, one that succeeded is in the log or in
\* the tables, also after its memtable was lost.
THEOREM SessionIsDurable == ~ResidueAligns => (Spec => []RestartShowsTheSame)
<1> SUFFICES ASSUME ~ResidueAligns PROVE Spec => []RestartShowsTheSame
  OBVIOUS
<1>1. IInv => RestartShowsTheSame
  <2> SUFFICES ASSUME IInv, pc \in Settled PROVE Reads(mem) = Durable
    BY DEF RestartShowsTheSame
  <2>1. \A i \in DOMAIN Log : Log[i].txid # Txid
    BY NoTxid DEF IInv, Settled, Begun, Calls, Recovering
  <2>2. Committed = Session
    BY <2>1, SettledSame DEF IInv, Types
  <2>3. Reads(mem) = Present(Session)
    BY FoundIs DEF Settled
  <2>4. QED
    BY <2>2, <2>3, DurableIs
<1>2. QED
  BY <1>1, Recoverable, PTL

\* Within a call the index shows what a restart would show with the operations
\* of the call applied to it in their order.
THEOREM OwnWrites == ~ResidueAligns => (Spec => []CallSeesItself)
<1> SUFFICES ASSUME ~ResidueAligns PROVE Spec => []CallSeesItself
  OBVIOUS
<1>1. IInv => CallSeesItself
  <2> SUFFICES ASSUME IInv, pc \in {"active", "prepared"}
               PROVE  Reads(mem) = Promise!Applied(Durable, Ops)
    BY DEF CallSeesItself
  <2>1. Reads(mem) = Present(Session)
    BY FoundIs
  <2>2. Present(Session) = Promise!Applied(Present(Committed), Ops)
    BY DEF IInv, CallInv, Calls
  <2>3. QED
    BY <2>1, <2>2, DurableIs
<1>2. QED
  BY <1>1, Recoverable, PTL

\* The id of a record that a call adds is in no version a restart would find,
\* not even as a tombstone.
THEOREM FreshIds == ~ResidueAligns => (Spec => []IdsAreFresh)
<1> SUFFICES ASSUME ~ResidueAligns PROVE Spec => []IdsAreFresh
  OBVIOUS
<1>1. IInv => IdsAreFresh
  <2> SUFFICES ASSUME IInv, NEW i \in DOMAIN Ops, Ops[i].val # Gone
               PROVE  Ops[i].lid \notin DOMAIN DurableVersions
    BY DEF IdsAreFresh
  <2>1. pc \in Calls
    BY DEF Ops
  <2>2. base + i \in DOMAIN Log /\ base + i > base /\ Ops[i] = Log[base + i]
    BY <2>1, OpsAre DEF IInv
  <2>3. PICK k \in DOMAIN Log : k > base /\ Ops[i] = Log[k]
    BY <2>2
  <2>4. Log[k].lid \notin DOMAIN Committed
    BY <2>1, <2>3 DEF IInv, CallInv
  <2>5. QED
    BY <2>3, <2>4, DurableIs
<1>2. QED
  BY <1>1, Recoverable, PTL

\* The transactions implement the dictionary: what a restart would show changes
\* with the commit of the superblock alone, and then by all the operations of
\* the call; no abort, crash, recovery, flush or compaction changes it.
THEOREM Refinement == ~ResidueAligns => (Spec => RefinesStore)
<1> SUFFICES ASSUME ~ResidueAligns PROVE Spec => RefinesStore
  OBVIOUS
<1>1. Init => Promise!Init
  <2> SUFFICES ASSUME Init PROVE Promise!Init
    OBVIOUS
  <2>1. IInv
    BY TypesInit, RestInit DEF IInv, Rest
  <2>2. Ops = << >>
    BY DEF Init, Ops, Calls
  <2>3. pc = "idle" /\ mem = << >> /\ level0 = << >> /\ level1 = << >> /\ frames = << >>
    BY DEF Init
  <2>4. Log = << >>
    BY <2>3, ChainOfNothing DEF Log
  <2>5. PICK t \in AllTables : t = << >> /\ DOMAIN t = {}
    BY NoTable
  <2>6. Tables = t
    <3>1. Tables = Merged(<<t>>)
      BY <2>3, <2>5 DEF Tables
    <3>2. QED
      BY <3>1, MergedOne
  <2>7. Committed = t
    <3>1. Committed = Over(Newest(<< >>, {Txid}), t)
      BY <2>4, <2>6 DEF Committed
    <3>2. Newest(<< >>, {Txid}) = << >>
      BY NewestEmpty
    <3>3. Over(t, t) = t
      BY <2>5, OverNothing
    <3>4. QED
      BY <2>5, <3>1, <3>2, <3>3
  <2>8. Present(t) = << >>
    <3>1. {k \in DOMAIN t : t[k] # Gone} = {}
      BY <2>5
    <3>2. Present(t) = [l \in {} |-> t[l]]
      BY <3>1 DEF Present
    <3>3. << >> = [l \in {} |-> t[l]]
      OBVIOUS
    <3>4. QED
      BY <3>2, <3>3
  <2>9. Durable = << >>
    BY <2>1, <2>7, <2>8, DurableIs
  <2>10. QED
    BY <2>2, <2>9 DEF Promise!Init
<1>2. IInv => Durable = Present(Committed)
  BY DurableIs
<1>3. /\ IInv /\ [Next]_vars /\ IInv'
      /\ Durable = Present(Committed) /\ (Durable = Present(Committed))'
      => [Promise!Next]_<<Durable, Ops>>
  <2> SUFFICES ASSUME IInv, [Next]_vars, IInv',
                      Durable = Present(Committed), Durable' = Present(Committed')
               PROVE  [Promise!Next]_<<Durable, Ops>>
    OBVIOUS
  <2>1. Promised
    BY StepKeeps DEF IInv
  <2>2. CASE Committed' = Committed /\ Ops' = Ops
    BY <2>2
  <2>3. CASE Committed' = Committed /\ Ops' = << >>
    <3>1. Promise!Drop
      BY <2>3 DEF Promise!Drop
    <3>2. QED
      BY <3>1 DEF Promise!Next
  <2>4. CASE Committed' = Committed /\ \E e \in Entries : Ops' = Append(Ops, e)
    <3>1. PICK e \in Entries : Ops' = Append(Ops, e)
      BY <2>4
    <3>2. PICK o \in Seq(Entries) : o = Ops
      BY OpsTyped
    <3>3. PICK p : p = Append(o, e)
      OBVIOUS
    <3>4. /\ Len(p) = Len(o) + 1 /\ SubSeq(p, 1, Len(p) - 1) = o /\ p[Len(p)] = e
      <4>1. /\ Len(o) \in Nat /\ p \in Seq(Entries) /\ Len(p) = Len(o) + 1 /\ p[Len(o) + 1] = e
            /\ \A i \in 1 .. Len(o) : p[i] = o[i]
        BY <3>3
      <4>2. Len(p) - 1 = Len(o)
        BY <4>1
      <4>3. SubSeq(p, 1, Len(o)) = o
        BY <3>3, <4>1
      <4>4. QED
        BY <4>1, <4>2, <4>3
    <3>5. e.val \in Vals \cup {Gone}
      BY DEF Entries, Versions
    <3>6. Promise!Stage
      BY <2>4, <3>1, <3>2, <3>3, <3>4, <3>5 DEF Promise!Stage, Promise!Front, Promise!Last
    <3>7. QED
      BY <3>6 DEF Promise!Next
  <2>5. CASE Ops' = << >> /\ Present(Committed') = Promise!Applied(Present(Committed), Ops)
    <3>1. Promise!Commit
      BY <2>5 DEF Promise!Commit
    <3>2. QED
      BY <3>1 DEF Promise!Next
  <2>6. QED
    BY <2>1, <2>2, <2>3, <2>4, <2>5 DEF Promised
<1>4. QED
  BY <1>1, <1>2, <1>3, Recoverable, PTL DEF Spec, RefinesStore, Promise!Spec
=============================================================================
