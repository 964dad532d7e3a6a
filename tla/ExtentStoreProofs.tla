--------------------------- MODULE ExtentStoreProofs ---------------------------
(* For any contents, sizes, records, capacities and numbers of crashes and     *)
(* locks: the types of the extent store, its reference counts, and the blocks  *)
(* that stay readable under the conditions each theorem names.                 *)
EXTENDS ExtentStore, FiniteSetTheorems, WellFoundedInduction, TLAPS

-----------------------------------------------------------------------------
(* Counting up: induction over the numbers 0..n, and the functions defined   *)
(* one argument after the other.                                             *)

LEMMA Least ==
    ASSUME NEW S \in SUBSET Nat, IsFiniteSet(S), S # {}
    PROVE  \E m \in S : \A x \in S : m <= x
<1> DEFINE UpTo(m) == {x \in S : x <= m}
           R == StrictSubsetOrdering(S)
           T == {UpTo(m) : m \in S}
<1>1. IsWellFoundedOn(R, SUBSET S)
  BY FS_FiniteSubsetsOfFinite, FS_StrictSubsetOrderingWellFounded
<1>2. T \subseteq SUBSET S /\ T # {}
  OBVIOUS
<1> HIDE DEF T
<1>3. PICK D \in T : \A C \in T : ~(<<C, D>> \in R)
  BY <1>1, <1>2, WFMin
<1> USE DEF T
<1>4. PICK m \in S : D = UpTo(m)
  BY <1>3
<1>5. ASSUME NEW x \in S, ~(m <= x) PROVE FALSE
  <2>1. x \in Nat /\ m \in Nat /\ \A y \in S : y \in Nat
    OBVIOUS
  <2>2. x < m /\ m <= m /\ ~(m <= x) /\ \A y \in S : y <= x => y <= m
    BY <1>5, <2>1
  <2>3. UpTo(x) \subseteq D /\ m \in D /\ m \notin UpTo(x)
    BY <1>4, <2>2
  <2>4. <<UpTo(x), D>> \in R
    BY <1>4, <2>3 DEF StrictSubsetOrdering
  <2>5. QED
    BY <1>3, <2>4
<1>6. QED
  BY <1>5

LEMMA CountUp ==
    ASSUME NEW n \in Nat, NEW S, 0 \in S, \A k \in 1..n : k - 1 \in S => k \in S
    PROVE  0..n \subseteq S
<1> DEFINE Bad == {k \in 0..n : k \notin S}
<1>1. SUFFICES ASSUME Bad # {} PROVE FALSE
  BY <1>1
<1>2. Bad \in SUBSET Nat /\ IsFiniteSet(Bad)
  <2>1. IsFiniteSet(0..n) /\ Bad \subseteq 0..n
    BY FS_Interval
  <2>2. QED
    BY <2>1, FS_Subset
<1> HIDE DEF Bad
<1>3. PICK k \in Bad : \A x \in Bad : k <= x
  BY <1>1, <1>2, Least
<1>4. k \in 0..n /\ k \notin S
  BY DEF Bad
<1>5. k \in 1..n /\ k - 1 \in 0..n /\ ~(k <= k - 1)
  BY <1>4
<1>6. k - 1 \in S
  BY <1>3, <1>5 DEF Bad
<1>7. QED
  BY <1>4, <1>5, <1>6

\* From a value to the next, n times.
Iterates(f, n, base, step) ==
    /\ f[0] = base
    /\ \A k \in 1..n : f[k] = step[<<k, f[k - 1]>>]

LEMMA IterateExists ==
    ASSUME NEW n \in Nat, NEW T, NEW base \in T, NEW step \in [(1..n) \X T -> T]
    PROVE  \E f \in [0..n -> T] : Iterates(f, n, base, step)
<1> DEFINE S == {k \in 0..n : \E f \in [0..k -> T] : Iterates(f, k, base, step)}
<1>1. 0 \in S
  <2>1. [i \in 0..0 |-> base] \in [0..0 -> T] /\ Iterates([i \in 0..0 |-> base], 0, base, step)
    BY DEF Iterates
  <2>2. QED
    BY <2>1
<1>2. ASSUME NEW k \in 1..n, k - 1 \in S PROVE k \in S
  <2>1. PICK f \in [0..(k - 1) -> T] : Iterates(f, k - 1, base, step)
    BY <1>2
  <2> DEFINE g == [i \in 0..k |-> IF i = k THEN step[<<k, f[k - 1]>>] ELSE f[i]]
  <2>2. f[k - 1] \in T /\ <<k, f[k - 1]>> \in (1..n) \X T
    BY <2>1
  <2>3. g \in [0..k -> T]
    BY <2>1, <2>2
  <2>4. ASSUME NEW i \in 1..k PROVE g[i] = step[<<i, g[i - 1]>>]
    <3>1. CASE i = k
      <4>1. k \in 0..k /\ k - 1 \in 0..k /\ k - 1 # k
        OBVIOUS
      <4>2. g[k] = step[<<k, f[k - 1]>>] /\ g[k - 1] = f[k - 1]
        BY <4>1
      <4>3. QED
        BY <3>1, <4>2
    <3>2. CASE i # k
      <4>1. i \in 1..(k - 1) /\ i - 1 \in 0..k /\ i - 1 # k /\ i \in 0..k
        BY <3>2
      <4>2. g[i] = f[i] /\ g[i - 1] = f[i - 1]
        BY <3>2, <4>1
      <4>3. f[i] = step[<<i, f[i - 1]>>]
        BY <2>1, <4>1 DEF Iterates
      <4>4. QED
        BY <4>2, <4>3
    <3>3. QED
      BY <3>1, <3>2
  <2>5. g[0] = base
    BY <2>1 DEF Iterates
  <2>6. Iterates(g, k, base, step)
    <3> HIDE DEF g
    <3>1. QED
      BY <2>4, <2>5 DEF Iterates
  <2>7. QED
    BY <2>3, <2>6
<1>3. 0..n \subseteq S
  <2> HIDE DEF S
  <2>1. QED
    BY <1>1, <1>2, CountUp
<1>4. n \in S
  BY <1>3
<1>5. QED
  BY <1>4

-----------------------------------------------------------------------------
(* The types of entries and of the index on disk.                            *)

LEMMA Sizes ==
    /\ \A h \in Hashes : Size[h] \in Nat /\ Size[h] > 0
    /\ NoHash \notin Hashes /\ IsFiniteSet(Hashes) /\ IsFiniteSet(Recs)
    /\ InitCap \in Nat /\ MaxCap \in Nat /\ InitCap <= MaxCap
<1>1. \A h \in Hashes : Size[h] \in Nat \ {0}
  BY ExtentStoreAssumption
<1>2. QED
  BY <1>1, ExtentStoreAssumption

LEMMA ListOf ==
    ASSUME NEW T, NEW n \in Nat, NEW f \in [1..n -> T]
    PROVE  f \in Seq(T) /\ Len(f) = n /\ DOMAIN f = 1..n
OBVIOUS

Disk == [idx : Seq(Entry), next : Nat, cap : InitCap..MaxCap]
Line == [hash : Hashes, off : Nat]

LEMMA EntryIs ==
    ASSUME NEW ix \in Seq(Entry), NEW i \in DOMAIN ix
    PROVE  /\ ix[i] \in Entry /\ ix[i].hash \in Hashes /\ ix[i].off \in Nat /\ ix[i].ref \in Nat
           /\ End(ix[i]) \in Nat /\ ix[i].off < End(ix[i])
           /\ Len(ix) \in Nat /\ DOMAIN ix = 1..Len(ix) /\ i \in 1..Len(ix)
<1>1. ix[i] \in Entry
  OBVIOUS
<1>2. ix[i].hash \in Hashes /\ ix[i].off \in Nat /\ ix[i].ref \in Nat
  BY <1>1 DEF Entry
<1>3. Size[ix[i].hash] \in Nat /\ Size[ix[i].hash] > 0
  BY <1>2, Sizes
<1>4. QED
  BY <1>1, <1>2, <1>3 DEF End

-----------------------------------------------------------------------------
(* The width of a set of entries.                                            *)

Share(ix, S, k) == IF k \in S THEN Size[ix[k].hash] ELSE 0
Sums(f, ix, S) ==
    f = [n \in 0..Len(ix) |-> IF n = 0 THEN 0 ELSE f[n - 1] + Share(ix, S, n)]

LEMMA WidthIs ==
    ASSUME NEW ix \in Seq(Entry), NEW S
    PROVE  \E f \in [0..Len(ix) -> Nat] :
               /\ f[0] = 0
               /\ \A k \in 1..Len(ix) : f[k] = f[k - 1] + Share(ix, S, k)
               /\ Width(ix, S) = f[Len(ix)]
<1> DEFINE n == Len(ix)
           step == [p \in (1..n) \X Nat |-> p[2] + Share(ix, S, p[1])]
<1>1. n \in Nat /\ \A k \in 1..n : Share(ix, S, k) \in Nat
  BY EntryIs, Sizes DEF Share
<1>2. step \in [(1..n) \X Nat -> Nat]
  BY <1>1
<1>3. PICK g \in [0..n -> Nat] : Iterates(g, n, 0, step)
  <2> HIDE DEF step, n
  <2>1. QED
    BY <1>1, <1>2, IterateExists
<1>4. ASSUME NEW k \in 1..n PROVE k - 1 \in 0..n /\ g[k] = g[k - 1] + Share(ix, S, k)
  <2>1. k - 1 \in 0..n
    BY <1>1
  <2>2. g[k - 1] \in Nat
    BY <1>3, <2>1
  <2>3. <<k, g[k - 1]>> \in (1..n) \X Nat /\ <<k, g[k - 1]>>[1] = k /\ <<k, g[k - 1]>>[2] = g[k - 1]
    BY <2>2
  <2>4. g[k] = step[<<k, g[k - 1]>>]
    BY <1>3 DEF Iterates
  <2>5. QED
    BY <2>1, <2>3, <2>4
<1>5. Sums(g, ix, S)
  <2>1. \A k \in 0..n : g[k] = IF k = 0 THEN 0 ELSE g[k - 1] + Share(ix, S, k)
    BY <1>1, <1>3, <1>4 DEF Iterates
  <2>2. g = [k \in 0..n |-> g[k]]
    BY <1>3
  <2>3. QED
    BY <2>1, <2>2 DEF Sums
<1> DEFINE f == CHOOSE a : Sums(a, ix, S)
<1>6. Sums(f, ix, S)
  BY <1>5
<1>7. Width(ix, S) = f[n]
  BY DEF Width, Sums, Share
<1> HIDE DEF f
<1>8. f[0] = 0 /\ \A k \in 1..n : f[k] = f[k - 1] + Share(ix, S, k)
  <2>1. \A k \in 0..n : f[k] = IF k = 0 THEN 0 ELSE f[k - 1] + Share(ix, S, k)
    BY <1>6 DEF Sums
  <2>2. 0 \in 0..n /\ \A k \in 1..n : k \in 0..n /\ k # 0
    BY <1>1
  <2>3. QED
    BY <2>1, <2>2
<1>9. \A k \in 0..n : f[k] \in Nat
  <2> DEFINE T == {k \in 0..n : f[k] \in Nat}
  <2>1. 0 \in T
    BY <1>1, <1>8
  <2>2. ASSUME NEW k \in 1..n, k - 1 \in T PROVE k \in T
    BY <1>1, <1>8, <2>2
  <2>3. 0..n \subseteq T
    <3> HIDE DEF T, n
    <3>1. QED
      BY <1>1, <2>1, <2>2, CountUp
  <2>4. QED
    BY <2>3
<1>10. f \in [0..n -> Nat]
  BY <1>6, <1>9 DEF Sums
<1>11. QED
  BY <1>7, <1>8, <1>10

-----------------------------------------------------------------------------
(* The operations on the index keep its types, its contents in their places  *)
(* and, except for a content put for the first time, its length.             *)

SameHashes(ix, iy) ==
    /\ Len(iy) = Len(ix) /\ DOMAIN iy = DOMAIN ix
    /\ \A i \in DOMAIN ix : iy[i].hash = ix[i].hash

LEMMA Mapped ==
    ASSUME NEW ix \in Seq(Entry), NEW iy, iy = [i \in DOMAIN ix |-> iy[i]],
           \A i \in DOMAIN ix : iy[i] \in Entry
    PROVE  iy \in Seq(Entry) /\ Len(iy) = Len(ix) /\ DOMAIN iy = DOMAIN ix
<1> DEFINE n == Len(ix)
<1>1. n \in Nat /\ DOMAIN ix = 1..n
  OBVIOUS
<1>2. iy \in [1..n -> Entry]
  BY <1>1
<1>3. iy \in Seq(Entry) /\ Len(iy) = n /\ DOMAIN iy = 1..n
  BY <1>1, <1>2, ListOf
<1>4. QED
  BY <1>1, <1>3

LEMMA Entries ==
    /\ \A e \in Entry, n \in Nat :
          /\ [e EXCEPT !.ref = n] \in Entry
          /\ [e EXCEPT !.ref = n].hash = e.hash /\ [e EXCEPT !.ref = n].off = e.off
          /\ [e EXCEPT !.ref = n].ref = n
    /\ \A e \in Entry, n \in Nat :
          /\ [e EXCEPT !.off = n] \in Entry
          /\ [e EXCEPT !.off = n].hash = e.hash /\ [e EXCEPT !.off = n].off = n
          /\ [e EXCEPT !.off = n].ref = e.ref
BY DEF Entry

LEMMA AddRefIs ==
    ASSUME NEW ix \in Seq(Entry), NEW h
    PROVE  /\ AddRef(ix, h, 1) \in Seq(Entry) /\ SameHashes(ix, AddRef(ix, h, 1))
           /\ \A i \in DOMAIN ix :
                 /\ AddRef(ix, h, 1)[i].off = ix[i].off
                 /\ AddRef(ix, h, 1)[i].ref = ix[i].ref + (IF ix[i].hash = h THEN 1 ELSE 0)
<1> DEFINE iy == AddRef(ix, h, 1)
<1>1. ASSUME NEW i \in DOMAIN ix
      PROVE  /\ iy[i] \in Entry /\ iy[i].hash = ix[i].hash /\ iy[i].off = ix[i].off
             /\ iy[i].ref = ix[i].ref + (IF ix[i].hash = h THEN 1 ELSE 0)
  <2>1. ix[i] \in Entry /\ ix[i].ref \in Nat /\ ix[i].ref + 1 \in Nat
    BY EntryIs
  <2>2. iy[i] = IF ix[i].hash = h THEN [ix[i] EXCEPT !.ref = ix[i].ref + 1] ELSE ix[i]
    BY DEF AddRef
  <2>3. CASE ix[i].hash = h
    <3>1. iy[i] = [ix[i] EXCEPT !.ref = ix[i].ref + 1]
      BY <2>2, <2>3
    <3> HIDE DEF iy
    <3>2. QED
      BY <2>1, <2>3, <3>1, Entries
  <2>4. CASE ix[i].hash # h
    <3>1. iy[i] = ix[i]
      BY <2>2, <2>4
    <3> HIDE DEF iy
    <3>2. QED
      BY <2>1, <2>4, <3>1
  <2>5. QED
    BY <2>3, <2>4
<1>2. iy = [i \in DOMAIN ix |-> iy[i]]
  BY DEF AddRef
<1> HIDE DEF iy
<1>3. iy \in Seq(Entry) /\ Len(iy) = Len(ix) /\ DOMAIN iy = DOMAIN ix
  BY <1>1, <1>2, Mapped
<1>4. iy \in Seq(Entry) /\ SameHashes(ix, iy)
  BY <1>1, <1>3 DEF SameHashes
<1>5. QED
  BY <1>1, <1>4 DEF iy

LEMMA ReleaseIs ==
    ASSUME NEW ix \in Seq(Entry), NEW h
    PROVE  /\ Release(ix, h) \in Seq(Entry) /\ SameHashes(ix, Release(ix, h))
           /\ \A i \in DOMAIN ix :
                 /\ Release(ix, h)[i].off = ix[i].off
                 /\ Release(ix, h)[i].ref =
                       IF ix[i].hash = h /\ ix[i].ref > 0 THEN ix[i].ref - 1 ELSE ix[i].ref
<1> DEFINE iy == Release(ix, h)
<1>1. ASSUME NEW i \in DOMAIN ix
      PROVE  /\ iy[i] \in Entry /\ iy[i].hash = ix[i].hash /\ iy[i].off = ix[i].off
             /\ iy[i].ref = IF ix[i].hash = h /\ ix[i].ref > 0 THEN ix[i].ref - 1 ELSE ix[i].ref
  <2>1. ix[i] \in Entry /\ ix[i].ref \in Nat
    BY EntryIs
  <2>2. iy[i] = IF ix[i].hash = h /\ ix[i].ref > 0 THEN [ix[i] EXCEPT !.ref = ix[i].ref - 1] ELSE ix[i]
    BY DEF Release
  <2>3. CASE ix[i].hash = h /\ ix[i].ref > 0
    <3>1. iy[i] = [ix[i] EXCEPT !.ref = ix[i].ref - 1] /\ ix[i].ref - 1 \in Nat
      BY <2>1, <2>2, <2>3
    <3> HIDE DEF iy
    <3>2. QED
      BY <2>1, <2>3, <3>1, Entries
  <2>4. CASE ~(ix[i].hash = h /\ ix[i].ref > 0)
    <3>1. iy[i] = ix[i]
      BY <2>2, <2>4
    <3> HIDE DEF iy
    <3>2. QED
      BY <2>1, <2>4, <3>1
  <2>5. QED
    BY <2>3, <2>4
<1>2. iy = [i \in DOMAIN ix |-> iy[i]]
  BY DEF Release
<1> HIDE DEF iy
<1>3. iy \in Seq(Entry) /\ Len(iy) = Len(ix) /\ DOMAIN iy = DOMAIN ix
  BY <1>1, <1>2, Mapped
<1>4. iy \in Seq(Entry) /\ SameHashes(ix, iy)
  BY <1>1, <1>3 DEF SameHashes
<1>5. QED
  BY <1>1, <1>4 DEF iy

\* A content that the index does not have is appended.
Added(h, at) == [hash |-> h, off |-> at, ref |-> 1]

LEMMA AppendIs ==
    ASSUME NEW ix \in Seq(Entry), NEW h \in Hashes, NEW at \in Nat
    PROVE  LET iy == Append(ix, Added(h, at))
               n  == Len(ix) + 1
           IN  /\ iy \in Seq(Entry) /\ Len(iy) = n /\ DOMAIN iy = DOMAIN ix \cup {n}
               /\ n \notin DOMAIN ix /\ Len(ix) \in Nat /\ DOMAIN ix = 1..Len(ix)
               /\ \A i \in DOMAIN ix : iy[i] = ix[i]
               /\ iy[n] = Added(h, at)
<1>1. Added(h, at) \in Entry
  BY DEF Added, Entry
<1>2. QED
  BY <1>1

LEMMA PutIs ==
    ASSUME NEW ix \in Seq(Entry), NEW h \in Hashes, NEW at \in Nat
    PROVE  /\ Put(ix, h, at) \in Seq(Entry)
           /\ Slot(ix, h) # {} => Put(ix, h, at) = AddRef(ix, h, 1)
           /\ Slot(ix, h) = {} => Put(ix, h, at) = Append(ix, Added(h, at))
<1>1. AddRef(ix, h, 1) \in Seq(Entry)
  BY AddRefIs
<1>2. Append(ix, Added(h, at)) \in Seq(Entry)
  BY AppendIs
<1>3. QED
  BY <1>1, <1>2 DEF Put, Added

-----------------------------------------------------------------------------
(* The replay of a group.                                                    *)

LEMMA ReregisteredIs ==
    ASSUME NEW s \in Disk, NEW e \in Line
    PROVE  /\ Reregistered(s, e) \in Disk
           /\ Reregistered(s, e).idx = Put(s.idx, e.hash, e.off)
           /\ Reregistered(s, e).next = IF End(e) > s.next THEN End(e) ELSE s.next
           /\ Reregistered(s, e).cap = s.cap
           /\ e.hash \in Hashes /\ e.off \in Nat /\ End(e) \in Nat
           /\ s.idx \in Seq(Entry) /\ s.next \in Nat
<1>1. e.hash \in Hashes /\ e.off \in Nat /\ s.idx \in Seq(Entry) /\ s.next \in Nat /\ s.cap \in InitCap..MaxCap
  BY DEF Disk, Line
<1>2. Size[e.hash] \in Nat
  BY <1>1, Sizes
<1>3. End(e) = e.off + Size[e.hash] /\ End(e) \in Nat
  BY <1>1, <1>2 DEF End
<1>4. Put(s.idx, e.hash, e.off) \in Seq(Entry)
  BY <1>1, PutIs
<1>5. (IF End(e) > s.next THEN End(e) ELSE s.next) \in Nat
  BY <1>1, <1>3
<1>6. Reregistered(s, e) = [s EXCEPT !.idx = Put(s.idx, e.hash, e.off),
                                    !.next = IF End(e) > s.next THEN End(e) ELSE s.next]
  BY <1>3 DEF Reregistered
<1> DEFINE ix == Put(s.idx, e.hash, e.off)
           nx == IF End(e) > s.next THEN End(e) ELSE s.next
<1>7. ix \in Seq(Entry) /\ nx \in Nat /\ Reregistered(s, e) = [s EXCEPT !.idx = ix, !.next = nx]
  BY <1>4, <1>5, <1>6
<1> HIDE DEF ix, nx
<1>8. /\ Reregistered(s, e) \in Disk
      /\ Reregistered(s, e).idx = ix /\ Reregistered(s, e).next = nx
      /\ Reregistered(s, e).cap = s.cap
  BY <1>7 DEF Disk
<1>9. QED
  BY <1>1, <1>3, <1>8 DEF ix, nx

Replays(f, s, lines) ==
    f = [n \in 0..Len(lines) |-> IF n = 0 THEN s ELSE Reregistered(f[n - 1], lines[n])]

LEMMA ReplayIs ==
    ASSUME NEW s \in Disk, NEW lines \in Seq(Line)
    PROVE  \E f \in [0..Len(lines) -> Disk] :
               /\ f[0] = s
               /\ \A k \in 1..Len(lines) : f[k] = Reregistered(f[k - 1], lines[k])
               /\ Replay(s, lines) = f[Len(lines)]
<1> DEFINE n == Len(lines)
           step == [p \in (1..n) \X Disk |-> Reregistered(p[2], lines[p[1]])]
<1>1. n \in Nat /\ \A k \in 1..n : lines[k] \in Line
  OBVIOUS
<1>2. step \in [(1..n) \X Disk -> Disk]
  BY <1>1, ReregisteredIs
<1>3. PICK g \in [0..n -> Disk] : Iterates(g, n, s, step)
  <2> HIDE DEF step, n
  <2>1. QED
    BY <1>1, <1>2, IterateExists
<1>4. ASSUME NEW k \in 1..n PROVE k - 1 \in 0..n /\ g[k] = Reregistered(g[k - 1], lines[k])
  <2>1. k - 1 \in 0..n
    BY <1>1
  <2>2. g[k - 1] \in Disk
    BY <1>3, <2>1
  <2>3. <<k, g[k - 1]>> \in (1..n) \X Disk /\ <<k, g[k - 1]>>[1] = k /\ <<k, g[k - 1]>>[2] = g[k - 1]
    BY <2>2
  <2>4. g[k] = step[<<k, g[k - 1]>>]
    BY <1>3 DEF Iterates
  <2>5. QED
    BY <2>1, <2>3, <2>4
<1>5. Replays(g, s, lines)
  <2>1. \A k \in 0..n : g[k] = IF k = 0 THEN s ELSE Reregistered(g[k - 1], lines[k])
    BY <1>1, <1>3, <1>4 DEF Iterates
  <2>2. g = [k \in 0..n |-> g[k]]
    BY <1>3
  <2>3. QED
    BY <2>1, <2>2 DEF Replays
<1> DEFINE f == CHOOSE a : Replays(a, s, lines)
<1>6. Replays(f, s, lines)
  BY <1>5
<1>7. Replay(s, lines) = f[n]
  BY DEF Replay, Replays
<1> HIDE DEF f
<1>8. f[0] = s /\ \A k \in 1..n : f[k] = Reregistered(f[k - 1], lines[k])
  <2>1. \A k \in 0..n : f[k] = IF k = 0 THEN s ELSE Reregistered(f[k - 1], lines[k])
    BY <1>6 DEF Replays
  <2>2. 0 \in 0..n /\ \A k \in 1..n : k \in 0..n /\ k # 0
    BY <1>1
  <2>3. QED
    BY <2>1, <2>2
<1>9. \A k \in 0..n : f[k] \in Disk
  <2> DEFINE T == {k \in 0..n : f[k] \in Disk}
  <2>1. 0 \in T
    BY <1>1, <1>8
  <2>2. ASSUME NEW k \in 1..n, k - 1 \in T PROVE k \in T
    <3>1. k \in 0..n /\ f[k - 1] \in Disk /\ lines[k] \in Line
      BY <1>1, <2>2
    <3>2. QED
      BY <1>8, <3>1, ReregisteredIs
  <2>3. 0..n \subseteq T
    <3> HIDE DEF T, n
    <3>1. QED
      BY <1>1, <2>1, <2>2, CountUp
  <2>4. QED
    BY <2>3
<1>10. f \in [0..n -> Disk]
  BY <1>6, <1>9 DEF Replays
<1>11. QED
  BY <1>7, <1>8, <1>10

LEMMA ReplayEmpty ==
    ASSUME NEW s \in Disk
    PROVE  Replay(s, <<>>) = s
<1> DEFINE none == <<>>
<1>1. none \in Seq(Line) /\ Len(none) = 0
  OBVIOUS
<1> HIDE DEF none
<1>2. PICK f \in [0..Len(none) -> Disk] :
          /\ f[0] = s
          /\ \A k \in 1..Len(none) : f[k] = Reregistered(f[k - 1], none[k])
          /\ Replay(s, none) = f[Len(none)]
  BY <1>1, ReplayIs
<1>3. QED
  BY <1>1, <1>2 DEF none

LEMMA ReplayType ==
    ASSUME NEW s \in Disk, NEW lines \in Seq(Line)
    PROVE  Replay(s, lines) \in Disk
<1>1. Len(lines) \in 0..Len(lines)
  OBVIOUS
<1>2. QED
  BY <1>1, ReplayIs

LEMMA ReplayAppend ==
    ASSUME NEW s \in Disk, NEW lines \in Seq(Line), NEW e \in Line
    PROVE  Replay(s, Append(lines, e)) = Reregistered(Replay(s, lines), e)
<1> DEFINE n == Len(lines)
           more == Append(lines, e)
<1>1. /\ n \in Nat /\ more \in Seq(Line) /\ Len(more) = n + 1
      /\ more[n + 1] = e
      /\ \A i \in 1..n : lines[i] = more[i]
  OBVIOUS
<1> HIDE DEF more
<1>2. PICK f \in [0..n -> Disk] : /\ f[0] = s
                                  /\ \A k \in 1..n : f[k] = Reregistered(f[k - 1], lines[k])
                                  /\ Replay(s, lines) = f[n]
  BY ReplayIs
<1>3. PICK g \in [0..(n + 1) -> Disk] :
          /\ g[0] = s
          /\ \A k \in 1..(n + 1) : g[k] = Reregistered(g[k - 1], more[k])
          /\ Replay(s, more) = g[n + 1]
  <2>1. PICK g \in [0..Len(more) -> Disk] :
            /\ g[0] = s
            /\ \A k \in 1..Len(more) : g[k] = Reregistered(g[k - 1], more[k])
            /\ Replay(s, more) = g[Len(more)]
    BY <1>1, ReplayIs
  <2>2. Len(more) = n + 1
    BY <1>1
  <2>3. QED
    BY <2>1, <2>2
<1> HIDE DEF n
<1> DEFINE T == {k \in 0..n : f[k] = g[k]}
<1>4. 0 \in T
  BY <1>1, <1>2, <1>3
<1>5. ASSUME NEW k \in 1..n, k - 1 \in T PROVE k \in T
  <2>1. k \in 0..n /\ k \in 1..(n + 1) /\ f[k - 1] = g[k - 1] /\ lines[k] = more[k]
    BY <1>1, <1>5
  <2>2. f[k] = g[k]
    BY <1>2, <1>3, <2>1
  <2>3. QED
    BY <2>1, <2>2
<1>6. 0..n \subseteq T
  <2> HIDE DEF T
  <2>1. QED
    BY <1>1, <1>4, <1>5, CountUp
<1>7. f[n] = g[n]
  BY <1>1, <1>6
<1>8. n + 1 \in 1..(n + 1) /\ (n + 1) - 1 = n
  BY <1>1
<1>9. g[n + 1] = Reregistered(g[n], e)
  BY <1>1, <1>3, <1>8
<1>10. QED
  BY <1>2, <1>3, <1>7, <1>9 DEF more

-----------------------------------------------------------------------------
(* Where compaction puts the live blocks: one after the other, each at or    *)
(* below its old place when the index is in order.                           *)

Packed(n) == Width(idx, {k \in Live(idx) : k <= n})

LEMMA PackedIs ==
    ASSUME idx \in Seq(Entry)
    PROVE  /\ Len(idx) \in Nat /\ DOMAIN idx = 1..Len(idx)
           /\ \A n \in 0..Len(idx) : Packed(n) \in Nat
           /\ Packed(0) = 0
           /\ \A n \in 1..Len(idx) : Packed(n) = Packed(n - 1) + Share(idx, Live(idx), n)
           /\ Packed(Len(idx)) = Width(idx, Live(idx))
           /\ \A i \in DOMAIN idx : Target(i) = Packed(i - 1)
<1> DEFINE N == Len(idx)
           L == Live(idx)
<1>1. N \in Nat /\ DOMAIN idx = 1..N /\ L \subseteq 1..N
  BY DEF Live
<1>2. PICK f \in [0..N -> Nat] :
          /\ f[0] = 0
          /\ \A k \in 1..N : f[k] = f[k - 1] + Share(idx, L, k)
          /\ Width(idx, L) = f[N]
  BY WidthIs
<1>3. ASSUME NEW n \in 0..N PROVE Packed(n) = f[n]
  <2> DEFINE B == {k \in L : k <= n}
  <2>1. PICK g \in [0..N -> Nat] :
            /\ g[0] = 0
            /\ \A k \in 1..N : g[k] = g[k - 1] + Share(idx, B, k)
            /\ Width(idx, B) = g[N]
    BY WidthIs
  <2>2. \A k \in 1..N : Share(idx, B, k) = IF k <= n THEN Share(idx, L, k) ELSE 0
    BY <1>1 DEF Share
  <2> HIDE DEF B, L, N
  <2> DEFINE T == {k \in 0..N : g[k] = IF k <= n THEN f[k] ELSE f[n]}
  <2>3. 0 \in T
    BY <1>1, <1>2, <2>1
  <2>4. ASSUME NEW k \in 1..N, k - 1 \in T PROVE k \in T
    <3>1. k \in 0..N /\ k - 1 \in 0..N /\ g[k - 1] = IF k - 1 <= n THEN f[k - 1] ELSE f[n]
      BY <1>1, <2>4
    <3>2. g[k] = g[k - 1] + Share(idx, B, k)
      BY <2>1
    <3>3. CASE k <= n
      <4>1. k - 1 <= n /\ g[k - 1] = f[k - 1]
        BY <1>1, <3>1, <3>3
      <4>2. Share(idx, B, k) = Share(idx, L, k)
        BY <2>2, <3>3
      <4>3. g[k] = f[k]
        BY <1>2, <3>2, <4>1, <4>2
      <4>4. QED
        BY <3>1, <3>3, <4>3
    <3>4. CASE ~(k <= n)
      <4>1. Share(idx, B, k) = 0
        BY <2>2, <3>4
      <4>2. g[k - 1] \in Nat
        BY <2>1, <3>1
      <4>3. g[k] = g[k - 1]
        BY <3>2, <4>1, <4>2
      <4>4. g[k - 1] = f[n]
        <5>1. CASE k - 1 <= n
          <6>1. k - 1 = n
            BY <1>1, <3>4, <5>1
          <6>2. QED
            BY <3>1, <5>1, <6>1
        <5>2. CASE ~(k - 1 <= n)
          BY <3>1, <5>2
        <5>3. QED
          BY <5>1, <5>2
      <4>5. QED
        BY <3>1, <3>4, <4>3, <4>4
    <3>5. QED
      BY <3>3, <3>4
  <2>5. 0..N \subseteq T
    <3> HIDE DEF T
    <3>1. QED
      BY <1>1, <2>3, <2>4, CountUp
  <2>6. g[N] = f[n]
    <3>1. N \in T
      BY <1>1, <2>5
    <3>2. g[N] = IF N <= n THEN f[N] ELSE f[n]
      BY <3>1
    <3>3. N <= n => N = n
      BY <1>1
    <3>4. QED
      BY <3>2, <3>3
  <2>7. QED
    BY <2>1, <2>6 DEF Packed, B, L
<1>4. \A i \in DOMAIN idx : Target(i) = Packed(i - 1)
  <2>1. ASSUME NEW i \in DOMAIN idx PROVE Target(i) = Packed(i - 1)
    <3>1. {j \in Live(idx) : j < i} = {j \in Live(idx) : j <= i - 1}
      BY <1>1
    <3>2. QED
      BY <3>1 DEF Target, Packed
  <2>2. QED
    BY <2>1
<1>5. Packed(0) = 0 /\ Packed(N) = Width(idx, L)
  <2>1. 0 \in 0..N /\ N \in 0..N
    BY <1>1
  <2>2. QED
    BY <1>2, <1>3, <2>1
<1>6. ASSUME NEW n \in 1..N PROVE Packed(n) = Packed(n - 1) + Share(idx, L, n)
  <2>1. n \in 0..N /\ n - 1 \in 0..N
    BY <1>1
  <2>2. QED
    BY <1>2, <1>3, <2>1
<1>7. \A n \in 0..N : Packed(n) \in Nat
  BY <1>2, <1>3
<1>8. QED
  BY <1>1, <1>4, <1>5, <1>6, <1>7

\* The blocks before an entry end where it goes, and a later one starts after it.
LEMMA PackedGrows ==
    ASSUME idx \in Seq(Entry), NEW i \in Live(idx), NEW n \in 0..Len(idx), i <= n
    PROVE  Target(i) \in Nat /\ Target(i) + Size[idx[i].hash] <= Packed(n)
<1> DEFINE N == Len(idx)
           w == Size[idx[i].hash]
           T == {k \in 0..N : i <= k => Target(i) + w <= Packed(k)}
<1>1. /\ N \in Nat /\ DOMAIN idx = 1..N /\ i \in 1..N /\ i \in DOMAIN idx
      /\ w \in Nat /\ i - 1 \in 0..N
  <2>1. i \in DOMAIN idx
    BY DEF Live
  <2>2. w \in Nat
    BY <2>1, EntryIs, Sizes
  <2>3. QED
    BY <2>1, <2>2, EntryIs
<1>2. Target(i) = Packed(i - 1) /\ Target(i) \in Nat
  BY <1>1, PackedIs
<1>3. Packed(i) = Target(i) + w
  BY <1>1, <1>2, PackedIs DEF Share
<1>4. 0 \in T
  BY <1>1
<1>5. ASSUME NEW k \in 1..N, k - 1 \in T PROVE k \in T
  <2>1. k \in 0..N /\ k - 1 \in 0..N
    BY <1>1
  <2>2. Packed(k) = Packed(k - 1) + Share(idx, Live(idx), k) /\ Packed(k - 1) \in Nat
    BY <2>1, PackedIs
  <2>3. Share(idx, Live(idx), k) \in Nat
    BY <1>1, EntryIs, Sizes DEF Share
  <2>4. ASSUME i <= k PROVE Target(i) + w <= Packed(k)
    <3>1. CASE i = k
      BY <1>1, <1>2, <1>3, <3>1
    <3>2. CASE i # k
      <4>1. i <= k - 1
        BY <1>1, <2>4, <3>2
      <4>2. Target(i) + w <= Packed(k - 1)
        BY <1>5, <4>1
      <4>3. QED
        BY <1>1, <1>2, <2>2, <2>3, <4>2
    <3>3. QED
      BY <3>1, <3>2
  <2>5. QED
    BY <2>1, <2>4
<1>6. 0..N \subseteq T
  <2> HIDE DEF T, N
  <2>1. QED
    BY <1>1, <1>4, <1>5, CountUp
<1>7. n \in T
  BY <1>6
<1>8. QED
  BY <1>2, <1>7

LEMMA PackedBelow ==
    ASSUME idx \in Seq(Entry), next \in Nat, Ordered
    PROVE  /\ \A i \in Live(idx) : Target(i) <= idx[i].off
           /\ Width(idx, Live(idx)) <= next
<1> DEFINE N == Len(idx)
           L == Live(idx)
           T == {k \in 0..N : /\ \A j \in L : j > k => Packed(k) <= idx[j].off
                              /\ Packed(k) <= next}
<1>1. N \in Nat /\ DOMAIN idx = 1..N /\ L \subseteq DOMAIN idx
  BY DEF Live
<1>2. \A j \in L : /\ idx[j].off \in Nat /\ Size[idx[j].hash] \in Nat /\ End(idx[j]) <= next
                   /\ End(idx[j]) = idx[j].off + Size[idx[j].hash]
  BY <1>1, EntryIs, Sizes DEF Ordered, End
<1>3. 0 \in T
  <2>1. Packed(0) = 0
    BY PackedIs
  <2>2. QED
    BY <1>1, <1>2, <2>1
<1>4. ASSUME NEW k \in 1..N, k - 1 \in T PROVE k \in T
  <2>1. k \in 0..N /\ k - 1 \in 0..N /\ k > k - 1
    BY <1>1
  <2>2. Packed(k) = Packed(k - 1) + Share(idx, L, k) /\ Packed(k - 1) \in Nat
    BY <2>1, PackedIs
  <2>3. CASE k \in L
    <3>1. Packed(k - 1) <= idx[k].off
      BY <1>4, <2>1, <2>3
    <3>2. Packed(k) <= End(idx[k]) /\ Packed(k) \in Nat
      BY <1>2, <2>2, <2>3, <3>1 DEF Share
    <3>3. ASSUME NEW j \in L, j > k PROVE Packed(k) <= idx[j].off
      <4>1. End(idx[k]) <= idx[j].off
        BY <1>1, <2>3, <3>3 DEF Ordered
      <4>2. QED
        BY <1>2, <2>3, <3>2, <4>1
    <3>4. Packed(k) <= next
      BY <1>2, <2>3, <3>2
    <3>5. QED
      BY <2>1, <3>3, <3>4
  <2>4. CASE k \notin L
    <3>1. Packed(k) = Packed(k - 1)
      BY <2>2, <2>4 DEF Share
    <3>2. \A j \in L : j > k => j > k - 1
      BY <1>1
    <3>3. QED
      BY <1>4, <2>1, <3>1, <3>2
  <2>5. QED
    BY <2>3, <2>4
<1>5. 0..N \subseteq T
  <2> HIDE DEF T, N
  <2>1. QED
    BY <1>1, <1>3, <1>4, CountUp
<1>6. N \in T
  BY <1>1, <1>5
<1>7. ASSUME NEW i \in L PROVE Target(i) <= idx[i].off
  <2>1. i - 1 \in 0..N /\ i > i - 1
    BY <1>1
  <2>2. i - 1 \in T
    BY <1>5, <2>1
  <2>3. Target(i) = Packed(i - 1)
    BY <1>1, PackedIs
  <2>4. QED
    BY <2>1, <2>2, <2>3
<1>8. QED
  BY <1>6, <1>7, PackedIs

-----------------------------------------------------------------------------
(* What compaction makes of the data area.                                   *)

Cell == (Hashes \cup {NoHash}) \X Nat
Area == [0..(MaxCap - 1) -> Cell]

ReadsAt(c, h, at) ==
    \A k \in 0..(Size[h] - 1) : at + k \in DOMAIN c /\ c[at + k] = <<h, k>>

LEMMA ReadableAt ==
    ASSUME NEW e
    PROVE  Readable(e) <=> ReadsAt(cells, e.hash, e.off)
BY DEF Readable, ReadsAt

LEMMA MovedIs ==
    ASSUME NEW c \in Area, NEW from \in Nat, NEW to \in Nat, NEW n \in Nat,
           to <= from, from + n <= MaxCap
    PROVE  Moved(c, from, to, n) \in Area
<1>1. ASSUME NEW x \in 0..(MaxCap - 1), x \in to..(to + n - 1)
      PROVE  from + (x - to) \in 0..(MaxCap - 1)
  BY <1>1, Sizes
<1>2. DOMAIN c = 0..(MaxCap - 1)
  BY DEF Area
<1>3. ASSUME NEW x \in 0..(MaxCap - 1) PROVE Moved(c, from, to, n)[x] \in Cell
  <2>1. Moved(c, from, to, n)[x] = IF x \in to..(to + n - 1) THEN c[from + (x - to)] ELSE c[x]
    BY <1>2 DEF Moved
  <2>2. QED
    BY <1>1, <2>1 DEF Area
<1>4. QED
  BY <1>2, <1>3 DEF Moved, Area

\* A copied block can be read at its new place, and every block that the new
\* place does not reach can be read where it was.
LEMMA MovedReads ==
    ASSUME NEW c \in Area, NEW h \in Hashes, NEW from \in Nat, NEW to \in Nat,
           to <= from, from + Size[h] <= MaxCap
    PROVE  /\ ReadsAt(c, h, from) => ReadsAt(Moved(c, from, to, Size[h]), h, to)
           /\ \A g \in Hashes, at \in Nat :
                 /\ ReadsAt(c, g, at)
                 /\ at + Size[g] <= to \/ to + Size[h] <= at
                 => ReadsAt(Moved(c, from, to, Size[h]), g, at)
<1> DEFINE n == Size[h]
           d == Moved(c, from, to, n)
<1>1. n \in Nat /\ MaxCap \in Nat
  BY Sizes
<1>2. /\ DOMAIN c = 0..(MaxCap - 1) /\ DOMAIN d = 0..(MaxCap - 1)
      /\ \A x \in 0..(MaxCap - 1) :
            d[x] = IF x \in to..(to + n - 1) THEN c[from + (x - to)] ELSE c[x]
  BY DEF Moved, Area
<1> HIDE DEF d
<1>3. ASSUME ReadsAt(c, h, from), NEW k \in 0..(n - 1)
      PROVE  to + k \in DOMAIN d /\ d[to + k] = <<h, k>>
  <2>1. /\ to + k \in 0..(MaxCap - 1) /\ to + k \in to..(to + n - 1)
        /\ from + ((to + k) - to) = from + k
    BY <1>1, <1>3
  <2>2. c[from + k] = <<h, k>>
    BY <1>3 DEF ReadsAt
  <2>3. d[to + k] = c[from + k]
    BY <1>2, <2>1
  <2>4. QED
    BY <1>2, <2>1, <2>2, <2>3
<1>4. ASSUME NEW g \in Hashes, NEW at \in Nat, ReadsAt(c, g, at),
             at + Size[g] <= to \/ to + n <= at, NEW k \in 0..(Size[g] - 1)
      PROVE  at + k \in DOMAIN d /\ d[at + k] = <<g, k>>
  <2>1. Size[g] \in Nat
    BY Sizes
  <2>2. at + k \in DOMAIN c /\ c[at + k] = <<g, k>>
    BY <1>4 DEF ReadsAt
  <2>3. at + k \notin to..(to + n - 1)
    BY <1>1, <1>4, <2>1
  <2>4. QED
    BY <1>2, <2>2, <2>3
<1>5. QED
  BY <1>3, <1>4 DEF ReadsAt, d

Move(c, i) ==
    IF idx[i].ref = 0 THEN c ELSE Moved(c, idx[i].off, Target(i), Size[idx[i].hash])
Moves(m) == m = [i \in 0..Len(idx) |-> IF i = 0 THEN cells ELSE Move(m[i - 1], i)]

LEMMA CellsMovedIs ==
    ASSUME idx \in Seq(Entry), next \in Nat, Ordered, cells \in Area, next <= MaxCap
    PROVE  \E m \in [0..Len(idx) -> Area] :
               /\ m[0] = cells
               /\ \A k \in 1..Len(idx) : m[k] = Move(m[k - 1], k)
               /\ CellsMoved = m[Len(idx)]
<1> DEFINE n == Len(idx)
           step == [p \in (1..n) \X Area |-> Move(p[2], p[1])]
<1>1. n \in Nat /\ DOMAIN idx = 1..n
  OBVIOUS
<1>2. ASSUME NEW k \in 1..n, NEW c \in Area PROVE Move(c, k) \in Area
  <2>1. CASE idx[k].ref = 0
    BY <2>1 DEF Move
  <2>2. CASE idx[k].ref # 0
    <3>1. idx[k].ref \in Nat /\ idx[k].off \in Nat /\ k \in DOMAIN idx /\ idx[k].hash \in Hashes
      BY <1>1, EntryIs
    <3>2. k \in Live(idx)
      BY <2>2, <3>1 DEF Live
    <3>3. Target(k) <= idx[k].off /\ Target(k) \in Nat
      <4>1. k \in 0..n /\ k <= k
        BY <1>1
      <4>2. QED
        BY <3>2, <4>1, PackedBelow, PackedGrows
    <3>4. idx[k].off + Size[idx[k].hash] <= MaxCap /\ Size[idx[k].hash] \in Nat
      <4>1. idx[k].off + Size[idx[k].hash] <= next
        BY <3>2 DEF Ordered, End
      <4>2. Size[idx[k].hash] \in Nat
        BY <3>1, Sizes
      <4>3. QED
        BY <3>1, <4>1, <4>2, Sizes
    <3>5. Moved(c, idx[k].off, Target(k), Size[idx[k].hash]) \in Area
      BY <3>1, <3>3, <3>4, MovedIs
    <3>6. QED
      BY <2>2, <3>5 DEF Move
  <2>3. QED
    BY <2>1, <2>2
<1>3. step \in [(1..n) \X Area -> Area]
  BY <1>2
<1>4. PICK g \in [0..n -> Area] : Iterates(g, n, cells, step)
  <2> HIDE DEF step, n
  <2>1. QED
    BY <1>1, <1>3, IterateExists
<1>5. ASSUME NEW k \in 1..n PROVE k - 1 \in 0..n /\ g[k] = Move(g[k - 1], k)
  <2>1. k - 1 \in 0..n
    BY <1>1
  <2>2. g[k - 1] \in Area
    BY <1>4, <2>1
  <2>3. <<k, g[k - 1]>> \in (1..n) \X Area /\ <<k, g[k - 1]>>[1] = k /\ <<k, g[k - 1]>>[2] = g[k - 1]
    BY <2>2
  <2>4. g[k] = step[<<k, g[k - 1]>>]
    BY <1>4 DEF Iterates
  <2>5. QED
    BY <2>1, <2>3, <2>4
<1>6. Moves(g)
  <2>1. \A k \in 0..n : g[k] = IF k = 0 THEN cells ELSE Move(g[k - 1], k)
    BY <1>1, <1>4, <1>5 DEF Iterates
  <2>2. g = [k \in 0..n |-> g[k]]
    BY <1>4
  <2>3. QED
    BY <2>1, <2>2 DEF Moves
<1> DEFINE m == CHOOSE a : Moves(a)
<1>7. Moves(m)
  BY <1>6
<1>8. CellsMoved = m[n]
  BY DEF CellsMoved, Moves, Move
<1> HIDE DEF m
<1>9. m[0] = cells /\ \A k \in 1..n : m[k] = Move(m[k - 1], k)
  <2>1. \A k \in 0..n : m[k] = IF k = 0 THEN cells ELSE Move(m[k - 1], k)
    BY <1>7 DEF Moves
  <2>2. 0 \in 0..n /\ \A k \in 1..n : k \in 0..n /\ k # 0
    BY <1>1
  <2>3. QED
    BY <2>1, <2>2
<1>10. \A k \in 0..n : m[k] \in Area
  <2> DEFINE T == {k \in 0..n : m[k] \in Area}
  <2>1. 0 \in T
    BY <1>1, <1>9
  <2>2. ASSUME NEW k \in 1..n, k - 1 \in T PROVE k \in T
    <3>1. k \in 0..n /\ m[k - 1] \in Area
      BY <1>1, <2>2
    <3>2. QED
      BY <1>2, <1>9, <3>1
  <2>3. 0..n \subseteq T
    <3> HIDE DEF T, n
    <3>1. QED
      BY <1>1, <2>1, <2>2, CountUp
  <2>4. QED
    BY <2>3
<1>11. m \in [0..n -> Area]
  BY <1>7, <1>10 DEF Moves
<1>12. QED
  BY <1>8, <1>9, <1>11

LEMMA CellsMovedType ==
    ASSUME idx \in Seq(Entry), next \in Nat, Ordered, cells \in Area, next <= MaxCap
    PROVE  CellsMoved \in Area
<1>1. Len(idx) \in 0..Len(idx)
  OBVIOUS
<1>2. QED
  BY <1>1, CellsMovedIs

\* No live block is lost: each can be read at its target when all are moved.
LEMMA CellsMovedRead ==
    ASSUME idx \in Seq(Entry), next \in Nat, Ordered, cells \in Area, next <= MaxCap,
           \A i \in Live(idx) : Readable(idx[i])
    PROVE  \A i \in Live(idx) : ReadsAt(CellsMoved, idx[i].hash, Target(i))
<1> DEFINE n == Len(idx)
           L == Live(idx)
           Place(i, k) == IF i <= k THEN Target(i) ELSE idx[i].off
<1>1. n \in Nat /\ DOMAIN idx = 1..n /\ L \subseteq 1..n
  BY DEF Live
<1>2. PICK m \in [0..n -> Area] :
          /\ m[0] = cells
          /\ \A k \in 1..n : m[k] = Move(m[k - 1], k)
          /\ CellsMoved = m[n]
  BY CellsMovedIs
<1>3. \A i \in L : /\ idx[i].off \in Nat /\ idx[i].hash \in Hashes /\ Size[idx[i].hash] \in Nat
                   /\ idx[i].ref # 0
                   /\ idx[i].off + Size[idx[i].hash] <= next
                   /\ Target(i) \in Nat /\ Target(i) <= idx[i].off
  <2>1. ASSUME NEW i \in L
        PROVE  /\ idx[i].off \in Nat /\ idx[i].hash \in Hashes /\ Size[idx[i].hash] \in Nat
               /\ idx[i].ref # 0
               /\ idx[i].off + Size[idx[i].hash] <= next
               /\ Target(i) \in Nat /\ Target(i) <= idx[i].off
    <3>1. i \in DOMAIN idx /\ idx[i].ref > 0 /\ i \in 0..n /\ i <= i
      BY <1>1 DEF Live
    <3>2. idx[i].off \in Nat /\ idx[i].hash \in Hashes /\ idx[i].ref # 0
      BY <3>1, EntryIs
    <3>3. Size[idx[i].hash] \in Nat
      BY <3>2, Sizes
    <3>4. idx[i].off + Size[idx[i].hash] <= next
      BY DEF Ordered, End
    <3>5. Target(i) \in Nat /\ Target(i) <= idx[i].off
      BY <3>1, PackedBelow, PackedGrows
    <3>6. QED
      BY <3>2, <3>3, <3>4, <3>5
  <2>2. QED
    BY <2>1
<1>4. \A i, j \in L : i < j => /\ idx[i].off + Size[idx[i].hash] <= idx[j].off
                               /\ Target(i) + Size[idx[i].hash] <= Target(j)
  <2>1. ASSUME NEW i \in L, NEW j \in L, i < j
        PROVE  /\ idx[i].off + Size[idx[i].hash] <= idx[j].off
               /\ Target(i) + Size[idx[i].hash] <= Target(j)
    <3>1. idx[i].off + Size[idx[i].hash] <= idx[j].off
      BY <2>1 DEF Ordered, End
    <3>2. j - 1 \in 0..n /\ i <= j - 1 /\ j \in DOMAIN idx
      BY <1>1, <2>1
    <3>3. Target(j) = Packed(j - 1)
      BY <3>2, PackedIs
    <3>4. Target(i) + Size[idx[i].hash] <= Packed(j - 1)
      BY <3>2, PackedGrows
    <3>5. QED
      BY <3>1, <3>3, <3>4
  <2>2. QED
    BY <2>1
<1> HIDE DEF n, L
<1> DEFINE T == {k \in 0..n : \A i \in L : ReadsAt(m[k], idx[i].hash, Place(i, k))}
<1>5. 0 \in T
  <2>1. ASSUME NEW i \in L PROVE ReadsAt(m[0], idx[i].hash, Place(i, 0))
    <3>1. Place(i, 0) = idx[i].off
      BY <1>1
    <3>2. ReadsAt(cells, idx[i].hash, idx[i].off)
      BY ReadableAt DEF L
    <3>3. QED
      BY <1>2, <3>1, <3>2
  <2>2. QED
    BY <1>1, <2>1
<1>6. ASSUME NEW k \in 1..n, k - 1 \in T PROVE k \in T
  <2>1. k \in 0..n /\ k - 1 \in 0..n /\ m[k - 1] \in Area /\ m[k] = Move(m[k - 1], k)
    BY <1>1, <1>2
  <2>2. \A i \in L : ReadsAt(m[k - 1], idx[i].hash, Place(i, k - 1))
    BY <1>6
  <2>3. ASSUME NEW i \in L, i # k PROVE Place(i, k) = Place(i, k - 1)
    BY <1>1, <2>3
  <2>4. CASE k \notin L
    <3>1. idx[k].ref = 0
      BY <1>1, <2>4, EntryIs DEF L, Live
    <3>2. m[k] = m[k - 1]
      BY <2>1, <3>1 DEF Move
    <3>3. \A i \in L : i # k
      BY <2>4
    <3>4. QED
      BY <2>1, <2>2, <2>3, <3>2, <3>3
  <2>5. CASE k \in L
    <3> DEFINE h == idx[k].hash
               from == idx[k].off
               to == Target(k)
    <3>1. m[k] = Moved(m[k - 1], from, to, Size[h])
      BY <1>3, <2>1, <2>5 DEF Move
    <3>2. /\ h \in Hashes /\ from \in Nat /\ to \in Nat /\ to <= from /\ Size[h] \in Nat
          /\ from + Size[h] <= MaxCap
      <4>1. /\ h \in Hashes /\ from \in Nat /\ to \in Nat /\ to <= from /\ Size[h] \in Nat
            /\ from + Size[h] <= next
        BY <1>3, <2>5
      <4>2. MaxCap \in Nat
        BY Sizes
      <4>3. QED
        BY <4>1, <4>2
    <3>3. ASSUME NEW i \in L PROVE ReadsAt(m[k], idx[i].hash, Place(i, k))
      <4>1. CASE i = k
        <5>1. Place(k, k - 1) = from /\ Place(k, k) = to
          BY <1>1
        <5>2. ReadsAt(m[k - 1], h, from)
          BY <2>2, <2>5, <5>1
        <5>3. ReadsAt(m[k], h, to)
          <6> HIDE DEF h, from, to
          <6>1. QED
            BY <2>1, <3>1, <3>2, <5>2, MovedReads
        <5>4. QED
          BY <4>1, <5>1, <5>3
      <4>2. CASE i # k
        <5> DEFINE g == idx[i].hash
                   at == Place(i, k)
        <5>1. i \in 1..n /\ k \in 1..n
          BY <1>1
        <5>2. g \in Hashes /\ at \in Nat /\ Size[g] \in Nat
          BY <1>3
        <5>3. at + Size[g] <= to \/ to + Size[h] <= at
          <6>1. CASE i < k
            <7>1. at = Target(i)
              BY <5>1, <6>1
            <7>2. QED
              BY <1>4, <2>5, <6>1, <7>1
          <6>2. CASE ~(i < k)
            <7>1. at = idx[i].off /\ k < i
              BY <4>2, <5>1, <6>2
            <7>2. from + Size[h] <= at
              BY <1>4, <2>5, <7>1
            <7>3. to + Size[h] <= at
              <8> HIDE DEF h, from, to, at
              <8>1. QED
                BY <3>2, <5>2, <7>2
            <7>4. QED
              BY <7>3
          <6>3. QED
            BY <6>1, <6>2
        <5>4. ReadsAt(m[k - 1], g, at)
          BY <2>2, <2>3, <4>2
        <5>5. ReadsAt(m[k], g, at)
          <6> HIDE DEF h, from, to, at, g
          <6>1. QED
            BY <2>1, <3>1, <3>2, <5>2, <5>3, <5>4, MovedReads
        <5>6. QED
          BY <5>5
      <4>3. QED
        BY <4>1, <4>2
    <3>4. QED
      BY <2>1, <3>3
  <2>6. QED
    BY <2>4, <2>5
<1>7. 0..n \subseteq T
  <2> HIDE DEF T
  <2>1. QED
    BY <1>1, <1>5, <1>6, CountUp
<1>8. ASSUME NEW i \in L PROVE ReadsAt(CellsMoved, idx[i].hash, Target(i))
  <2>1. n \in T /\ i <= n
    BY <1>1, <1>7
  <2>2. ReadsAt(m[n], idx[i].hash, Place(i, n)) /\ Place(i, n) = Target(i)
    BY <2>1
  <2>3. QED
    BY <1>2, <2>2
<1>9. QED
  BY <1>8 DEF L

-----------------------------------------------------------------------------
(* Types, and that no block ever lies outside the largest data area.         *)

Within(ix) == \A i \in DOMAIN ix : End(ix[i]) <= MaxCap

InArea ==
    /\ next <= MaxCap /\ saved.next <= MaxCap
    /\ Within(idx) /\ Within(saved.idx)
    /\ \A k \in DOMAIN log : End(log[k]) <= MaxCap

TypeInv == TypeOK /\ InArea

LEMMA SavedIs == ASSUME TypeOK PROVE
    /\ saved \in Disk /\ saved.idx \in Seq(Entry) /\ saved.next \in Nat /\ saved.cap \in InitCap..MaxCap
    /\ saved.cap \in Nat /\ cap \in Nat /\ cap <= MaxCap
<1>1. saved \in Disk /\ cap \in InitCap..MaxCap
  BY DEF TypeOK, Disk
<1>2. saved.idx \in Seq(Entry) /\ saved.next \in Nat /\ saved.cap \in InitCap..MaxCap
  BY <1>1 DEF Disk
<1>3. QED
  BY <1>1, <1>2, Sizes

LEMMA WithinKept ==
    ASSUME NEW ix \in Seq(Entry), NEW iy \in Seq(Entry), SameHashes(ix, iy), Within(ix),
           \A i \in DOMAIN ix : iy[i].off <= ix[i].off
    PROVE  Within(iy)
<1>1. ASSUME NEW i \in DOMAIN iy PROVE End(iy[i]) <= MaxCap
  <2>1. /\ i \in DOMAIN ix /\ iy[i].hash = ix[i].hash /\ iy[i].off <= ix[i].off
        /\ iy[i].off \in Nat /\ ix[i].off \in Nat /\ ix[i].hash \in Hashes
    BY EntryIs DEF SameHashes
  <2>2. Size[ix[i].hash] \in Nat /\ MaxCap \in Nat
    BY <2>1, Sizes
  <2>3. End(ix[i]) <= MaxCap
    BY <2>1 DEF Within
  <2>4. QED
    BY <2>1, <2>2, <2>3 DEF End
<1>2. QED
  BY <1>1 DEF Within

LEMMA PutWithin ==
    ASSUME NEW ix \in Seq(Entry), NEW h \in Hashes, NEW at \in Nat, Within(ix),
           Slot(ix, h) = {} => at + Size[h] <= MaxCap
    PROVE  Within(Put(ix, h, at))
<1>1. CASE Slot(ix, h) # {}
  <2>1. Put(ix, h, at) = AddRef(ix, h, 1)
    BY <1>1, PutIs
  <2>2. AddRef(ix, h, 1) \in Seq(Entry) /\ SameHashes(ix, AddRef(ix, h, 1))
    BY AddRefIs
  <2>3. \A i \in DOMAIN ix : AddRef(ix, h, 1)[i].off <= ix[i].off
    BY AddRefIs, EntryIs
  <2>4. QED
    BY <2>1, <2>2, <2>3, WithinKept
<1>2. CASE Slot(ix, h) = {}
  <2> DEFINE iy == Append(ix, Added(h, at))
  <2>1. Put(ix, h, at) = iy
    BY <1>2, PutIs
  <2>2. /\ DOMAIN iy = DOMAIN ix \cup {Len(ix) + 1}
        /\ \A i \in DOMAIN ix : iy[i] = ix[i]
        /\ iy[Len(ix) + 1] = Added(h, at)
    BY AppendIs
  <2>3. End(Added(h, at)) <= MaxCap
    BY <1>2 DEF Added, End
  <2> HIDE DEF iy
  <2>4. \A i \in DOMAIN iy : End(iy[i]) <= MaxCap
    BY <2>2, <2>3 DEF Within
  <2>5. QED
    BY <2>1, <2>4 DEF Within
<1>3. QED
  BY <1>1, <1>2

\* What every line of a group keeps, the replay of the group keeps.
LEMMA ReplayKeeps ==
    ASSUME NEW s \in Disk, NEW lines \in Seq(Line), NEW P \in SUBSET Disk, s \in P,
           \A d \in P, k \in 1..Len(lines) : Reregistered(d, lines[k]) \in P
    PROVE  Replay(s, lines) \in P
<1> DEFINE n == Len(lines)
<1>1. n \in Nat
  OBVIOUS
<1>2. PICK f \in [0..n -> Disk] : /\ f[0] = s
                                  /\ \A k \in 1..n : f[k] = Reregistered(f[k - 1], lines[k])
                                  /\ Replay(s, lines) = f[n]
  BY ReplayIs
<1> HIDE DEF n
<1> DEFINE T == {k \in 0..n : f[k] \in P}
<1>3. 0 \in T
  BY <1>1, <1>2
<1>4. ASSUME NEW k \in 1..n, k - 1 \in T PROVE k \in T
  <2>1. k \in 0..n /\ f[k - 1] \in P /\ f[k] = Reregistered(f[k - 1], lines[k])
    BY <1>1, <1>2, <1>4
  <2>2. Reregistered(f[k - 1], lines[k]) \in P
    BY <2>1 DEF n
  <2>3. QED
    BY <2>1, <2>2
<1>5. 0..n \subseteq T
  <2> HIDE DEF T
  <2>1. QED
    BY <1>1, <1>3, <1>4, CountUp
<1>6. QED
  BY <1>1, <1>2, <1>5

LEMMA ReplayWithin ==
    ASSUME NEW s \in Disk, NEW lines \in Seq(Line), s.next <= MaxCap, Within(s.idx),
           \A k \in DOMAIN lines : End(lines[k]) <= MaxCap
    PROVE  Replay(s, lines).next <= MaxCap /\ Within(Replay(s, lines).idx)
<1> DEFINE P == {d \in Disk : d.next <= MaxCap /\ Within(d.idx)}
<1>1. ASSUME NEW d \in P, NEW k \in 1..Len(lines) PROVE Reregistered(d, lines[k]) \in P
  <2>1. lines[k] \in Line /\ End(lines[k]) <= MaxCap /\ d \in Disk
    OBVIOUS
  <2>2. /\ Reregistered(d, lines[k]) \in Disk
        /\ Reregistered(d, lines[k]).idx = Put(d.idx, lines[k].hash, lines[k].off)
        /\ Reregistered(d, lines[k]).next = IF End(lines[k]) > d.next THEN End(lines[k]) ELSE d.next
        /\ d.idx \in Seq(Entry) /\ lines[k].hash \in Hashes /\ lines[k].off \in Nat
    BY <2>1, ReregisteredIs
  <2>3. Within(Put(d.idx, lines[k].hash, lines[k].off))
    BY <2>1, <2>2, PutWithin DEF End
  <2>4. QED
    BY <2>1, <2>2, <2>3
<1>2. s \in P /\ P \in SUBSET Disk
  OBVIOUS
<1> HIDE DEF P
<1>3. Replay(s, lines) \in P
  BY <1>1, <1>2, ReplayKeeps
<1>4. QED
  BY <1>3 DEF P

LEMMA RecoveredIs ==
    ASSUME TypeInv
    PROVE  /\ Recovered \in Disk /\ Recovered.idx \in Seq(Entry) /\ Recovered.next \in Nat
           /\ Recovered.next <= MaxCap /\ Within(Recovered.idx)
           /\ Replay(saved, log) \in Disk
<1>1. saved \in Disk /\ log \in Seq(Line)
  BY SavedIs DEF TypeInv, TypeOK, Line
<1>2. Replay(saved, log) \in Disk /\ Replay(saved, log).next <= MaxCap /\ Within(Replay(saved, log).idx)
  BY <1>1, ReplayType, ReplayWithin DEF TypeInv, InArea
<1>3. Recovered \in Disk /\ Recovered.next <= MaxCap /\ Within(Recovered.idx)
  BY <1>1, <1>2 DEF Recovered, TypeInv, InArea
<1>4. QED
  BY <1>2, <1>3 DEF Disk

LEMMA RolledBackIs ==
    ASSUME TypeOK
    PROVE  /\ RolledBack \in Seq(Entry) /\ SameHashes(idx, RolledBack)
           /\ \A i \in DOMAIN idx :
                 /\ RolledBack[i].off = idx[i].off
                 /\ RolledBack[i].ref =
                       IF ledger[idx[i].hash] > idx[i].ref THEN 0
                       ELSE idx[i].ref - ledger[idx[i].hash]
<1> DEFINE iy == RolledBack
           back(i) == IF ledger[idx[i].hash] > idx[i].ref THEN 0
                      ELSE idx[i].ref - ledger[idx[i].hash]
<1>1. idx \in Seq(Entry) /\ ledger \in [Hashes -> Int]
  BY DEF TypeOK
<1>2. ASSUME NEW i \in DOMAIN idx
      PROVE  /\ iy[i] \in Entry /\ iy[i].hash = idx[i].hash /\ iy[i].off = idx[i].off
             /\ iy[i].ref = back(i)
  <2>1. idx[i] \in Entry /\ idx[i].ref \in Nat /\ idx[i].hash \in Hashes
    BY <1>1, EntryIs
  <2>2. back(i) \in Nat
    BY <1>1, <2>1
  <2>3. iy[i] = [idx[i] EXCEPT !.ref = back(i)]
    BY DEF RolledBack
  <2> HIDE DEF iy, back
  <2>4. QED
    BY <2>1, <2>2, <2>3, Entries
<1>3. iy = [i \in DOMAIN idx |-> iy[i]]
  BY DEF RolledBack
<1> HIDE DEF iy
<1>4. iy \in Seq(Entry) /\ Len(iy) = Len(idx) /\ DOMAIN iy = DOMAIN idx
  BY <1>1, <1>2, <1>3, Mapped
<1>5. iy \in Seq(Entry) /\ SameHashes(idx, iy)
  BY <1>2, <1>4 DEF SameHashes
<1>6. QED
  BY <1>2, <1>5 DEF iy

LEMMA RetargetedIs ==
    ASSUME idx \in Seq(Entry)
    PROVE  /\ Retargeted \in Seq(Entry) /\ SameHashes(idx, Retargeted)
           /\ \A i \in DOMAIN idx :
                 /\ Retargeted[i].off = IF i \in Live(idx) THEN Target(i) ELSE idx[i].off
                 /\ Retargeted[i].ref = idx[i].ref
<1> DEFINE iy == Retargeted
<1>1. ASSUME NEW i \in DOMAIN idx
      PROVE  /\ iy[i] \in Entry /\ iy[i].hash = idx[i].hash /\ iy[i].ref = idx[i].ref
             /\ iy[i].off = IF i \in Live(idx) THEN Target(i) ELSE idx[i].off
  <2>1. idx[i] \in Entry /\ idx[i].ref \in Nat /\ DOMAIN idx = 1..Len(idx) /\ Len(idx) \in Nat
    BY EntryIs
  <2>2. i \in Live(idx) <=> idx[i].ref # 0
    BY <2>1 DEF Live
  <2>3. iy[i] = IF idx[i].ref = 0 THEN idx[i] ELSE [idx[i] EXCEPT !.off = Target(i)]
    BY DEF Retargeted
  <2>4. CASE i \in Live(idx)
    <3>1. Target(i) \in Nat
      <4>1. Target(i) = Packed(i - 1) /\ i - 1 \in 0..Len(idx)
        BY <2>1, PackedIs
      <4>2. QED
        BY <4>1, PackedIs
    <3>2. iy[i] = [idx[i] EXCEPT !.off = Target(i)]
      BY <2>2, <2>3, <2>4
    <3> HIDE DEF iy
    <3>3. QED
      BY <2>1, <2>4, <3>1, <3>2, Entries
  <2>5. CASE i \notin Live(idx)
    <3>1. iy[i] = idx[i]
      BY <2>2, <2>3, <2>5
    <3> HIDE DEF iy
    <3>2. QED
      BY <2>1, <2>5, <3>1
  <2>6. QED
    BY <2>4, <2>5
<1>2. iy = [i \in DOMAIN idx |-> iy[i]]
  BY DEF Retargeted
<1> HIDE DEF iy
<1>3. iy \in Seq(Entry) /\ Len(iy) = Len(idx) /\ DOMAIN iy = DOMAIN idx
  BY <1>1, <1>2, Mapped
<1>4. iy \in Seq(Entry) /\ SameHashes(idx, iy)
  BY <1>1, <1>3 DEF SameHashes
<1>5. QED
  BY <1>1, <1>4 DEF iy

\* The store a write begins with: the blocks may have moved down.
LEMMA RoomIs ==
    ASSUME TypeInv, NEW h
    PROVE  /\ Room(h).idx \in Seq(Entry) /\ SameHashes(idx, Room(h).idx)
           /\ \A i \in DOMAIN idx : /\ Room(h).idx[i].ref = idx[i].ref
                                    /\ Room(h).idx[i].off <= idx[i].off
           /\ Room(h).next \in Nat /\ Room(h).next <= next
           /\ Room(h).cells \in Area
           /\ Within(Room(h).idx)
<1>1. /\ idx \in Seq(Entry) /\ next \in Nat /\ cells \in Area /\ Within(idx) /\ next <= MaxCap
  BY DEF TypeInv, TypeOK, InArea, Area, Cell
<1>2. CASE Compacts(h)
  <2>1. Ordered
    BY <1>2 DEF Compacts
  <2>2. Room(h) = [idx |-> Retargeted, next |-> Width(idx, Live(idx)), cells |-> CellsMoved]
    BY <1>2 DEF Room
  <2>3. Room(h).idx = Retargeted /\ Room(h).next = Width(idx, Live(idx)) /\ Room(h).cells = CellsMoved
    BY <2>2
  <2>4. CellsMoved \in Area
    BY <1>1, <2>1, CellsMovedType
  <2>5. Width(idx, Live(idx)) \in Nat /\ Width(idx, Live(idx)) <= next
    <3>1. Packed(Len(idx)) \in Nat /\ Packed(Len(idx)) = Width(idx, Live(idx))
      <4>1. Len(idx) \in 0..Len(idx)
        BY <1>1
      <4>2. QED
        BY <1>1, <4>1, PackedIs
    <3>2. QED
      BY <1>1, <2>1, <3>1, PackedBelow
  <2>6. ASSUME NEW i \in DOMAIN idx
        PROVE  Retargeted[i].ref = idx[i].ref /\ Retargeted[i].off <= idx[i].off
    <3>1. i \in Live(idx) => Target(i) <= idx[i].off
      BY <1>1, <2>1, PackedBelow
    <3>2. idx[i].off \in Nat
      BY <1>1, EntryIs
    <3>3. Retargeted[i].off = IF i \in Live(idx) THEN Target(i) ELSE idx[i].off
      BY <1>1, RetargetedIs
    <3>4. Retargeted[i].ref = idx[i].ref
      BY <1>1, RetargetedIs
    <3>5. QED
      BY <3>1, <3>2, <3>3, <3>4
  <2>7. Retargeted \in Seq(Entry) /\ SameHashes(idx, Retargeted)
    BY <1>1, RetargetedIs
  <2>8. Within(Retargeted)
    BY <1>1, <2>6, <2>7, WithinKept
  <2>9. QED
    BY <2>3, <2>4, <2>5, <2>6, <2>7, <2>8
<1>3. CASE ~Compacts(h)
  <2>1. Room(h).idx = idx /\ Room(h).next = next /\ Room(h).cells = cells
    BY <1>3 DEF Room
  <2>2. \A i \in DOMAIN idx : idx[i].off <= idx[i].off
    BY <1>1, EntryIs
  <2>3. SameHashes(idx, idx)
    BY DEF SameHashes
  <2>4. QED
    BY <1>1, <2>1, <2>2, <2>3
<1>4. QED
  BY <1>2, <1>3

-----------------------------------------------------------------------------
(* A write, taken apart.                                                     *)

LEMMA SameSlots ==
    ASSUME NEW ix, NEW iy, SameHashes(ix, iy), NEW h
    PROVE  Slot(iy, h) = Slot(ix, h)
BY DEF SameHashes, Slot

LEMMA StoredIs ==
    ASSUME NEW c \in Area, NEW h \in Hashes, NEW at \in Nat, at + Size[h] <= MaxCap
    PROVE  /\ Stored(c, h, at) \in Area
           /\ ReadsAt(Stored(c, h, at), h, at)
           /\ \A g \in Hashes, to \in Nat :
                 ReadsAt(c, g, to) /\ to + Size[g] <= at => ReadsAt(Stored(c, h, at), g, to)
<1> DEFINE d == Stored(c, h, at)
<1>1. Size[h] \in Nat /\ MaxCap \in Nat
  BY Sizes
<1>2. /\ DOMAIN c = 0..(MaxCap - 1) /\ DOMAIN d = 0..(MaxCap - 1)
      /\ \A x \in 0..(MaxCap - 1) :
            d[x] = IF x \in at..(at + Size[h] - 1) THEN <<h, x - at>> ELSE c[x]
  BY DEF Stored, Area
<1>3. d \in Area
  <2>1. ASSUME NEW x \in 0..(MaxCap - 1) PROVE d[x] \in Cell
    <3>1. x \in at..(at + Size[h] - 1) => x - at \in Nat
      OBVIOUS
    <3>2. c[x] \in Cell
      BY DEF Area
    <3>3. CASE x \in at..(at + Size[h] - 1)
      <4>1. d[x] = <<h, x - at>>
        BY <1>2, <3>3
      <4> HIDE DEF d
      <4>2. QED
        BY <3>1, <3>3, <4>1 DEF Cell
    <3>4. CASE x \notin at..(at + Size[h] - 1)
      BY <1>2, <3>2, <3>4
    <3>5. QED
      BY <3>3, <3>4
  <2>2. d = [x \in 0..(MaxCap - 1) |-> d[x]]
    BY DEF Stored, Area
  <2> HIDE DEF d
  <2>3. QED
    BY <2>1, <2>2 DEF Area
<1> HIDE DEF d
<1>4. ReadsAt(d, h, at)
  <2>1. ASSUME NEW k \in 0..(Size[h] - 1) PROVE at + k \in DOMAIN d /\ d[at + k] = <<h, k>>
    <3>1. at + k \in 0..(MaxCap - 1) /\ at + k \in at..(at + Size[h] - 1) /\ (at + k) - at = k
      BY <1>1
    <3>2. QED
      BY <1>2, <3>1
  <2>2. QED
    BY <2>1 DEF ReadsAt
<1>5. ASSUME NEW g \in Hashes, NEW to \in Nat, ReadsAt(c, g, to), to + Size[g] <= at,
             NEW k \in 0..(Size[g] - 1)
      PROVE  to + k \in DOMAIN d /\ d[to + k] = <<g, k>>
  <2>1. to + k \in DOMAIN c /\ c[to + k] = <<g, k>>
    BY <1>5 DEF ReadsAt
  <2>2. Size[g] \in Nat
    BY Sizes
  <2>3. to + k \notin at..(at + Size[h] - 1)
    BY <1>1, <1>5, <2>2
  <2>4. QED
    BY <1>2, <2>1, <2>3
<1>6. QED
  BY <1>3, <1>4, <1>5 DEF d, ReadsAt

LEMMA FoundIs ==
    ASSUME NEW ix, NEW h, Slot(ix, h) # {}
    PROVE  Found(ix, h) \in Slot(ix, h) /\ Found(ix, h) \in DOMAIN ix /\ ix[Found(ix, h)].hash = h
BY DEF Found, Slot

LEMMA WriteIs ==
    ASSUME TypeInv, NEW r \in Recs, NEW h \in Hashes, WriteRecord(r, h)
    PROVE  /\ idx' = Put(Room(h).idx, h, Room(h).next) /\ idx' \in Seq(Entry)
           /\ Slot(Room(h).idx, h) = Slot(idx, h)
           /\ Room(h).next + Size[h] <= MaxCap
           /\ Slot(idx, h) = {} => next' = Room(h).next + Size[h]
                                   /\ cells' = Stored(Room(h).cells, h, Room(h).next)
           /\ Slot(idx, h) # {} => next' = Room(h).next /\ cells' = Room(h).cells
           /\ \E e \in Line : /\ log' = Append(log, e) /\ e.hash = h
                              /\ Slot(idx, h) = {} => e.off = Room(h).next
                              /\ Slot(idx, h) # {} =>
                                    \E i \in Slot(idx, h) : e.off = Room(h).idx[i].off
<1> DEFINE s == Room(h)
           at == IF Slot(idx, h) = {} THEN s.next ELSE s.idx[Found(idx, h)].off
           e == [hash |-> h, off |-> at]
<1>1. /\ s.idx \in Seq(Entry) /\ SameHashes(idx, s.idx) /\ s.next \in Nat
  BY RoomIs
<1>2. Slot(s.idx, h) = Slot(idx, h)
  BY <1>1, SameSlots
<1>3. s.next + Size[h] <= MaxCap
  <2>1. Size[h] \in Nat /\ MaxCap \in Nat
    BY Sizes
  <2>2. ~(s.next + Size[h] > MaxCap)
    BY DEF WriteRecord, Refuses
  <2>3. QED
    BY <1>1, <2>1, <2>2
<1>4. /\ idx' = Put(s.idx, h, s.next)
      /\ next' = IF Slot(idx, h) = {} THEN s.next + Size[h] ELSE s.next
      /\ cells' = IF Slot(idx, h) = {} THEN Stored(s.cells, h, s.next) ELSE s.cells
      /\ log' = Append(log, e)
  BY DEF WriteRecord
<1>5. idx' \in Seq(Entry)
  BY <1>1, <1>4, PutIs
<1>6. Slot(idx, h) # {} => Found(idx, h) \in Slot(idx, h) /\ Found(idx, h) \in DOMAIN s.idx
  BY <1>1, FoundIs DEF SameHashes
<1>7. at \in Nat
  BY <1>1, <1>6, EntryIs
<1>8. e \in Line /\ e.hash = h /\ e.off = at
  <2> HIDE DEF at
  <2>1. QED
    BY <1>7 DEF Line
<1> HIDE DEF e
<1>9. \E f \in Line : /\ log' = Append(log, f) /\ f.hash = h
                      /\ Slot(idx, h) = {} => f.off = s.next
                      /\ Slot(idx, h) # {} => \E i \in Slot(idx, h) : f.off = s.idx[i].off
  BY <1>4, <1>6, <1>8
<1> HIDE DEF s
<1>10. QED
  BY <1>2, <1>3, <1>4, <1>5, <1>9 DEF s

LEMMA GrownIs ==
    ASSUME cap \in InitCap..MaxCap, NEW need \in Nat, need > cap, need <= MaxCap
    PROVE  Grown(need) \in InitCap..MaxCap /\ Grown(need) \in Nat /\ Grown(need) >= need
<1>1. cap \in Nat
  BY Sizes
<1>2. QED
  BY <1>1, Sizes DEF Grown

-----------------------------------------------------------------------------
(* Every step keeps the types.                                               *)

LEMMA TypeInit == Init => TypeInv
<1> SUFFICES ASSUME Init PROVE TypeInv
  OBVIOUS
<1>1. <<>> \in Seq(Entry) /\ <<>> \in Seq([hash : Hashes, off : Nat]) /\ DOMAIN <<>> = {}
  OBVIOUS
<1>2. InitCap \in InitCap..MaxCap /\ 0 <= MaxCap /\ MaxCrashes \in Nat /\ MaxLocks \in Nat
  BY ExtentStoreAssumption
<1>3. TypeOK
  BY <1>1, <1>2 DEF Init, TypeOK, NoNet, Blank
<1>4. InArea
  BY <1>1, <1>2 DEF Init, InArea, Within
<1>5. QED
  BY <1>3, <1>4 DEF TypeInv

\* A step that only reshapes the counts of the index in memory.
LEMMA KeptInArea ==
    ASSUME TypeInv, idx' \in Seq(Entry), SameHashes(idx, idx'), UNCHANGED <<next, saved>>,
           \A i \in DOMAIN idx : idx'[i].off = idx[i].off, log' \in {log, <<>>}
    PROVE  InArea'
<1>1. \A i \in DOMAIN idx : idx'[i].off <= idx[i].off
  <2>1. idx \in Seq(Entry)
    BY DEF TypeInv, TypeOK
  <2>2. \A i \in DOMAIN idx : idx[i].off \in Nat
    BY <2>1, EntryIs
  <2>3. QED
    BY <2>2
<1>2. Within(idx')
  BY <1>1, WithinKept DEF TypeInv, TypeOK, InArea
<1>3. \A k \in DOMAIN log' : End(log'[k]) <= MaxCap
  BY DEF TypeInv, InArea
<1>4. QED
  BY <1>2, <1>3 DEF TypeInv, InArea, Within

LEMMA WriteType ==
    ASSUME TypeInv, NEW r \in Recs, NEW h \in Hashes, WriteRecord(r, h)
    PROVE  TypeInv'
<1> DEFINE s == Room(h)
<1>1. /\ s.idx \in Seq(Entry) /\ SameHashes(idx, s.idx) /\ s.next \in Nat /\ s.next <= next
      /\ s.cells \in Area /\ Within(s.idx) /\ \A i \in DOMAIN idx : s.idx[i].ref = idx[i].ref
  BY RoomIs
<1>2. /\ idx' = Put(s.idx, h, s.next) /\ idx' \in Seq(Entry)
      /\ Slot(s.idx, h) = Slot(idx, h) /\ s.next + Size[h] <= MaxCap
      /\ Slot(idx, h) = {} => next' = s.next + Size[h] /\ cells' = Stored(s.cells, h, s.next)
      /\ Slot(idx, h) # {} => next' = s.next /\ cells' = s.cells
  BY WriteIs
<1>3. PICK e \in Line : /\ log' = Append(log, e) /\ e.hash = h
                        /\ Slot(idx, h) = {} => e.off = s.next
                        /\ Slot(idx, h) # {} => \E i \in Slot(idx, h) : e.off = s.idx[i].off
  BY WriteIs
<1>4. cap' = IF s.next + Size[h] > cap THEN Grown(s.next + Size[h]) ELSE cap
  BY DEF WriteRecord
<1> HIDE DEF s
<1>5. Size[h] \in Nat /\ MaxCap \in Nat /\ next \in Nat /\ next <= MaxCap /\ log \in Seq(Line)
  BY Sizes DEF TypeInv, TypeOK, InArea, Line
<1>6. next' \in Nat /\ next' <= MaxCap
  BY <1>1, <1>2, <1>5
<1>7. cells' \in Area
  BY <1>1, <1>2, StoredIs
<1>8. cap' \in InitCap..MaxCap
  <2>1. cap \in InitCap..MaxCap
    BY DEF TypeInv, TypeOK
  <2>2. s.next + Size[h] \in Nat
    BY <1>1, <1>5
  <2>3. QED
    BY <1>2, <1>4, <2>1, <2>2, GrownIs
<1>9. log' \in Seq(Line)
  BY <1>3, <1>5
<1>10. End(e) <= MaxCap
  <2>1. CASE Slot(idx, h) = {}
    BY <1>2, <1>3, <2>1 DEF End
  <2>2. CASE Slot(idx, h) # {}
    <3>1. PICK i \in Slot(idx, h) : e.off = s.idx[i].off
      BY <1>3, <2>2
    <3>2. i \in DOMAIN s.idx /\ s.idx[i].hash = h
      BY <1>2, <3>1 DEF Slot
    <3>3. End(s.idx[i]) <= MaxCap
      BY <1>1, <3>2 DEF Within
    <3>4. QED
      BY <1>3, <3>1, <3>2, <3>3 DEF End
  <2>3. QED
    BY <2>1, <2>2
<1>11. \A k \in DOMAIN log' : End(log'[k]) <= MaxCap
  <2>1. \A k \in DOMAIN log' : (k \in DOMAIN log /\ log'[k] = log[k]) \/ log'[k] = e
    BY <1>3, <1>5
  <2>2. QED
    BY <1>10, <2>1 DEF TypeInv, InArea
<1>12. Within(idx')
  <2>1. Within(Put(s.idx, h, s.next))
    BY <1>1, <1>2, PutWithin
  <2>2. QED
    BY <1>2, <2>1
<1>13. ledger' \in [Hashes -> Int] /\ recs' \in [Recs -> Hashes \cup {NoHash}]
  BY DEF WriteRecord, TypeInv, TypeOK
<1>14. UNCHANGED <<pc, saved, group, stable, crashes, locks>>
  BY DEF WriteRecord
<1>15. TypeOK'
  BY <1>2, <1>6, <1>7, <1>8, <1>9, <1>13, <1>14 DEF TypeInv, TypeOK, Area, Cell, Line
<1>16. InArea'
  BY <1>6, <1>11, <1>12, <1>14 DEF TypeInv, InArea, Within
<1>17. QED
  BY <1>15, <1>16 DEF TypeInv

LEMMA RefusedType ==
    ASSUME TypeInv, NEW h \in Hashes, WriteRefused(h)
    PROVE  TypeInv'
<1>1. /\ Room(h).idx \in Seq(Entry) /\ Room(h).next \in Nat /\ Room(h).next <= next
      /\ Room(h).cells \in Area /\ Within(Room(h).idx)
  BY RoomIs
<1>2. /\ idx' = Room(h).idx /\ next' = Room(h).next /\ cells' = Room(h).cells /\ pc' = "refused"
      /\ UNCHANGED <<cap, ledger, recs, saved, log, group, stable, crashes, locks>>
  BY DEF WriteRefused
<1>3. TypeOK'
  BY <1>1, <1>2 DEF TypeInv, TypeOK, Area, Cell
<1>4. next' <= MaxCap
  BY <1>1, <1>2, Sizes DEF TypeInv, TypeOK, InArea
<1>5. InArea'
  BY <1>1, <1>2, <1>4 DEF TypeInv, InArea, Within
<1>6. QED
  BY <1>3, <1>5 DEF TypeInv

LEMMA DeleteType ==
    ASSUME TypeInv, NEW r \in Recs, DeleteRecord(r)
    PROVE  TypeInv'
<1>1. /\ idx' = Release(idx, recs[r]) /\ recs' = [recs EXCEPT ![r] = NoHash]
      /\ ledger' = [ledger EXCEPT ![recs[r]] = @ - 1] /\ recs[r] # NoHash
      /\ UNCHANGED <<pc, next, cap, saved, cells, log, group, stable, crashes, locks>>
  BY DEF DeleteRecord
<1>2. idx \in Seq(Entry)
  BY DEF TypeInv, TypeOK
<1>3. /\ idx' \in Seq(Entry) /\ SameHashes(idx, idx')
      /\ \A i \in DOMAIN idx : idx'[i].off = idx[i].off
  BY <1>1, <1>2, ReleaseIs
<1>4. ledger' \in [Hashes -> Int] /\ recs' \in [Recs -> Hashes \cup {NoHash}]
  BY <1>1 DEF TypeInv, TypeOK
<1>5. TypeOK'
  BY <1>1, <1>3, <1>4 DEF TypeInv, TypeOK
<1>6. InArea'
  BY <1>1, <1>3, KeptInArea
<1>7. QED
  BY <1>5, <1>6 DEF TypeInv

LEMMA AbortType == ASSUME TypeInv, Abort PROVE TypeInv'
<1>1. /\ idx' = RolledBack /\ ledger' = NoNet /\ recs' = stable /\ log' = <<>> /\ group' = "none"
      /\ pc' = "idle" /\ UNCHANGED <<next, cap, saved, cells, stable, crashes, locks>>
  BY DEF Abort
<1>2. /\ idx' \in Seq(Entry) /\ SameHashes(idx, idx')
      /\ \A i \in DOMAIN idx : idx'[i].off = idx[i].off
  BY <1>1, RolledBackIs DEF TypeInv
<1>3. NoNet \in [Hashes -> Int] /\ <<>> \in Seq([hash : Hashes, off : Nat])
  BY DEF NoNet
<1>4. TypeOK'
  BY <1>1, <1>2, <1>3 DEF TypeInv, TypeOK
<1>5. InArea'
  BY <1>1, <1>2, KeptInArea
<1>6. QED
  BY <1>4, <1>5 DEF TypeInv

LEMMA CallType ==
    ASSUME TypeInv, Begin \/ Commit \/ Confirm \/ RecoveryCover \/ RecoveryReset
    PROVE  TypeInv'
<1>1. NoNet \in [Hashes -> Int] /\ <<>> \in Seq([hash : Hashes, off : Nat]) /\ DOMAIN <<>> = {}
  BY DEF NoNet
<1>2. CASE Begin
  BY <1>1, <1>2 DEF Begin, TypeInv, TypeOK, InArea, Within
<1>3. CASE Commit
  <2>1. saved' = [saved EXCEPT !.cap = cap]
    BY <1>3 DEF Commit
  <2>2. saved' \in Disk /\ saved'.idx = saved.idx /\ saved'.next = saved.next
    BY <2>1 DEF TypeInv, TypeOK, Disk
  <2>3. TypeOK'
    BY <1>3, <2>2 DEF Commit, TypeInv, TypeOK, Disk
  <2>4. InArea'
    BY <1>3, <2>2 DEF Commit, TypeInv, InArea, Within
  <2>5. QED
    BY <2>3, <2>4 DEF TypeInv
<1>4. CASE Confirm
  BY <1>1, <1>4 DEF Confirm, TypeInv, TypeOK, InArea, Within
<1>5. CASE RecoveryCover
  BY <1>5 DEF RecoveryCover, TypeInv, TypeOK, InArea, Within
<1>6. CASE RecoveryReset
  BY <1>1, <1>6 DEF RecoveryReset, TypeInv, TypeOK, InArea, Within
<1>7. QED
  BY <1>2, <1>3, <1>4, <1>5, <1>6

LEMMA SaveIs ==
    ASSUME TypeInv, SaveIndex \/ RecoverySave
    PROVE  /\ saved' \in Disk /\ saved'.idx = idx /\ saved'.next = next /\ saved'.cap = saved.cap
           /\ UNCHANGED <<idx, next, cap, recs, cells, log, group, stable, crashes, locks>>
           /\ ledger' \in [Hashes -> Int] /\ pc' = IF SaveIndex THEN "saved" ELSE "resaved"
<1>1. saved' = [saved EXCEPT !.idx = idx, !.next = next]
  BY DEF SaveIndex, RecoverySave
<1>2. saved' \in Disk /\ saved'.idx = idx /\ saved'.next = next /\ saved'.cap = saved.cap
  BY <1>1 DEF TypeInv, TypeOK, Disk
<1>3. NoNet \in [Hashes -> Int]
  BY DEF NoNet
<1>4. QED
  BY <1>2, <1>3 DEF SaveIndex, RecoverySave, TypeInv, TypeOK

LEMMA SaveType ==
    ASSUME TypeInv, SaveIndex \/ RecoverySave
    PROVE  TypeInv'
<1>1. TypeOK'
  BY SaveIs DEF TypeInv, TypeOK, Disk
<1>2. InArea'
  BY SaveIs DEF TypeInv, InArea, Within
<1>3. QED
  BY <1>1, <1>2 DEF TypeInv

LEMMA SessionType ==
    ASSUME TypeInv, Lock \/ Crash \/ Open
    PROVE  TypeInv'
<1>1. /\ NoNet \in [Hashes -> Int] /\ <<>> \in Seq(Entry) /\ DOMAIN <<>> = {} /\ 0 <= MaxCap
      /\ saved.cap \in InitCap..MaxCap
  BY Sizes, SavedIs DEF NoNet, TypeInv
<1>2. CASE Lock \/ Crash
  <2>1. Close /\ crashes' \in 0..MaxCrashes /\ locks' \in 0..MaxLocks
    <3>1. /\ crashes \in 0..MaxCrashes /\ locks \in 0..MaxLocks
          /\ MaxCrashes \in Nat /\ MaxLocks \in Nat
      BY ExtentStoreAssumption DEF TypeInv, TypeOK
    <3>2. CASE Lock
      BY <3>1, <3>2 DEF Lock
    <3>3. CASE Crash
      BY <3>1, <3>3 DEF Crash
    <3>4. QED
      BY <1>2, <3>2, <3>3
  <2>2. TypeOK'
    BY <1>1, <2>1 DEF Close, TypeInv, TypeOK
  <2>3. InArea'
    BY <1>1, <2>1 DEF Close, TypeInv, InArea, Within
  <2>4. QED
    BY <2>2, <2>3 DEF TypeInv
<1>3. CASE Open
  <2>1. /\ idx' = Recovered.idx /\ next' = Recovered.next /\ cap' = saved.cap /\ recs' = stable
        /\ ledger' = NoNet /\ pc' \in {"replayed", "recovered"}
        /\ UNCHANGED <<saved, cells, log, group, stable, crashes, locks>>
    BY <1>3 DEF Open
  <2>2. /\ Recovered.idx \in Seq(Entry) /\ Recovered.next \in Nat
        /\ Recovered.next <= MaxCap /\ Within(Recovered.idx)
    BY RecoveredIs
  <2>3. TypeOK'
    BY <1>1, <2>1, <2>2 DEF TypeInv, TypeOK
  <2>4. InArea'
    BY <2>1, <2>2 DEF TypeInv, InArea, Within
  <2>5. QED
    BY <2>3, <2>4 DEF TypeInv
<1>4. QED
  BY <1>2, <1>3

LEMMA TypeNext == ASSUME TypeInv, [Next]_vars PROVE TypeInv'
<1>1. CASE UNCHANGED vars
  BY <1>1 DEF vars, TypeInv, TypeOK, InArea, Within
<1>2. CASE \E h \in Hashes : WriteRefused(h) \/ \E r \in Recs : WriteRecord(r, h)
  BY <1>2, WriteType, RefusedType
<1>3. CASE \E r \in Recs : DeleteRecord(r)
  BY <1>3, DeleteType
<1>4. CASE Next
  BY <1>2, <1>3, <1>4, AbortType, CallType, SaveType, SessionType DEF Next
<1>5. QED
  BY <1>1, <1>4

LEMMA TypesHold == Spec => []TypeInv
BY TypeInit, TypeNext, PTL DEF Spec

\* The store keeps to its types, and every block to the data area, whatever the
\* contents, sizes and bounds are, with compactions, crashes and locks.
THEOREM StoreTypes == Spec => []TypeOK
<1>1. TypeInv => TypeOK
  BY DEF TypeInv
<1>2. QED
  BY <1>1, TypesHold, PTL

-----------------------------------------------------------------------------
(* Counting: one entry for each content.                                     *)

OneSlot(ix) == \A i, j \in DOMAIN ix : ix[i].hash = ix[j].hash => i = j

\* One more for the content h.
More(g, h) == IF g = h THEN 1 ELSE 0

LEMMA RefCountAt ==
    ASSUME NEW ix \in Seq(Entry), OneSlot(ix), NEW h
    PROVE  /\ \A i \in Slot(ix, h) : RefCount(ix, h) = ix[i].ref
           /\ Slot(ix, h) = {} => RefCount(ix, h) = 0
           /\ RefCount(ix, h) \in Nat
<1>1. ASSUME NEW i \in Slot(ix, h) PROVE RefCount(ix, h) = ix[i].ref /\ RefCount(ix, h) \in Nat
  <2>1. Found(ix, h) \in DOMAIN ix /\ ix[Found(ix, h)].hash = h
    BY FoundIs
  <2>2. i \in DOMAIN ix /\ ix[i].hash = h
    BY DEF Slot
  <2>3. Found(ix, h) = i
    BY <2>1, <2>2 DEF OneSlot
  <2>4. RefCount(ix, h) = ix[i].ref
    BY <2>3 DEF RefCount
  <2>5. QED
    BY <2>2, <2>4, EntryIs
<1>2. Slot(ix, h) = {} => RefCount(ix, h) = 0
  BY DEF RefCount
<1>3. QED
  BY <1>1, <1>2

LEMMA OneSlotKept ==
    ASSUME NEW ix, NEW iy, OneSlot(ix), SameHashes(ix, iy)
    PROVE  OneSlot(iy)
BY DEF OneSlot, SameHashes

LEMMA SameCounts ==
    ASSUME NEW ix \in Seq(Entry), NEW iy \in Seq(Entry), OneSlot(ix), SameHashes(ix, iy),
           \A i \in DOMAIN ix : iy[i].ref = ix[i].ref, NEW h
    PROVE  RefCount(iy, h) = RefCount(ix, h)
<1>1. OneSlot(iy) /\ Slot(iy, h) = Slot(ix, h)
  BY OneSlotKept, SameSlots
<1>2. CASE Slot(ix, h) = {}
  BY <1>1, <1>2, RefCountAt
<1>3. CASE Slot(ix, h) # {}
  <2>1. PICK i \in Slot(ix, h) : i \in DOMAIN ix
    BY <1>3 DEF Slot
  <2>2. RefCount(ix, h) = ix[i].ref /\ RefCount(iy, h) = iy[i].ref
    BY <1>1, RefCountAt
  <2>3. QED
    BY <2>1, <2>2
<1>4. QED
  BY <1>2, <1>3

LEMMA PutCounts ==
    ASSUME NEW ix \in Seq(Entry), NEW h \in Hashes, NEW at \in Nat, OneSlot(ix)
    PROVE  /\ OneSlot(Put(ix, h, at))
           /\ \A g : Slot(Put(ix, h, at), g) # {} <=> Slot(ix, g) # {} \/ g = h
           /\ \A g : RefCount(Put(ix, h, at), g) = RefCount(ix, g) + More(g, h)
<1>1. CASE Slot(ix, h) # {}
  <2> DEFINE iy == AddRef(ix, h, 1)
  <2>1. /\ Put(ix, h, at) = iy /\ iy \in Seq(Entry) /\ SameHashes(ix, iy)
        /\ \A i \in DOMAIN ix : iy[i].ref = ix[i].ref + (IF ix[i].hash = h THEN 1 ELSE 0)
    <3>1. Put(ix, h, at) = iy
      BY <1>1, PutIs
    <3>2. QED
      BY <3>1, AddRefIs
  <2> HIDE DEF iy
  <2>2. OneSlot(iy) /\ \A g : Slot(iy, g) = Slot(ix, g)
    BY <2>1, OneSlotKept, SameSlots
  <2>3. ASSUME NEW g PROVE RefCount(iy, g) = RefCount(ix, g) + More(g, h)
    <3>1. CASE Slot(ix, g) = {}
      <4>1. g # h /\ RefCount(ix, g) = 0 /\ RefCount(iy, g) = 0
        BY <1>1, <2>1, <2>2, <3>1, RefCountAt
      <4>2. QED
        BY <4>1 DEF More
    <3>2. CASE Slot(ix, g) # {}
      <4>1. PICK i \in Slot(ix, g) : i \in DOMAIN ix /\ ix[i].hash = g
        BY <3>2 DEF Slot
      <4>2. RefCount(ix, g) = ix[i].ref /\ RefCount(iy, g) = iy[i].ref
        BY <2>1, <2>2, RefCountAt
      <4>3. QED
        BY <2>1, <4>1, <4>2 DEF More
    <3>3. QED
      BY <3>1, <3>2
  <2>4. QED
    BY <1>1, <2>1, <2>2, <2>3
<1>2. CASE Slot(ix, h) = {}
  <2> DEFINE iy == Append(ix, Added(h, at))
             n == Len(ix) + 1
  <2>1. Put(ix, h, at) = iy
    BY <1>2, PutIs
  <2>2. /\ iy \in Seq(Entry) /\ DOMAIN iy = DOMAIN ix \cup {n} /\ n \notin DOMAIN ix
        /\ \A i \in DOMAIN ix : iy[i] = ix[i]
        /\ iy[n] = Added(h, at)
    BY AppendIs
  <2>3. iy[n].hash = h /\ iy[n].ref = 1
    BY <2>2 DEF Added
  <2> HIDE DEF iy, n
  <2>4. \A i \in DOMAIN ix : ix[i].hash # h
    BY <1>2 DEF Slot
  <2>5. OneSlot(iy)
    BY <2>2, <2>3, <2>4 DEF OneSlot
  <2>6. \A g : Slot(iy, g) = Slot(ix, g) \cup (IF g = h THEN {n} ELSE {})
    BY <2>2, <2>3 DEF Slot
  <2>7. ASSUME NEW g PROVE RefCount(iy, g) = RefCount(ix, g) + More(g, h)
    <3>1. CASE g = h
      <4>1. n \in Slot(iy, g) /\ RefCount(ix, g) = 0
        BY <1>2, <2>6, <3>1, RefCountAt
      <4>2. RefCount(iy, g) = 1
        BY <2>2, <2>3, <2>5, <4>1, RefCountAt
      <4>3. QED
        BY <3>1, <4>1, <4>2 DEF More
    <3>2. CASE g # h /\ Slot(ix, g) = {}
      <4>1. Slot(iy, g) = {} /\ RefCount(ix, g) = 0
        BY <2>6, <3>2, RefCountAt
      <4>2. QED
        BY <2>2, <2>5, <3>2, <4>1, RefCountAt DEF More
    <3>3. CASE g # h /\ Slot(ix, g) # {}
      <4>1. PICK i \in Slot(ix, g) : i \in DOMAIN ix /\ i \in Slot(iy, g)
        BY <2>6, <3>3 DEF Slot
      <4>2. RefCount(ix, g) = ix[i].ref /\ RefCount(iy, g) = iy[i].ref /\ RefCount(ix, g) \in Nat
        BY <2>2, <2>5, <4>1, RefCountAt
      <4>3. QED
        BY <2>2, <3>3, <4>1, <4>2 DEF More
    <3>4. QED
      BY <3>1, <3>2, <3>3
  <2>8. \A g : Slot(iy, g) # {} <=> Slot(ix, g) # {} \/ g = h
    BY <2>6
  <2>9. QED
    BY <2>1, <2>5, <2>7, <2>8
<1>3. QED
  BY <1>1, <1>2

LEMMA ReleaseCounts ==
    ASSUME NEW ix \in Seq(Entry), NEW h, OneSlot(ix), RefCount(ix, h) > 0, NEW g
    PROVE  RefCount(Release(ix, h), g) = RefCount(ix, g) - More(g, h)
<1> DEFINE iy == Release(ix, h)
<1>1. /\ iy \in Seq(Entry) /\ SameHashes(ix, iy)
      /\ \A i \in DOMAIN ix :
            iy[i].ref = IF ix[i].hash = h /\ ix[i].ref > 0 THEN ix[i].ref - 1 ELSE ix[i].ref
  BY ReleaseIs
<1> HIDE DEF iy
<1>2. OneSlot(iy) /\ Slot(iy, g) = Slot(ix, g)
  BY <1>1, OneSlotKept, SameSlots
<1>3. CASE Slot(ix, g) = {}
  <2>1. RefCount(ix, g) = 0 /\ RefCount(iy, g) = 0 /\ g # h
    BY <1>1, <1>2, <1>3, RefCountAt
  <2>2. More(g, h) = 0
    BY <2>1 DEF More
  <2>3. RefCount(iy, g) = RefCount(ix, g) - More(g, h)
    BY <2>1, <2>2
  <2>4. QED
    BY <2>3 DEF iy
<1>4. CASE Slot(ix, g) # {}
  <2>1. PICK i \in Slot(ix, g) : i \in DOMAIN ix /\ ix[i].hash = g
    BY <1>4 DEF Slot
  <2>2. RefCount(ix, g) = ix[i].ref /\ RefCount(iy, g) = iy[i].ref /\ ix[i].ref \in Nat
    BY <1>1, <1>2, RefCountAt, EntryIs
  <2>3. iy[i].ref = IF g = h /\ ix[i].ref > 0 THEN ix[i].ref - 1 ELSE ix[i].ref
    BY <1>1, <2>1
  <2>4. g = h => ix[i].ref > 0
    BY <2>2
  <2>5. RefCount(iy, g) = RefCount(ix, g) - More(g, h)
    BY <2>2, <2>3, <2>4 DEF More
  <2>6. QED
    BY <2>5 DEF iy
<1>5. QED
  BY <1>3, <1>4

LEMMA BackCounts ==
    ASSUME TypeOK, OneSlot(idx), NEW h \in Hashes
    PROVE  /\ Slot(idx, h) # {} => RefCount(RolledBack, h) =
                 IF ledger[h] > RefCount(idx, h) THEN 0 ELSE RefCount(idx, h) - ledger[h]
           /\ Slot(idx, h) = {} => RefCount(RolledBack, h) = 0
<1> DEFINE iy == RolledBack
<1>1. /\ iy \in Seq(Entry) /\ SameHashes(idx, iy) /\ idx \in Seq(Entry)
      /\ \A i \in DOMAIN idx :
            iy[i].ref = IF ledger[idx[i].hash] > idx[i].ref THEN 0
                        ELSE idx[i].ref - ledger[idx[i].hash]
  BY RolledBackIs DEF TypeOK
<1> HIDE DEF iy
<1>2. OneSlot(iy) /\ Slot(iy, h) = Slot(idx, h)
  BY <1>1, OneSlotKept, SameSlots
<1>3. Slot(idx, h) = {} => RefCount(iy, h) = 0
  BY <1>1, <1>2, RefCountAt
<1>4. ASSUME NEW i \in Slot(idx, h)
      PROVE  RefCount(iy, h) = IF ledger[h] > RefCount(idx, h) THEN 0 ELSE RefCount(idx, h) - ledger[h]
  <2>1. i \in DOMAIN idx /\ idx[i].hash = h
    BY DEF Slot
  <2>2. RefCount(idx, h) = idx[i].ref /\ RefCount(iy, h) = iy[i].ref
    BY <1>1, <1>2, RefCountAt
  <2>3. QED
    BY <1>1, <2>1, <2>2
<1>5. QED
  BY <1>3, <1>4 DEF iy

\* The replay only adds.
LEMMA ReplayCounts ==
    ASSUME NEW s \in Disk, NEW lines \in Seq(Line), OneSlot(s.idx)
    PROVE  /\ OneSlot(Replay(s, lines).idx)
           /\ \A h \in Hashes : RefCount(Replay(s, lines).idx, h) >= RefCount(s.idx, h)
<1> DEFINE P == {d \in Disk : /\ OneSlot(d.idx)
                              /\ \A h \in Hashes : RefCount(d.idx, h) >= RefCount(s.idx, h)}
<1>1. ASSUME NEW d \in P, NEW k \in 1..Len(lines) PROVE Reregistered(d, lines[k]) \in P
  <2> DEFINE e == lines[k]
  <2>1. e \in Line /\ d \in Disk /\ OneSlot(d.idx)
    OBVIOUS
  <2> HIDE DEF e
  <2>2. /\ Reregistered(d, e) \in Disk /\ Reregistered(d, e).idx = Put(d.idx, e.hash, e.off)
        /\ d.idx \in Seq(Entry) /\ e.hash \in Hashes /\ e.off \in Nat
    BY <2>1, ReregisteredIs
  <2>3. /\ OneSlot(Put(d.idx, e.hash, e.off))
        /\ \A h : RefCount(Put(d.idx, e.hash, e.off), h) = RefCount(d.idx, h) + More(h, e.hash)
    BY <2>1, <2>2, PutCounts
  <2>4. ASSUME NEW h \in Hashes
        PROVE  RefCount(Put(d.idx, e.hash, e.off), h) >= RefCount(s.idx, h)
    <3>1. RefCount(d.idx, h) >= RefCount(s.idx, h)
      OBVIOUS
    <3>2. RefCount(d.idx, h) \in Nat /\ RefCount(s.idx, h) \in Nat
      BY <2>1, <2>2, RefCountAt DEF Disk
    <3>3. QED
      BY <2>3, <3>1, <3>2 DEF More
  <2>5. QED
    BY <2>2, <2>3, <2>4 DEF e
<1>2. s \in P /\ P \in SUBSET Disk
  <2>1. \A h \in Hashes : RefCount(s.idx, h) \in Nat
    BY RefCountAt DEF Disk
  <2>2. QED
    BY <2>1
<1> HIDE DEF P
<1>3. Replay(s, lines) \in P
  BY <1>1, <1>2, ReplayKeeps
<1>4. QED
  BY <1>3 DEF P

-----------------------------------------------------------------------------
(* The holders of a content.                                                 *)

RecMap == [Recs -> Hashes \cup {NoHash}]

LEMMA HoldersIs ==
    ASSUME NEW rs \in RecMap, NEW h
    PROVE  /\ Holders(rs, h) \in Nat
           /\ \A r \in Recs : rs[r] = h => Holders(rs, h) >= 1
           /\ Holders(rs, h) = 0 \/ \E r \in Recs : rs[r] = h
<1> DEFINE S == {r \in Recs : rs[r] = h}
<1>1. IsFiniteSet(S)
  BY Sizes, FS_Subset
<1>2. Cardinality(S) \in Nat /\ (Cardinality(S) = 0 <=> S = {})
  BY <1>1, FS_CardinalityType, FS_EmptySet
<1>3. Holders(rs, h) = Cardinality(S)
  BY DEF Holders
<1>4. QED
  BY <1>2, <1>3

\* A record is given a content, or loses the one it has.
LEMMA HoldersSet ==
    ASSUME NEW rs \in RecMap, NEW r \in Recs, NEW h \in Hashes, NEW g
    PROVE  /\ rs[r] = NoHash /\ g \in Hashes =>
                 Holders([rs EXCEPT ![r] = h], g) = Holders(rs, g) + More(g, h)
           /\ rs[r] = h /\ g \in Hashes =>
                 Holders([rs EXCEPT ![r] = NoHash], g) = Holders(rs, g) - More(g, h)
<1> DEFINE S == {q \in Recs : rs[q] = g}
<1>1. IsFiniteSet(S) /\ Holders(rs, g) = Cardinality(S) /\ Cardinality(S) \in Nat
  <2>1. IsFiniteSet(S)
    BY Sizes, FS_Subset
  <2>2. QED
    BY <2>1, FS_CardinalityType DEF Holders
<1>2. NoHash \notin Hashes
  BY Sizes
<1>3. ASSUME rs[r] = NoHash, g \in Hashes
      PROVE  Holders([rs EXCEPT ![r] = h], g) = Holders(rs, g) + More(g, h)
  <2> DEFINE T == {q \in Recs : [rs EXCEPT ![r] = h][q] = g}
  <2>1. r \notin S /\ T = IF g = h THEN S \cup {r} ELSE S
    BY <1>2, <1>3 DEF RecMap
  <2>2. Holders([rs EXCEPT ![r] = h], g) = Cardinality(T)
    BY DEF Holders
  <2> HIDE DEF S, T
  <2>3. Cardinality(S \cup {r}) = Cardinality(S) + 1
    BY <1>1, <2>1, FS_AddElement
  <2>4. QED
    BY <1>1, <2>1, <2>2, <2>3 DEF More
<1>4. ASSUME rs[r] = h, g \in Hashes
      PROVE  Holders([rs EXCEPT ![r] = NoHash], g) = Holders(rs, g) - More(g, h)
  <2> DEFINE T == {q \in Recs : [rs EXCEPT ![r] = NoHash][q] = g}
  <2>1. T = IF g = h THEN S \ {r} ELSE S
    BY <1>2, <1>4 DEF RecMap
  <2>2. g = h => r \in S
    BY <1>4
  <2>3. Holders([rs EXCEPT ![r] = NoHash], g) = Cardinality(T)
    BY DEF Holders
  <2> HIDE DEF S, T
  <2>4. g = h => Cardinality(S \ {r}) = Cardinality(S) - 1
    BY <1>1, <2>2, FS_RemoveElement
  <2>5. QED
    BY <1>1, <2>1, <2>3, <2>4 DEF More
<1>5. QED
  BY <1>3, <1>4

-----------------------------------------------------------------------------
(* The reference counts.                                                     *)

Replayed == Replay(saved, log)
InCall == pc \in {"write", "delete", "refused"}

Covers(ix, rs) == \A h \in Hashes : RefCount(ix, h) >= Holders(rs, h)
Counts(ix, rs) == \A h \in Hashes : RefCount(ix, h) = Holders(rs, h)

\* Which group is in the log while a call or a recovery is under way.
PhaseOK ==
    /\ pc = "idle" => group = "none" /\ log = <<>>
    /\ InCall => group = "open"
    /\ pc \in {"committed", "saved", "replayed", "resaved"} => group = "sealed"
    /\ pc = "recovered" => group # "sealed"
    /\ ~InCall => recs = stable

SlotsOK ==
    /\ OneSlot(idx) /\ OneSlot(saved.idx)
    /\ InCall => \A h \in Hashes : ledger[h] # 0 => Slot(idx, h) # {}

\* The ledger is what the call has changed.
LedgerOK == InCall => \A h \in Hashes : Holders(recs, h) = Holders(stable, h) + ledger[h]

\* Nothing is counted too low: not in memory, not in what the disk would give
\* after a crash, not in what it will give when the call is committed.
CountsOK ==
    /\ pc # "closed" => Covers(idx, recs)
    /\ group # "sealed" \/ pc \in {"saved", "resaved"} => Covers(saved.idx, stable)
    /\ group = "sealed" => Covers(Replayed.idx, stable)
    /\ pc \in {"write", "delete"} => Covers(Replayed.idx, recs)

ExactOK ==
    crashes = 0 =>
        /\ pc # "closed" => Counts(idx, recs)
        /\ pc # "committed" => Counts(saved.idx, stable)
        /\ group = "sealed" => pc \in {"committed", "saved"}

RefsInv == PhaseOK /\ SlotsOK /\ LedgerOK /\ CountsOK /\ ExactOK

LEMMA StateTypes ==
    ASSUME TypeInv, SlotsOK
    PROVE  /\ idx \in Seq(Entry) /\ next \in Nat /\ ledger \in [Hashes -> Int]
           /\ saved \in Disk /\ saved.idx \in Seq(Entry) /\ saved.next \in Nat /\ log \in Seq(Line)
           /\ recs \in RecMap /\ stable \in RecMap
           /\ Replayed \in Disk /\ Replayed.idx \in Seq(Entry) /\ OneSlot(Replayed.idx)
           /\ \A h \in Hashes : /\ RefCount(idx, h) \in Nat /\ RefCount(saved.idx, h) \in Nat
                                /\ RefCount(Replayed.idx, h) \in Nat
                                /\ RefCount(Replayed.idx, h) >= RefCount(saved.idx, h)
                                /\ Holders(recs, h) \in Nat /\ Holders(stable, h) \in Nat
                                /\ ledger[h] \in Int
<1>1. /\ idx \in Seq(Entry) /\ next \in Nat /\ ledger \in [Hashes -> Int]
      /\ saved \in Disk /\ saved.idx \in Seq(Entry) /\ saved.next \in Nat /\ log \in Seq(Line)
      /\ recs \in RecMap /\ stable \in RecMap
  BY SavedIs DEF TypeInv, TypeOK, Line, RecMap
<1>2. /\ Replayed \in Disk /\ OneSlot(Replayed.idx)
      /\ \A h \in Hashes : RefCount(Replayed.idx, h) >= RefCount(saved.idx, h)
  BY <1>1, ReplayType, ReplayCounts DEF Replayed, SlotsOK
<1>3. Replayed.idx \in Seq(Entry)
  BY <1>2 DEF Disk
<1>4. \A h \in Hashes : /\ RefCount(idx, h) \in Nat /\ RefCount(saved.idx, h) \in Nat
                        /\ RefCount(Replayed.idx, h) \in Nat
                        /\ Holders(recs, h) \in Nat /\ Holders(stable, h) \in Nat
                        /\ ledger[h] \in Int
  BY <1>1, <1>2, <1>3, RefCountAt, HoldersIs DEF SlotsOK
<1>5. QED
  BY <1>1, <1>2, <1>3, <1>4

\* The replay does not look at the capacity.
LEMMA SameReplay ==
    ASSUME NEW s \in Disk, NEW t \in Disk, s.idx = t.idx, s.next = t.next, NEW lines \in Seq(Line)
    PROVE  /\ Replay(s, lines).idx = Replay(t, lines).idx
           /\ Replay(s, lines).next = Replay(t, lines).next
<1> DEFINE n == Len(lines)
<1>1. n \in Nat /\ \A k \in 1..n : lines[k] \in Line
  OBVIOUS
<1>2. PICK f \in [0..n -> Disk] : /\ f[0] = s
                                  /\ \A k \in 1..n : f[k] = Reregistered(f[k - 1], lines[k])
                                  /\ Replay(s, lines) = f[n]
  BY ReplayIs
<1>3. PICK g \in [0..n -> Disk] : /\ g[0] = t
                                  /\ \A k \in 1..n : g[k] = Reregistered(g[k - 1], lines[k])
                                  /\ Replay(t, lines) = g[n]
  BY ReplayIs
<1> HIDE DEF n
<1> DEFINE T == {k \in 0..n : f[k].idx = g[k].idx /\ f[k].next = g[k].next}
<1>4. 0 \in T
  BY <1>1, <1>2, <1>3
<1>5. ASSUME NEW k \in 1..n, k - 1 \in T PROVE k \in T
  <2>1. /\ k \in 0..n /\ f[k - 1] \in Disk /\ g[k - 1] \in Disk /\ lines[k] \in Line
        /\ f[k - 1].idx = g[k - 1].idx /\ f[k - 1].next = g[k - 1].next
    BY <1>1, <1>5
  <2>2. f[k] = Reregistered(f[k - 1], lines[k]) /\ g[k] = Reregistered(g[k - 1], lines[k])
    BY <1>2, <1>3
  <2>3. ASSUME NEW d, d = f[k - 1]
        PROVE  /\ Reregistered(d, lines[k]).idx = Put(d.idx, lines[k].hash, lines[k].off)
               /\ Reregistered(d, lines[k]).next =
                     IF End(lines[k]) > d.next THEN End(lines[k]) ELSE d.next
    BY <2>1, <2>3, ReregisteredIs
  <2>4. ASSUME NEW d, d = g[k - 1]
        PROVE  /\ Reregistered(d, lines[k]).idx = Put(d.idx, lines[k].hash, lines[k].off)
               /\ Reregistered(d, lines[k]).next =
                     IF End(lines[k]) > d.next THEN End(lines[k]) ELSE d.next
    BY <2>1, <2>4, ReregisteredIs
  <2>5. f[k].idx = g[k].idx /\ f[k].next = g[k].next
    BY <2>1, <2>2, <2>3, <2>4
  <2>6. QED
    BY <2>1, <2>5
<1>6. 0..n \subseteq T
  <2> HIDE DEF T
  <2>1. QED
    BY <1>1, <1>4, <1>5, CountUp
<1>7. n \in T
  BY <1>1, <1>6
<1>8. QED
  BY <1>2, <1>3, <1>7

LEMMA EmptyIndex ==
    OneSlot(<<>>) /\ \A h : RefCount(<<>>, h) = 0 /\ Slot(<<>>, h) = {}
<1>1. DOMAIN <<>> = {}
  OBVIOUS
<1>2. QED
  BY <1>1 DEF OneSlot, RefCount, Slot

LEMMA RefsInit == Init => RefsInv
<1> SUFFICES ASSUME Init PROVE RefsInv
  OBVIOUS
<1>1. saved.idx = <<>> /\ idx = <<>> /\ log = <<>> /\ group = "none" /\ pc = "closed" /\ recs = stable
  BY DEF Init
<1>2. \A r \in Recs : stable[r] = NoHash
  BY <1>1 DEF Init
<1>3. \A h \in Hashes : Holders(stable, h) = 0
  <2>1. ASSUME NEW h \in Hashes PROVE Holders(stable, h) = 0
    <3>1. stable \in RecMap
      BY <1>1 DEF Init, RecMap
    <3>2. h # NoHash
      BY Sizes
    <3>3. QED
      BY <1>2, <3>1, <3>2, HoldersIs
  <2>2. QED
    BY <2>1
<1>4. PhaseOK /\ SlotsOK /\ LedgerOK
  BY <1>1, EmptyIndex DEF PhaseOK, SlotsOK, LedgerOK, InCall
<1>5. CountsOK /\ ExactOK
  BY <1>1, <1>3, EmptyIndex DEF CountsOK, ExactOK, Covers, Counts
<1>6. QED
  BY <1>4, <1>5 DEF RefsInv

LEMMA WriteRefs ==
    ASSUME TypeInv, RefsInv, NEW r \in Recs, NEW h \in Hashes, WriteRecord(r, h)
    PROVE  RefsInv'
<1> DEFINE s == Room(h)
<1>1. /\ s.idx \in Seq(Entry) /\ SameHashes(idx, s.idx) /\ s.next \in Nat
      /\ \A i \in DOMAIN idx : s.idx[i].ref = idx[i].ref
  BY RoomIs
<1>2. idx' = Put(s.idx, h, s.next)
  BY WriteIs
<1>3. PICK e \in Line : log' = Append(log, e) /\ e.hash = h
  BY WriteIs
<1> HIDE DEF s
<1>4. /\ pc = "write" /\ recs[r] = NoHash /\ ledger' = [ledger EXCEPT ![h] = @ + 1]
      /\ recs' = [recs EXCEPT ![r] = h] /\ UNCHANGED <<pc, saved, group, stable, crashes, locks>>
  BY DEF WriteRecord
<1>5. /\ idx \in Seq(Entry) /\ OneSlot(idx) /\ OneSlot(saved.idx) /\ saved \in Disk /\ log \in Seq(Line)
      /\ recs \in RecMap /\ Replayed \in Disk /\ Replayed.idx \in Seq(Entry) /\ OneSlot(Replayed.idx)
      /\ ledger \in [Hashes -> Int]
  BY StateTypes DEF RefsInv, SlotsOK
<1>6. /\ OneSlot(idx') /\ \A g : Slot(idx', g) # {} <=> Slot(idx, g) # {} \/ g = h
      /\ \A g : RefCount(idx', g) = RefCount(idx, g) + More(g, h)
  <2>1. OneSlot(s.idx) /\ \A g : Slot(s.idx, g) = Slot(idx, g) /\ RefCount(s.idx, g) = RefCount(idx, g)
    BY <1>1, <1>5, OneSlotKept, SameSlots, SameCounts
  <2>2. QED
    BY <1>1, <1>2, <2>1, PutCounts
<1>7. \A g \in Hashes : Holders(recs', g) = Holders(recs, g) + More(g, h)
  BY <1>4, <1>5, HoldersSet
<1>8. \A g : RefCount(Replayed'.idx, g) = RefCount(Replayed.idx, g) + More(g, h)
  <2>1. Replayed' = Reregistered(Replayed, e)
    BY <1>3, <1>4, <1>5, ReplayAppend DEF Replayed
  <2>2. /\ Reregistered(Replayed, e).idx = Put(Replayed.idx, h, e.off) /\ e.off \in Nat
    BY <1>3, <1>5, ReregisteredIs
  <2>3. QED
    BY <1>5, <2>1, <2>2, PutCounts
<1>9. /\ InCall /\ InCall' /\ group = "open" /\ group' = "open"
  BY <1>4 DEF RefsInv, PhaseOK, InCall
<1>10. /\ \A g \in Hashes : /\ RefCount(idx, g) \in Nat /\ RefCount(Replayed.idx, g) \in Nat
                            /\ Holders(recs, g) \in Nat /\ Holders(stable, g) \in Nat
                            /\ ledger[g] \in Int /\ More(g, h) \in Nat
                            /\ ledger'[g] = ledger[g] + More(g, h)
  <2>1. \A g \in Hashes : More(g, h) \in Nat /\ ledger'[g] = ledger[g] + More(g, h)
    BY <1>4, <1>5 DEF More
  <2>2. QED
    BY <2>1, StateTypes DEF RefsInv
<1>11. PhaseOK'
  BY <1>4, <1>9 DEF RefsInv, PhaseOK
<1>12. SlotsOK'
  <2>1. ASSUME NEW g \in Hashes, ledger'[g] # 0 PROVE Slot(idx', g) # {}
    <3>1. g = h \/ ledger[g] # 0
      BY <1>10, <2>1 DEF More
    <3>2. QED
      BY <1>6, <1>9, <3>1 DEF RefsInv, SlotsOK
  <2>2. QED
    BY <1>4, <1>5, <1>6, <2>1 DEF SlotsOK
<1>13. LedgerOK'
  <2>1. ASSUME NEW g \in Hashes PROVE Holders(recs', g) = Holders(stable, g) + ledger'[g]
    <3>1. Holders(recs, g) = Holders(stable, g) + ledger[g]
      BY <1>9 DEF RefsInv, LedgerOK
    <3>2. QED
      BY <1>7, <1>10, <3>1
  <2>2. QED
    BY <1>4, <2>1 DEF LedgerOK
<1>14. CountsOK'
  <2>1. ASSUME NEW g \in Hashes
        PROVE  /\ RefCount(idx', g) >= Holders(recs', g)
               /\ RefCount(Replayed'.idx, g) >= Holders(recs', g)
    <3>1. RefCount(idx, g) >= Holders(recs, g) /\ RefCount(Replayed.idx, g) >= Holders(recs, g)
      BY <1>4 DEF RefsInv, CountsOK, Covers
    <3>2. QED
      BY <1>6, <1>7, <1>8, <1>10, <3>1
  <2>2. Covers(saved.idx, stable)
    BY <1>9 DEF RefsInv, CountsOK
  <2>3. QED
    BY <1>4, <1>9, <2>1, <2>2 DEF CountsOK, Covers
<1>15. ExactOK'
  <2>1. ASSUME crashes = 0, NEW g \in Hashes PROVE RefCount(idx', g) = Holders(recs', g)
    <3>1. RefCount(idx, g) = Holders(recs, g)
      BY <1>4, <2>1 DEF RefsInv, ExactOK, Counts
    <3>2. QED
      BY <1>6, <1>7, <3>1
  <2>2. QED
    BY <1>4, <1>9, <2>1 DEF RefsInv, ExactOK, Counts
<1>16. QED
  BY <1>11, <1>12, <1>13, <1>14, <1>15 DEF RefsInv

LEMMA RefusedRefs ==
    ASSUME TypeInv, RefsInv, NEW h \in Hashes, WriteRefused(h)
    PROVE  RefsInv'
<1>1. /\ Room(h).idx \in Seq(Entry) /\ SameHashes(idx, Room(h).idx)
      /\ \A i \in DOMAIN idx : Room(h).idx[i].ref = idx[i].ref
  BY RoomIs
<1>2. /\ pc = "write" /\ pc' = "refused" /\ idx' = Room(h).idx
      /\ UNCHANGED <<ledger, recs, saved, log, group, stable, crashes, locks>>
  BY DEF WriteRefused
<1>3. idx \in Seq(Entry) /\ OneSlot(idx)
  BY DEF TypeInv, TypeOK, RefsInv, SlotsOK
<1>4. OneSlot(idx') /\ \A g : Slot(idx', g) = Slot(idx, g) /\ RefCount(idx', g) = RefCount(idx, g)
  BY <1>1, <1>2, <1>3, OneSlotKept, SameSlots, SameCounts
<1>5. Replayed' = Replayed /\ InCall /\ InCall'
  BY <1>2 DEF Replayed, InCall
<1>6. PhaseOK' /\ LedgerOK'
  BY <1>2, <1>5 DEF RefsInv, PhaseOK, LedgerOK
<1>7. SlotsOK'
  BY <1>2, <1>4, <1>5 DEF RefsInv, SlotsOK
<1>8. CountsOK' /\ ExactOK'
  BY <1>2, <1>4, <1>5 DEF RefsInv, CountsOK, ExactOK, Covers, Counts
<1>9. QED
  BY <1>6, <1>7, <1>8 DEF RefsInv

LEMMA DeleteRefs ==
    ASSUME TypeInv, RefsInv, NEW r \in Recs, DeleteRecord(r)
    PROVE  RefsInv'
<1> DEFINE h == recs[r]
<1>1. /\ pc = "delete" /\ h # NoHash /\ recs' = [recs EXCEPT ![r] = NoHash]
      /\ ledger' = [ledger EXCEPT ![h] = @ - 1] /\ idx' = Release(idx, h)
      /\ UNCHANGED <<pc, saved, log, group, stable, crashes, locks>>
  BY DEF DeleteRecord
<1>2. /\ idx \in Seq(Entry) /\ OneSlot(idx) /\ recs \in RecMap /\ ledger \in [Hashes -> Int]
      /\ \A g \in Hashes : /\ RefCount(idx, g) \in Nat /\ RefCount(Replayed.idx, g) \in Nat
                           /\ Holders(recs, g) \in Nat /\ Holders(stable, g) \in Nat
                           /\ ledger[g] \in Int
  BY StateTypes DEF RefsInv, SlotsOK
<1>3. h \in Hashes
  BY <1>1, <1>2 DEF RecMap
<1>4. RefCount(idx, h) > 0 /\ Slot(idx, h) # {}
  <2>1. RefCount(idx, h) >= Holders(recs, h) /\ Holders(recs, h) >= 1
    BY <1>1, <1>2, <1>3, HoldersIs DEF RefsInv, CountsOK, Covers
  <2>2. RefCount(idx, h) > 0
    BY <1>2, <1>3, <2>1
  <2>3. QED
    BY <1>2, <2>2, RefCountAt
<1> HIDE DEF h
<1>5. Replayed' = Replayed /\ InCall /\ InCall'
  BY <1>1 DEF Replayed, InCall
<1>6. /\ OneSlot(idx') /\ \A g : Slot(idx', g) = Slot(idx, g)
      /\ \A g : RefCount(idx', g) = RefCount(idx, g) - More(g, h)
  <2>1. OneSlot(Release(idx, h)) /\ \A g : Slot(Release(idx, h), g) = Slot(idx, g)
    BY <1>2, ReleaseIs, OneSlotKept, SameSlots
  <2>2. \A g : RefCount(Release(idx, h), g) = RefCount(idx, g) - More(g, h)
    BY <1>2, <1>4, ReleaseCounts
  <2>3. QED
    BY <1>1, <2>1, <2>2
<1>7. \A g \in Hashes : Holders(recs', g) = Holders(recs, g) - More(g, h)
  <2>1. recs[r] = h
    BY DEF h
  <2>2. QED
    BY <1>1, <1>2, <1>3, <2>1, HoldersSet
<1>8. \A g \in Hashes : More(g, h) \in Nat /\ ledger'[g] = ledger[g] - More(g, h)
  BY <1>1, <1>2, <1>3 DEF More
<1>9. PhaseOK'
  BY <1>1, <1>5 DEF RefsInv, PhaseOK
<1>10. SlotsOK'
  <2>1. ASSUME NEW g \in Hashes, ledger'[g] # 0 PROVE Slot(idx', g) # {}
    <3>1. g = h \/ ledger[g] # 0
      BY <1>2, <1>8, <2>1 DEF More
    <3>2. QED
      BY <1>4, <1>5, <1>6, <3>1 DEF RefsInv, SlotsOK
  <2>2. QED
    BY <1>1, <1>6, <2>1 DEF RefsInv, SlotsOK
<1>11. LedgerOK'
  <2>1. ASSUME NEW g \in Hashes PROVE Holders(recs', g) = Holders(stable, g) + ledger'[g]
    <3>1. Holders(recs, g) = Holders(stable, g) + ledger[g]
      BY <1>5 DEF RefsInv, LedgerOK
    <3>2. QED
      BY <1>2, <1>7, <1>8, <3>1
  <2>2. QED
    BY <1>1, <2>1 DEF LedgerOK
<1>12. CountsOK'
  <2>1. ASSUME NEW g \in Hashes
        PROVE  /\ RefCount(idx', g) >= Holders(recs', g)
               /\ RefCount(Replayed.idx, g) >= Holders(recs', g)
    <3>1. RefCount(idx, g) >= Holders(recs, g) /\ RefCount(Replayed.idx, g) >= Holders(recs, g)
      BY <1>1 DEF RefsInv, CountsOK, Covers
    <3>2. QED
      BY <1>2, <1>6, <1>7, <1>8, <3>1
  <2>2. Covers(saved.idx, stable) /\ group' # "sealed"
    BY <1>1, <1>5 DEF RefsInv, PhaseOK, CountsOK
  <2>3. QED
    BY <1>1, <1>5, <2>1, <2>2 DEF CountsOK, Covers
<1>13. ExactOK'
  <2>1. ASSUME crashes = 0, NEW g \in Hashes PROVE RefCount(idx', g) = Holders(recs', g)
    <3>1. RefCount(idx, g) = Holders(recs, g)
      BY <1>1, <2>1 DEF RefsInv, ExactOK, Counts
    <3>2. QED
      BY <1>6, <1>7, <3>1
  <2>2. QED
    BY <1>1, <2>1 DEF RefsInv, ExactOK, Counts
<1>14. QED
  BY <1>9, <1>10, <1>11, <1>12, <1>13 DEF RefsInv

\* Taking back the net of each content gives what the committed records hold.
LEMMA AbortRefs == ASSUME TypeInv, RefsInv, Abort PROVE RefsInv'
<1>1. /\ InCall /\ idx' = RolledBack /\ recs' = stable /\ log' = <<>> /\ group' = "none"
      /\ pc' = "idle" /\ UNCHANGED <<saved, stable, crashes, locks>>
  BY DEF Abort, InCall
<1>2. /\ idx \in Seq(Entry) /\ OneSlot(idx)
      /\ \A g \in Hashes : /\ RefCount(idx, g) \in Nat /\ Holders(recs, g) \in Nat
                           /\ Holders(stable, g) \in Nat /\ ledger[g] \in Int
  BY StateTypes DEF RefsInv, SlotsOK
<1>3. OneSlot(idx')
  BY <1>1, <1>2, RolledBackIs, OneSlotKept DEF TypeInv
<1>4. pc # "closed" /\ group # "sealed" /\ pc # "committed" /\ pc' # "closed"
  BY <1>1 DEF InCall, RefsInv, PhaseOK
<1>5. ASSUME NEW g \in Hashes
      PROVE  /\ RefCount(idx', g) >= Holders(stable, g)
             /\ crashes = 0 => RefCount(idx', g) = Holders(stable, g)
  <2>1. /\ Holders(recs, g) = Holders(stable, g) + ledger[g]
        /\ RefCount(idx, g) >= Holders(recs, g)
        /\ crashes = 0 => RefCount(idx, g) = Holders(recs, g)
        /\ ledger[g] # 0 => Slot(idx, g) # {}
    BY <1>1, <1>4 DEF RefsInv, LedgerOK, CountsOK, Covers, ExactOK, Counts, SlotsOK
  <2>2. CASE Slot(idx, g) # {}
    <3>1. RefCount(idx', g) = IF ledger[g] > RefCount(idx, g) THEN 0 ELSE RefCount(idx, g) - ledger[g]
      BY <1>1, <1>2, <2>2, BackCounts DEF TypeInv
    <3>2. QED
      BY <1>2, <2>1, <3>1
  <2>3. CASE Slot(idx, g) = {}
    <3>1. RefCount(idx', g) = 0 /\ RefCount(idx, g) = 0
      BY <1>1, <1>2, <2>3, BackCounts, RefCountAt DEF TypeInv
    <3>2. QED
      BY <1>2, <2>1, <2>3, <3>1
  <2>4. QED
    BY <2>2, <2>3
<1>6. PhaseOK' /\ LedgerOK'
  BY <1>1 DEF PhaseOK, LedgerOK, InCall
<1>7. SlotsOK'
  BY <1>1, <1>3 DEF RefsInv, SlotsOK, InCall
<1>8. CountsOK'
  BY <1>1, <1>4, <1>5 DEF RefsInv, CountsOK, Covers
<1>9. ExactOK'
  BY <1>1, <1>4, <1>5 DEF RefsInv, ExactOK, Counts
<1>10. QED
  BY <1>6, <1>7, <1>8, <1>9 DEF RefsInv

LEMMA BeginRefs == ASSUME TypeInv, RefsInv, Begin PROVE RefsInv'
<1>1. /\ pc = "idle" /\ pc' \in {"write", "delete"} /\ group' = "open" /\ ledger' = NoNet
      /\ UNCHANGED <<idx, recs, saved, log, stable, crashes>>
  BY DEF Begin
<1>2. group = "none" /\ log = <<>> /\ recs = stable
  BY <1>1 DEF RefsInv, PhaseOK, InCall
<1>3. \A g \in Hashes : ledger'[g] = 0 /\ Holders(stable, g) \in Nat
  BY <1>1, StateTypes DEF NoNet, RefsInv
<1>4. Replayed' = saved
  BY <1>1, <1>2, StateTypes, ReplayEmpty DEF Replayed, RefsInv
<1>5. PhaseOK' /\ SlotsOK'
  BY <1>1, <1>3 DEF RefsInv, PhaseOK, SlotsOK, InCall
<1>6. LedgerOK'
  BY <1>1, <1>2, <1>3 DEF LedgerOK
<1>7. CountsOK' /\ ExactOK'
  BY <1>1, <1>2, <1>4 DEF RefsInv, CountsOK, ExactOK, Covers, Counts
<1>8. QED
  BY <1>5, <1>6, <1>7 DEF RefsInv

LEMMA CommitRefs == ASSUME TypeInv, RefsInv, Commit PROVE RefsInv'
<1>1. /\ pc \in {"write", "delete"} /\ pc' = "committed" /\ group' = "sealed" /\ stable' = recs
      /\ saved' = [saved EXCEPT !.cap = cap] /\ UNCHANGED <<idx, recs, log, crashes>>
  BY DEF Commit
<1>2. saved' \in Disk /\ saved'.idx = saved.idx /\ saved'.next = saved.next
  BY <1>1 DEF TypeInv, TypeOK, Disk
<1>3. Replayed'.idx = Replayed.idx
  BY <1>1, <1>2, SameReplay, StateTypes DEF Replayed, RefsInv
<1>4. PhaseOK' /\ SlotsOK' /\ LedgerOK'
  BY <1>1, <1>2 DEF RefsInv, PhaseOK, SlotsOK, LedgerOK, InCall
<1>5. CountsOK' /\ ExactOK'
  BY <1>1, <1>2, <1>3 DEF RefsInv, CountsOK, ExactOK, Covers, Counts
<1>6. QED
  BY <1>4, <1>5 DEF RefsInv

LEMMA SaveRefs == ASSUME TypeInv, RefsInv, SaveIndex \/ RecoverySave PROVE RefsInv'
<1>1. /\ pc \in {"committed", "replayed"} /\ pc' = IF SaveIndex THEN "saved" ELSE "resaved"
      /\ saved' \in Disk /\ saved'.idx = idx /\ UNCHANGED <<idx, recs, log, group, stable, crashes>>
  BY SaveIs DEF SaveIndex, RecoverySave
<1>2. group = "sealed" /\ recs = stable /\ pc # "closed" /\ ~InCall /\ ~InCall'
  BY <1>1 DEF RefsInv, PhaseOK, InCall
<1>3. OneSlot(idx) /\ log \in Seq(Line)
  BY StateTypes DEF RefsInv, SlotsOK
<1>4. /\ OneSlot(Replayed'.idx)
      /\ \A g \in Hashes : /\ RefCount(Replayed'.idx, g) >= RefCount(idx, g)
                           /\ RefCount(Replayed'.idx, g) \in Nat
  <2>1. /\ OneSlot(Replay(saved', log).idx) /\ Replay(saved', log) \in Disk
        /\ \A g \in Hashes : RefCount(Replay(saved', log).idx, g) >= RefCount(idx, g)
    BY <1>1, <1>3, ReplayCounts, ReplayType
  <2>2. \A g \in Hashes : RefCount(Replay(saved', log).idx, g) \in Nat
    BY <2>1, RefCountAt DEF Disk
  <2>3. QED
    BY <1>1, <2>1, <2>2 DEF Replayed
<1>5. ASSUME NEW g \in Hashes PROVE RefCount(Replayed'.idx, g) >= Holders(stable, g)
  <2>1. RefCount(idx, g) >= Holders(stable, g)
    BY <1>2 DEF RefsInv, CountsOK, Covers
  <2>2. RefCount(idx, g) \in Nat /\ Holders(stable, g) \in Nat
    BY StateTypes DEF RefsInv
  <2>3. QED
    BY <1>4, <2>1, <2>2
<1>6. PhaseOK' /\ SlotsOK' /\ LedgerOK'
  BY <1>1, <1>2, <1>3 DEF RefsInv, PhaseOK, SlotsOK, LedgerOK
<1>7. CountsOK'
  BY <1>1, <1>2, <1>5 DEF RefsInv, CountsOK, Covers, InCall
<1>8. ExactOK'
  <2>1. ASSUME crashes = 0 PROVE SaveIndex
    BY <1>2, <2>1 DEF RefsInv, ExactOK, RecoverySave
  <2>2. QED
    BY <1>1, <1>2, <2>1 DEF RefsInv, ExactOK, Counts
<1>9. QED
  BY <1>6, <1>7, <1>8 DEF RefsInv

LEMMA EndRefs ==
    ASSUME TypeInv, RefsInv, Confirm \/ RecoveryCover \/ RecoveryReset
    PROVE  RefsInv'
<1>1. /\ pc \in {"saved", "resaved", "recovered"} /\ pc' \in {"idle", "recovered"}
      /\ group' \in {"none", "covered"}
      /\ pc' = "idle" => group' = "none" /\ log' = <<>>
      /\ UNCHANGED <<idx, recs, saved, stable, crashes>>
  BY DEF Confirm, RecoveryCover, RecoveryReset
<1>2. Covers(saved.idx, stable) /\ recs = stable /\ Covers(idx, recs)
  BY <1>1 DEF RefsInv, PhaseOK, CountsOK, InCall
<1>3. PhaseOK' /\ SlotsOK' /\ LedgerOK'
  BY <1>1, <1>2 DEF RefsInv, PhaseOK, SlotsOK, LedgerOK, InCall
<1>4. CountsOK' /\ ExactOK'
  BY <1>1, <1>2 DEF RefsInv, CountsOK, ExactOK, Covers, Counts
<1>5. QED
  BY <1>3, <1>4 DEF RefsInv

LEMMA SessionRefs ==
    ASSUME TypeInv, RefsInv, Lock \/ Crash \/ Open
    PROVE  RefsInv'
<1>1. CASE Lock \/ Crash
  <2>1. /\ pc # "closed" /\ pc' = "closed" /\ idx' = <<>> /\ recs' = stable
        /\ UNCHANGED <<saved, log, group, stable>>
        /\ (crashes' = crashes /\ pc = "idle") \/ crashes' # 0
    <3>1. crashes \in Nat
      BY ExtentStoreAssumption DEF TypeInv, TypeOK
    <3>2. QED
      BY <1>1, <3>1 DEF Lock, Crash, Close
  <2>2. Replayed' = Replayed
    BY <2>1 DEF Replayed
  <2>3. PhaseOK' /\ SlotsOK' /\ LedgerOK'
    BY <2>1, EmptyIndex DEF RefsInv, PhaseOK, SlotsOK, LedgerOK, InCall
  <2>4. CountsOK'
    BY <2>1, <2>2 DEF RefsInv, CountsOK, Covers
  <2>5. ExactOK'
    BY <2>1 DEF RefsInv, ExactOK, PhaseOK, Counts
  <2>6. QED
    BY <2>3, <2>4, <2>5 DEF RefsInv
<1>2. CASE Open
  <2>1. /\ pc = "closed" /\ pc' = (IF group = "sealed" THEN "replayed" ELSE "recovered")
        /\ idx' = Recovered.idx /\ recs' = stable
        /\ UNCHANGED <<saved, log, group, stable, crashes>>
    BY <1>2 DEF Open
  <2>2. Replayed' = Replayed /\ Recovered = IF group = "sealed" THEN Replayed ELSE saved
    BY <2>1 DEF Replayed, Recovered
  <2>3. OneSlot(Recovered.idx)
    BY <2>2, StateTypes DEF RefsInv, SlotsOK
  <2>4. Covers(Recovered.idx, stable)
    BY <2>2 DEF RefsInv, CountsOK
  <2>5. PhaseOK' /\ SlotsOK' /\ LedgerOK'
    BY <2>1, <2>3 DEF RefsInv, PhaseOK, SlotsOK, LedgerOK, InCall
  <2>6. CountsOK'
    BY <2>1, <2>2, <2>4 DEF RefsInv, CountsOK, Covers
  <2>7. ExactOK'
    BY <2>1, <2>2 DEF RefsInv, ExactOK, Counts
  <2>8. QED
    BY <2>5, <2>6, <2>7 DEF RefsInv
<1>3. QED
  BY <1>1, <1>2

LEMMA RefsNext == ASSUME TypeInv, RefsInv, [Next]_vars PROVE RefsInv'
<1>1. CASE UNCHANGED vars
  <2>1. UNCHANGED <<pc, idx, ledger, recs, saved, log, group, stable, crashes>>
    BY <1>1 DEF vars
  <2>2. PhaseOK' /\ SlotsOK' /\ LedgerOK' /\ ExactOK'
    BY <2>1 DEF RefsInv, PhaseOK, SlotsOK, LedgerOK, ExactOK, InCall, Counts
  <2>3. CountsOK'
    BY <2>1 DEF RefsInv, CountsOK, Covers, Replayed
  <2>4. QED
    BY <2>2, <2>3 DEF RefsInv
<1>2. CASE \E h \in Hashes : WriteRefused(h) \/ \E r \in Recs : WriteRecord(r, h)
  BY <1>2, WriteRefs, RefusedRefs
<1>3. CASE \E r \in Recs : DeleteRecord(r)
  BY <1>3, DeleteRefs
<1>4. CASE Next
  BY <1>2, <1>3, <1>4, AbortRefs, BeginRefs, CommitRefs, SaveRefs, EndRefs, SessionRefs DEF Next
<1>5. QED
  BY <1>1, <1>4

LEMMA RefsHold == Spec => [](TypeInv /\ RefsInv)
<1>1. Init => TypeInv /\ RefsInv
  BY TypeInit, RefsInit
<1>2. TypeInv /\ RefsInv /\ [Next]_vars => (TypeInv /\ RefsInv)'
  BY TypeNext, RefsNext
<1>3. QED
  BY <1>1, <1>2, PTL DEF Spec

LEMMA RefsAreTrue == TypeInv /\ RefsInv => RefsTrue
<1> SUFFICES ASSUME TypeInv, RefsInv PROVE RefsTrue
  OBVIOUS
<1>1. Covers(Recovered.idx, stable)
  BY DEF RefsInv, CountsOK, Recovered, Replayed
<1>2. QED
  BY <1>1 DEF RefsInv, CountsOK, ExactOK, Covers, Counts, RefsTrue

\* A count is never too low, in memory and in what an unlock would arrive at,
\* and exact between two calls as long as nothing crashed: also with contents
\* that are written again, with compaction, and for any number of crashes.
THEOREM CountsAreTrue == Spec => []RefsTrue
BY RefsHold, RefsAreTrue, PTL

-------------------------------------------------------------------------------
(* What is on disk stays readable, as long as nothing is moved.            *)

\* No write finds the data area full and starts a compaction.
NoCompaction == pc = "write" => \A h \in Hashes : ~Compacts(h)

\* Every entry, dead or not, can be read and ends below the cursor.
Intact(c, ix, nx) ==
    \A i \in DOMAIN ix : ReadsAt(c, ix[i].hash, ix[i].off) /\ End(ix[i]) <= nx

\* A block is written above all that the memory, the index frame on disk and
\* the log refer to.
AreaOK ==
    /\ Intact(cells, saved.idx, saved.next)
    /\ pc # "closed" => Intact(cells, idx, next) /\ saved.next <= next
    /\ \A k \in DOMAIN log : ReadsAt(cells, log[k].hash, log[k].off)
    /\ pc = "write" => \A k \in DOMAIN log : End(log[k]) <= next

LEMMA IntactKept ==
    ASSUME NEW c, NEW ix \in Seq(Entry), NEW iy \in Seq(Entry), NEW nx, SameHashes(ix, iy),
           \A i \in DOMAIN ix : iy[i].off = ix[i].off, Intact(c, ix, nx)
    PROVE  Intact(c, iy, nx)
<1>1. ASSUME NEW i \in DOMAIN iy
      PROVE  ReadsAt(c, iy[i].hash, iy[i].off) /\ End(iy[i]) <= nx
  <2>1. i \in DOMAIN ix /\ iy[i].hash = ix[i].hash /\ iy[i].off = ix[i].off
    BY DEF SameHashes
  <2>2. ReadsAt(c, ix[i].hash, ix[i].off) /\ End(ix[i]) <= nx
    BY <2>1 DEF Intact
  <2>3. QED
    BY <2>1, <2>2 DEF End
<1>2. QED
  BY <1>1 DEF Intact

LEMMA IntactStored ==
    ASSUME NEW c \in Area, NEW ix \in Seq(Entry), NEW nx \in Nat, Intact(c, ix, nx),
           NEW h \in Hashes, NEW at \in Nat, nx <= at, at + Size[h] <= MaxCap
    PROVE  Intact(Stored(c, h, at), ix, nx)
<1>1. ASSUME NEW i \in DOMAIN ix
      PROVE  ReadsAt(Stored(c, h, at), ix[i].hash, ix[i].off) /\ End(ix[i]) <= nx
  <2>1. /\ ReadsAt(c, ix[i].hash, ix[i].off) /\ End(ix[i]) <= nx
        /\ ix[i].hash \in Hashes /\ ix[i].off \in Nat /\ End(ix[i]) \in Nat
        /\ End(ix[i]) = ix[i].off + Size[ix[i].hash]
    BY EntryIs DEF Intact, End
  <2>2. ix[i].off + Size[ix[i].hash] <= at
    BY <2>1
  <2>3. QED
    BY <2>1, <2>2, StoredIs
<1>2. QED
  BY <1>1 DEF Intact

LEMMA IntactHigher ==
    ASSUME NEW c, NEW ix \in Seq(Entry), NEW nx \in Nat, NEW ny \in Nat, nx <= ny, Intact(c, ix, nx)
    PROVE  Intact(c, ix, ny)
<1>1. ASSUME NEW i \in DOMAIN ix
      PROVE  ReadsAt(c, ix[i].hash, ix[i].off) /\ End(ix[i]) <= ny
  BY EntryIs DEF Intact
<1>2. QED
  BY <1>1 DEF Intact

\* Registering a block that is in the data area.
LEMMA IntactPut ==
    ASSUME NEW c, NEW ix \in Seq(Entry), NEW nx \in Nat, NEW h \in Hashes, NEW at \in Nat,
           Intact(c, ix, nx), Slot(ix, h) = {} => ReadsAt(c, h, at) /\ at + Size[h] <= nx
    PROVE  Intact(c, Put(ix, h, at), nx)
<1>1. CASE Slot(ix, h) # {}
  <2>1. Put(ix, h, at) = AddRef(ix, h, 1)
    BY <1>1, PutIs
  <2>2. QED
    BY <2>1, AddRefIs, IntactKept
<1>2. CASE Slot(ix, h) = {}
  <2> DEFINE iy == Append(ix, Added(h, at))
  <2>1. Put(ix, h, at) = iy
    BY <1>2, PutIs
  <2>2. /\ DOMAIN iy = DOMAIN ix \cup {Len(ix) + 1}
        /\ \A i \in DOMAIN ix : iy[i] = ix[i]
        /\ iy[Len(ix) + 1] = Added(h, at)
    BY AppendIs
  <2> HIDE DEF iy
  <2>3. ASSUME NEW i \in DOMAIN iy
        PROVE  ReadsAt(c, iy[i].hash, iy[i].off) /\ End(iy[i]) <= nx
    <3>1. CASE i \in DOMAIN ix
      <4>1. iy[i] = ix[i]
        BY <2>2, <3>1
      <4>2. QED
        BY <3>1, <4>1 DEF Intact
    <3>2. CASE i = Len(ix) + 1
      <4>1. iy[i].hash = h /\ iy[i].off = at
        BY <2>2, <3>2 DEF Added
      <4>2. QED
        BY <1>2, <4>1 DEF End
    <3>3. QED
      BY <2>2, <3>1, <3>2
  <2>4. QED
    BY <2>1, <2>3 DEF Intact
<1>3. QED
  BY <1>1, <1>2

LEMMA ReplayIntact ==
    ASSUME NEW s \in Disk, NEW lines \in Seq(Line), NEW c, Intact(c, s.idx, s.next),
           \A k \in DOMAIN lines : ReadsAt(c, lines[k].hash, lines[k].off)
    PROVE  /\ Intact(c, Replay(s, lines).idx, Replay(s, lines).next)
           /\ s.next <= Replay(s, lines).next
<1> DEFINE P == {d \in Disk : Intact(c, d.idx, d.next) /\ s.next <= d.next}
<1>1. s.next \in Nat
  BY DEF Disk
<1>2. s \in P
  BY <1>1
<1>3. ASSUME NEW d \in P, NEW k \in 1..Len(lines) PROVE Reregistered(d, lines[k]) \in P
  <2>1. lines[k] \in Line /\ k \in DOMAIN lines
    OBVIOUS
  <2> DEFINE e == lines[k]
             t == Reregistered(d, e)
  <2>2. d \in Disk /\ e \in Line
    BY <2>1
  <2>3. ReadsAt(c, e.hash, e.off)
    BY <2>1
  <2> HIDE DEF e
  <2>4. /\ t \in Disk /\ t.idx = Put(d.idx, e.hash, e.off)
        /\ t.next = IF End(e) > d.next THEN End(e) ELSE d.next
        /\ e.hash \in Hashes /\ e.off \in Nat /\ End(e) \in Nat
        /\ d.idx \in Seq(Entry) /\ d.next \in Nat
    BY <2>2, ReregisteredIs
  <2> HIDE DEF t
  <2>5. t.next \in Nat /\ d.next <= t.next /\ End(e) <= t.next
    BY <2>4
  <2>6. Intact(c, d.idx, d.next) /\ s.next <= d.next
    OBVIOUS
  <2>7. Intact(c, d.idx, t.next)
    BY <2>4, <2>5, <2>6, IntactHigher
  <2>8. Intact(c, Put(d.idx, e.hash, e.off), t.next)
    BY <2>3, <2>4, <2>5, <2>7, IntactPut DEF End
  <2>9. t \in P
    BY <1>1, <2>4, <2>5, <2>6, <2>8
  <2>10. QED
    BY <2>9 DEF t, e
<1>4. P \in SUBSET Disk
  OBVIOUS
<1> HIDE DEF P
<1>5. Replay(s, lines) \in P
  BY <1>2, <1>3, <1>4, ReplayKeeps
<1>6. QED
  BY <1>5 DEF P

LEMMA RecoveredIntact ==
    ASSUME TypeInv, AreaOK
    PROVE  Intact(cells, Recovered.idx, Recovered.next) /\ saved.next <= Recovered.next
<1>1. saved \in Disk /\ log \in Seq(Line) /\ saved.next \in Nat
  BY SavedIs DEF TypeInv, TypeOK, Line
<1>2. Intact(cells, saved.idx, saved.next)
  BY DEF AreaOK
<1>3. \A k \in DOMAIN log : ReadsAt(cells, log[k].hash, log[k].off)
  BY DEF AreaOK
<1>4. /\ Intact(cells, Replay(saved, log).idx, Replay(saved, log).next)
      /\ saved.next <= Replay(saved, log).next
  BY <1>1, <1>2, <1>3, ReplayIntact
<1>5. QED
  BY <1>1, <1>2, <1>4 DEF Recovered

LEMMA AreaInit == Init => AreaOK
<1> SUFFICES ASSUME Init PROVE AreaOK
  OBVIOUS
<1>1. pc = "closed" /\ saved.idx = <<>> /\ log = <<>>
  BY DEF Init
<1>2. DOMAIN saved.idx = {} /\ DOMAIN log = {}
  BY <1>1
<1>3. QED
  BY <1>1, <1>2 DEF AreaOK, Intact

LEMMA WriteArea ==
    ASSUME TypeInv, AreaOK, NoCompaction, NEW r \in Recs, NEW h \in Hashes, WriteRecord(r, h)
    PROVE  AreaOK'
<1>1. pc = "write" /\ pc' = "write" /\ saved' = saved
  BY DEF WriteRecord
<1>2. Room(h).idx = idx /\ Room(h).next = next /\ Room(h).cells = cells
  BY <1>1 DEF NoCompaction, Room
<1>3. /\ idx \in Seq(Entry) /\ next \in Nat /\ saved.idx \in Seq(Entry) /\ saved.next \in Nat
      /\ cells \in Area /\ log \in Seq(Line) /\ Size[h] \in Nat /\ Size[h] > 0
  BY SavedIs, Sizes DEF TypeInv, TypeOK, Line, Area, Cell
<1>4. /\ idx' = Put(idx, h, next) /\ next + Size[h] <= MaxCap
      /\ Slot(idx, h) = {} => next' = next + Size[h] /\ cells' = Stored(cells, h, next)
      /\ Slot(idx, h) # {} => next' = next /\ cells' = cells
  BY <1>2, WriteIs
<1>5. PICK e \in Line : /\ log' = Append(log, e) /\ e.hash = h
                        /\ Slot(idx, h) = {} => e.off = next
                        /\ Slot(idx, h) # {} => \E i \in Slot(idx, h) : e.off = idx[i].off
  BY <1>2, WriteIs
<1>6. /\ Intact(cells, saved.idx, saved.next) /\ Intact(cells, idx, next) /\ saved.next <= next
      /\ \A k \in DOMAIN log : ReadsAt(cells, log[k].hash, log[k].off)
      /\ \A k \in DOMAIN log : End(log[k]) <= next
  BY <1>1 DEF AreaOK
<1>7. next' \in Nat /\ next <= next' /\ saved.next <= next'
  BY <1>3, <1>4, <1>6
<1>8. \A k \in DOMAIN log : log[k] \in Line /\ log[k].hash \in Hashes /\ log[k].off \in Nat
  <2>1. \A k \in DOMAIN log : log[k] \in Line
    BY <1>3
  <2>2. QED
    BY <2>1 DEF Line
<1>9. \A k \in DOMAIN log' : (k \in DOMAIN log /\ log'[k] = log[k]) \/ log'[k] = e
  BY <1>3, <1>5
<1>10. CASE Slot(idx, h) = {}
  <2>1. ReadsAt(cells', h, next)
    BY <1>3, <1>4, <1>10, StoredIs
  <2>2. Intact(cells', saved.idx, saved.next) /\ Intact(cells', idx, next)
    BY <1>3, <1>4, <1>6, <1>10, IntactStored
  <2>3. Intact(cells', idx, next')
    BY <1>3, <1>7, <2>2, IntactHigher
  <2>4. Intact(cells', idx', next')
    <3>1. next + Size[h] <= next'
      BY <1>3, <1>4, <1>10
    <3>2. QED
      BY <1>3, <1>4, <1>7, <2>1, <2>3, <3>1, IntactPut
  <2>5. e.off = next /\ End(e) = next'
    BY <1>4, <1>5, <1>10 DEF End
  <2>6. ASSUME NEW k \in DOMAIN log'
        PROVE  ReadsAt(cells', log'[k].hash, log'[k].off) /\ End(log'[k]) <= next'
    <3>1. CASE k \in DOMAIN log /\ log'[k] = log[k]
      <4>1. /\ ReadsAt(cells, log[k].hash, log[k].off) /\ log[k].off + Size[log[k].hash] <= next
            /\ log[k].hash \in Hashes /\ log[k].off \in Nat /\ Size[log[k].hash] \in Nat
        BY <1>6, <1>8, <3>1, Sizes DEF End
      <4>2. ReadsAt(cells', log[k].hash, log[k].off)
        BY <1>3, <1>4, <1>10, <4>1, StoredIs
      <4>3. log[k].off + Size[log[k].hash] <= next'
        <5>1. ASSUME NEW x \in Nat, NEW y \in Nat, x + y <= next PROVE x + y <= next'
          BY <1>3, <1>7, <5>1
        <5>2. QED
          BY <4>1, <5>1
      <4>4. QED
        BY <3>1, <4>2, <4>3 DEF End
    <3>2. CASE log'[k] = e
      BY <1>5, <1>7, <2>1, <2>5, <3>2
    <3>3. QED
      BY <1>9, <3>1, <3>2
  <2>7. QED
    BY <1>1, <1>7, <2>2, <2>4, <2>6 DEF AreaOK
<1>11. CASE Slot(idx, h) # {}
  <2>1. cells' = cells /\ next' = next
    BY <1>4, <1>11
  <2>2. Intact(cells', idx', next')
    BY <1>3, <1>4, <1>6, <1>11, <2>1, IntactPut
  <2>3. PICK i \in Slot(idx, h) : e.off = idx[i].off
    BY <1>5, <1>11
  <2>4. i \in DOMAIN idx /\ idx[i].hash = h
    BY DEF Slot
  <2>5. ReadsAt(cells, e.hash, e.off) /\ End(e) <= next
    BY <1>5, <1>6, <2>3, <2>4 DEF Intact, End
  <2>6. ASSUME NEW k \in DOMAIN log'
        PROVE  ReadsAt(cells', log'[k].hash, log'[k].off) /\ End(log'[k]) <= next'
    BY <1>6, <1>9, <2>1, <2>5
  <2>7. QED
    BY <1>1, <1>6, <2>1, <2>2, <2>6 DEF AreaOK
<1>12. QED
  BY <1>10, <1>11

\* A call that leaves the entries where they are.
LEMMA CallArea ==
    ASSUME TypeInv, AreaOK, \/ Begin \/ Abort \/ Commit \/ Confirm
                            \/ RecoveryCover \/ RecoveryReset
                            \/ \E r \in Recs : DeleteRecord(r),
           pc = "idle" => log = <<>>
    PROVE  AreaOK'
<1>1. /\ pc # "closed" /\ pc' # "closed" /\ UNCHANGED <<next, cells>>
      /\ pc' = "write" => (pc = "write" \/ log' = <<>>)
      /\ log' \in {log, <<>>}
  BY DEF Begin, Abort, Commit, Confirm, RecoveryCover, RecoveryReset, DeleteRecord
<1>2. saved'.idx = saved.idx /\ saved'.next = saved.next
  <2>1. CASE Commit
    BY <2>1 DEF Commit, TypeInv, TypeOK
  <2>2. CASE saved' = saved
    BY <2>2
  <2>3. QED
    BY <2>1, <2>2 DEF Begin, Abort, Confirm, RecoveryCover, RecoveryReset, DeleteRecord
<1>3. /\ Intact(cells, saved.idx, saved.next) /\ Intact(cells, idx, next) /\ saved.next <= next
      /\ \A k \in DOMAIN log : ReadsAt(cells, log[k].hash, log[k].off)
      /\ pc = "write" => \A k \in DOMAIN log : End(log[k]) <= next
  BY <1>1 DEF AreaOK
<1>4. Intact(cells, idx', next)
  <2>1. idx \in Seq(Entry)
    BY DEF TypeInv, TypeOK
  <2>2. CASE idx' = idx
    BY <1>3, <2>2
  <2>3. CASE idx' = RolledBack
    <3>1. /\ idx' \in Seq(Entry) /\ SameHashes(idx, idx')
          /\ \A i \in DOMAIN idx : idx'[i].off = idx[i].off
      BY <2>3, RolledBackIs DEF TypeInv
    <3>2. QED
      BY <1>3, <2>1, <3>1, IntactKept
  <2>4. ASSUME NEW h, idx' = Release(idx, h) PROVE Intact(cells, idx', next)
    <3>1. /\ idx' \in Seq(Entry) /\ SameHashes(idx, idx')
          /\ \A i \in DOMAIN idx : idx'[i].off = idx[i].off
      BY <2>1, <2>4, ReleaseIs
    <3>2. QED
      BY <1>3, <2>1, <3>1, IntactKept
  <2>5. QED
    BY <2>2, <2>3, <2>4
       DEF Begin, Abort, Commit, Confirm, RecoveryCover, RecoveryReset, DeleteRecord
<1>5. DOMAIN log' = {} \/ log' = log
  BY <1>1
<1>6. pc' = "write" => \A k \in DOMAIN log' : End(log'[k]) <= next
  BY <1>1, <1>3, <1>5
<1>7. QED
  BY <1>1, <1>2, <1>3, <1>4, <1>5, <1>6 DEF AreaOK

LEMMA SessionArea ==
    ASSUME TypeInv, AreaOK, \/ SaveIndex \/ RecoverySave \/ Lock \/ Crash \/ Open
                            \/ \E h \in Hashes : WriteRefused(h),
           NoCompaction
    PROVE  AreaOK'
<1>1. CASE SaveIndex \/ RecoverySave
  <2>1. pc # "closed" /\ pc' \notin {"write", "closed"}
    BY <1>1 DEF SaveIndex, RecoverySave
  <2>2. saved'.idx = idx /\ saved'.next = next /\ UNCHANGED <<idx, next, cells, log>>
    BY <1>1, SaveIs
  <2>3. next \in Nat
    BY DEF TypeInv, TypeOK
  <2>4. QED
    BY <2>1, <2>2, <2>3 DEF AreaOK
<1>2. CASE Lock \/ Crash
  BY <1>2 DEF Lock, Crash, Close, AreaOK
<1>3. CASE Open
  <2>1. /\ pc' \notin {"write", "closed"} /\ idx' = Recovered.idx /\ next' = Recovered.next
        /\ UNCHANGED <<saved, cells, log>>
    BY <1>3 DEF Open
  <2>2. QED
    BY <2>1, RecoveredIntact DEF AreaOK
<1>4. ASSUME NEW h \in Hashes, WriteRefused(h) PROVE AreaOK'
  <2>1. pc = "write" /\ pc' = "refused" /\ UNCHANGED <<saved, log>>
    BY <1>4 DEF WriteRefused
  <2>2. UNCHANGED <<idx, next, cells>>
    BY <1>4, <2>1 DEF WriteRefused, NoCompaction, Room
  <2>3. QED
    BY <2>1, <2>2 DEF AreaOK
<1>5. QED
  BY <1>1, <1>2, <1>3, <1>4

LEMMA AreaNext ==
    ASSUME TypeInv, RefsInv, AreaOK, NoCompaction, [Next]_vars
    PROVE  AreaOK'
<1>1. CASE UNCHANGED vars
  BY <1>1 DEF vars, AreaOK
<1>2. pc = "idle" => log = <<>>
  BY DEF RefsInv, PhaseOK
<1>3. ASSUME NEW r \in Recs, NEW h \in Hashes, WriteRecord(r, h) PROVE AreaOK'
  BY <1>3, WriteArea
<1>4. CASE Next
  BY <1>2, <1>3, <1>4, CallArea, SessionArea DEF Next
<1>5. QED
  BY <1>1, <1>4

LEMMA AreaHolds == Spec /\ []NoCompaction => [](TypeInv /\ RefsInv /\ AreaOK)
<1>1. Init => AreaOK
  BY AreaInit
<1>2. TypeInv /\ RefsInv /\ AreaOK /\ NoCompaction /\ [Next]_vars => AreaOK'
  BY AreaNext
<1>3. QED
  BY <1>1, <1>2, RefsHold, PTL DEF Spec

LEMMA CommittedCanBeRead == TypeInv /\ RefsInv /\ AreaOK => CommittedReadable
<1> SUFFICES ASSUME TypeInv, RefsInv, AreaOK, NEW r \in Recs, stable[r] # NoHash
             PROVE  \E i \in Slot(Recovered.idx, stable[r]) :
                        LET e == Recovered.idx[i]
                        IN  e.ref > 0 /\ Readable(e) /\ End(e) <= Recovered.next
  BY DEF CommittedReadable
<1> DEFINE h == stable[r]
           ix == Recovered.idx
<1>1. /\ stable \in RecMap /\ saved \in Disk
      /\ Replayed.idx \in Seq(Entry) /\ OneSlot(Replayed.idx)
  BY StateTypes DEF RefsInv
<1>2. h \in Hashes
  BY <1>1 DEF RecMap
<1>3. ix \in Seq(Entry) /\ OneSlot(ix)
  BY <1>1 DEF Recovered, Replayed, RefsInv, SlotsOK, Disk
<1>4. RefCount(ix, h) >= Holders(stable, h)
  BY <1>2 DEF RefsInv, CountsOK, Covers, Recovered, Replayed
<1>5. Intact(cells, ix, Recovered.next)
  BY RecoveredIntact
<1> HIDE DEF ix
<1>6. Holders(stable, h) \in Nat /\ Holders(stable, h) >= 1
  BY <1>1, HoldersIs
<1>7. RefCount(ix, h) \in Nat
  BY <1>3, RefCountAt
<1>8. PICK i : i \in Slot(ix, h) /\ ix[i].ref > 0
  <2>1. RefCount(ix, h) > 0
    BY <1>4, <1>6, <1>7
  <2>2. PICK i : i \in Slot(ix, h)
    BY <1>3, <2>1, RefCountAt
  <2>3. QED
    BY <1>3, <2>1, <2>2, RefCountAt
<1>9. i \in DOMAIN ix
  BY <1>8 DEF Slot
<1>10. Readable(ix[i]) /\ End(ix[i]) <= Recovered.next
  BY <1>5, <1>9, ReadableAt DEF Intact
<1>11. QED
  BY <1>8, <1>10 DEF ix

LEMMA SampleCanBeRead == TypeInv /\ AreaOK => SampleNeverFails
<1> SUFFICES ASSUME TypeInv, AreaOK, pc = "saved", idx # <<>> PROVE Readable(Last(idx))
  BY DEF SampleNeverFails, SampleReadable
<1>1. idx \in Seq(Entry)
  BY DEF TypeInv, TypeOK
<1>2. Len(idx) \in DOMAIN idx /\ Last(idx) = idx[Len(idx)]
  BY <1>1 DEF Last
<1>3. QED
  BY <1>2, ReadableAt DEF AreaOK, Intact

LEMMA AllCanBeRead == TypeInv /\ RefsInv /\ AreaOK => LiveReadable /\ IndexLoads
<1> SUFFICES ASSUME TypeInv, RefsInv, AreaOK PROVE LiveReadable /\ IndexLoads
  OBVIOUS
<1>1. ASSUME pc # "closed", NEW r \in Recs, recs[r] # NoHash
      PROVE  \E i \in Slot(idx, recs[r]) : Readable(idx[i])
  <2>1. idx \in Seq(Entry) /\ OneSlot(idx) /\ recs \in RecMap
    BY StateTypes DEF RefsInv, SlotsOK
  <2>2. recs[r] \in Hashes
    BY <1>1, <2>1 DEF RecMap
  <2>3. RefCount(idx, recs[r]) >= Holders(recs, recs[r])
    BY <1>1, <2>2 DEF RefsInv, CountsOK, Covers
  <2>4. /\ Holders(recs, recs[r]) \in Nat /\ Holders(recs, recs[r]) >= 1
        /\ RefCount(idx, recs[r]) \in Nat
    BY <2>1, HoldersIs, RefCountAt
  <2>5. RefCount(idx, recs[r]) # 0
    BY <2>3, <2>4
  <2>6. PICK i : i \in Slot(idx, recs[r])
    BY <2>1, <2>5, RefCountAt
  <2>7. Readable(idx[i])
    BY <1>1, <2>6, ReadableAt DEF AreaOK, Intact, Slot
  <2>8. QED
    BY <2>6, <2>7
<1>2. QED
  BY <1>1 DEF LiveReadable, IndexLoads, Loads, AreaOK, Intact

\* Whatever was lost with the memory, at whatever instant, in a sealed or an open
\* group or in the middle of a recovery: every committed record can be read at
\* the next unlock, in a store whose writes never had to move anything.
THEOREM CommittedIsReadable == Spec /\ []NoCompaction => []CommittedReadable
BY AreaHolds, CommittedCanBeRead, PTL

\* In such a store a durable transaction is always confirmed: the entry that
\* verthys_txn_v3_confirm reads back has its block, also when it is dead or was
\* rebuilt from the log.
THEOREM SampleIsReadable == Spec /\ []NoCompaction => []SampleNeverFails
BY AreaHolds, SampleCanBeRead, PTL

\* In such a store every record the session sees has its block, after any crash
\* and recovery, and the index on disk passes the check of the next unlock.
THEOREM UnmovedIsReadable == Spec /\ []NoCompaction => [](LiveReadable /\ IndexLoads)
BY AreaHolds, AllCanBeRead, PTL

-------------------------------------------------------------------------------
(* A session that compacts.                                                *)

\* Neither a crash nor a lock has ended the first session: afterwards the index
\* on disk can be older than the data area that a compaction has rearranged.
FirstSession == crashes = 0 /\ locks = 0

\* The entries in K can be read, end below the cursor, and follow one another.
Laid(c, ix, K, nx) ==
    /\ \A i \in K : ReadsAt(c, ix[i].hash, ix[i].off) /\ End(ix[i]) <= nx
    /\ \A i, j \in K : i < j => End(ix[i]) <= ix[j].off

\* The live entries, and those a running deletion may have to give back.
Kept == {i \in DOMAIN idx : idx[i].ref > 0 \/ (pc = "delete" /\ ledger[idx[i].hash] < 0)}

KeptOK ==
    /\ Laid(cells, idx, Kept, next)
    /\ pc \in {"write", "refused"} => \A h \in Hashes : ledger[h] >= 0
    /\ pc = "delete" => \A h \in Hashes : ledger[h] <= 0
    /\ pc = "closed" => saved.idx = <<>> /\ group = "none"

SessionInv == FirstSession => KeptOK

LEMMA LaidKept ==
    ASSUME NEW c, NEW ix, NEW iy, NEW nx, NEW K \in SUBSET DOMAIN ix, NEW L \in SUBSET K,
           Laid(c, ix, K, nx), SameHashes(ix, iy), \A i \in DOMAIN ix : iy[i].off = ix[i].off
    PROVE  Laid(c, iy, L, nx)
<1>1. \A i \in L : /\ i \in K /\ iy[i].hash = ix[i].hash /\ iy[i].off = ix[i].off
                   /\ End(iy[i]) = End(ix[i])
  BY DEF SameHashes, End
<1>2. ASSUME NEW i \in L PROVE ReadsAt(c, iy[i].hash, iy[i].off) /\ End(iy[i]) <= nx
  BY <1>1 DEF Laid
<1>3. ASSUME NEW i \in L, NEW j \in L, i < j PROVE End(iy[i]) <= iy[j].off
  BY <1>1, <1>3 DEF Laid
<1>4. QED
  BY <1>2, <1>3 DEF Laid

\* Compaction lays the live blocks one after the other.
LEMMA LaidRoom ==
    ASSUME TypeInv, Laid(cells, idx, Live(idx), next), NEW h
    PROVE  Laid(Room(h).cells, Room(h).idx, Live(idx), Room(h).next)
<1>1. idx \in Seq(Entry) /\ next \in Nat /\ cells \in Area /\ next <= MaxCap
  BY DEF TypeInv, TypeOK, InArea, Area, Cell
<1>2. Live(idx) \subseteq DOMAIN idx /\ DOMAIN idx = 1..Len(idx) /\ Len(idx) \in Nat
  BY <1>1 DEF Live
<1>3. CASE ~Compacts(h)
  BY <1>3 DEF Room
<1>4. CASE Compacts(h)
  <2>1. /\ Room(h).cells = CellsMoved /\ Room(h).idx = Retargeted
        /\ Room(h).next = Width(idx, Live(idx))
    BY <1>4 DEF Room
  <2>2. Ordered
    BY <1>4 DEF Compacts
  <2>3. \A i \in Live(idx) : Readable(idx[i])
    BY ReadableAt DEF Laid
  <2>4. \A i \in Live(idx) : ReadsAt(CellsMoved, idx[i].hash, Target(i))
    BY <1>1, <2>2, <2>3, CellsMovedRead
  <2>5. \A i \in Live(idx) : /\ Retargeted[i].hash = idx[i].hash /\ Retargeted[i].off = Target(i)
                             /\ End(Retargeted[i]) = Target(i) + Size[idx[i].hash]
    BY <1>1, <1>2, RetargetedIs DEF SameHashes, End
  <2>6. ASSUME NEW i \in Live(idx)
        PROVE  /\ ReadsAt(CellsMoved, Retargeted[i].hash, Retargeted[i].off)
               /\ End(Retargeted[i]) <= Width(idx, Live(idx))
    <3>1. i <= Len(idx) /\ Len(idx) \in 0..Len(idx)
      BY <1>2
    <3>2. Target(i) + Size[idx[i].hash] <= Packed(Len(idx))
      BY <1>1, <3>1, PackedGrows
    <3>3. Packed(Len(idx)) = Width(idx, Live(idx))
      BY <1>1, PackedIs
    <3>4. QED
      BY <2>4, <2>5, <3>2, <3>3
  <2>7. ASSUME NEW i \in Live(idx), NEW j \in Live(idx), i < j
        PROVE  End(Retargeted[i]) <= Retargeted[j].off
    <3>1. j - 1 \in 0..Len(idx) /\ i <= j - 1 /\ j \in DOMAIN idx
      BY <1>2, <2>7
    <3>2. Target(i) + Size[idx[i].hash] <= Packed(j - 1)
      BY <1>1, <3>1, PackedGrows
    <3>3. Packed(j - 1) = Target(j)
      BY <1>1, <3>1, PackedIs
    <3>4. QED
      BY <2>5, <3>2, <3>3
  <2>8. QED
    BY <2>1, <2>6, <2>7 DEF Laid
<1>5. QED
  BY <1>3, <1>4

\* A block written at the cursor.
LEMMA LaidAdded ==
    ASSUME NEW c \in Area, NEW ix \in Seq(Entry), NEW K \in SUBSET DOMAIN ix, NEW nx \in Nat,
           Laid(c, ix, K, nx), NEW h \in Hashes, nx + Size[h] <= MaxCap
    PROVE  Laid(Stored(c, h, nx), Append(ix, Added(h, nx)), K \cup {Len(ix) + 1}, nx + Size[h])
<1> DEFINE iy == Append(ix, Added(h, nx))
           n  == Len(ix) + 1
           d  == Stored(c, h, nx)
<1>1. /\ Len(ix) \in Nat /\ DOMAIN ix = 1..Len(ix) /\ \A i \in DOMAIN ix : iy[i] = ix[i]
      /\ iy[n] = Added(h, nx)
  BY AppendIs
<1>2. Size[h] \in Nat
  BY Sizes
<1>3. iy[n].hash = h /\ iy[n].off = nx /\ End(iy[n]) = nx + Size[h]
  BY <1>1 DEF Added, End
<1> HIDE DEF iy
<1>4. ASSUME NEW i \in K
      PROVE  /\ iy[i] = ix[i] /\ ReadsAt(d, iy[i].hash, iy[i].off)
             /\ End(iy[i]) <= nx /\ End(iy[i]) \in Nat /\ i \in 1..Len(ix)
  <2>1. /\ iy[i] = ix[i] /\ i \in DOMAIN ix
        /\ ix[i].hash \in Hashes /\ ix[i].off \in Nat /\ End(ix[i]) \in Nat
    BY <1>1, EntryIs
  <2>2. ReadsAt(c, ix[i].hash, ix[i].off) /\ End(ix[i]) <= nx
    BY DEF Laid
  <2>3. ix[i].off + Size[ix[i].hash] <= nx
    BY <2>2 DEF End
  <2>4. ReadsAt(d, ix[i].hash, ix[i].off)
    BY <2>1, <2>2, <2>3, StoredIs
  <2>5. QED
    BY <1>1, <2>1, <2>2, <2>4
<1>5. ReadsAt(d, h, nx)
  BY StoredIs
<1> HIDE DEF d
<1>6. ASSUME NEW i \in K \cup {n}
      PROVE  ReadsAt(d, iy[i].hash, iy[i].off) /\ End(iy[i]) <= nx + Size[h]
  <2>1. CASE i \in K
    BY <1>2, <1>4, <2>1
  <2>2. CASE i = n
    BY <1>2, <1>3, <1>5, <2>2
  <2>3. QED
    BY <2>1, <2>2
<1>7. ASSUME NEW i \in K \cup {n}, NEW j \in K \cup {n}, i < j
      PROVE  End(iy[i]) <= iy[j].off
  <2>1. i # n
    BY <1>1, <1>4, <1>7
  <2>2. CASE j = n
    BY <1>3, <1>4, <2>1, <2>2
  <2>3. CASE j # n
    BY <1>4, <1>7, <2>1, <2>3 DEF Laid
  <2>4. QED
    BY <2>2, <2>3
<1>8. QED
  BY <1>6, <1>7 DEF Laid, iy, d

LEMMA WriteKept ==
    ASSUME ~Rewrites, TypeInv, KeptOK, NEW r \in Recs, NEW h \in Hashes, WriteRecord(r, h)
    PROVE  KeptOK'
<1> DEFINE s == Room(h)
<1>1. /\ pc = "write" /\ pc' = "write" /\ ledger' = [ledger EXCEPT ![h] = @ + 1]
      /\ \A i \in Slot(idx, h) : idx[i].ref > 0
  BY DEF WriteRecord, MayWrite
<1>2. Kept = Live(idx) /\ Kept' = Live(idx')
  BY <1>1 DEF Kept, Live
<1>3. Laid(s.cells, s.idx, Live(idx), s.next)
  BY <1>2, LaidRoom DEF KeptOK
<1>4. /\ s.idx \in Seq(Entry) /\ SameHashes(idx, s.idx) /\ s.next \in Nat /\ s.cells \in Area
      /\ \A i \in DOMAIN idx : s.idx[i].ref = idx[i].ref
  BY RoomIs
<1>5. /\ idx' = Put(s.idx, h, s.next) /\ Slot(s.idx, h) = Slot(idx, h)
      /\ s.next + Size[h] <= MaxCap
      /\ Slot(idx, h) = {} => next' = s.next + Size[h] /\ cells' = Stored(s.cells, h, s.next)
      /\ Slot(idx, h) # {} => next' = s.next /\ cells' = s.cells
  BY WriteIs
<1> HIDE DEF s
<1>6. DOMAIN s.idx = DOMAIN idx /\ Live(idx) \subseteq DOMAIN s.idx /\ Live(s.idx) = Live(idx)
  BY <1>4 DEF Live, SameHashes
<1>7. Laid(cells', idx', Live(idx'), next')
  <2>1. CASE Slot(idx, h) = {}
    <3>1. idx' = Append(s.idx, Added(h, s.next))
      BY <1>4, <1>5, <2>1, PutIs
    <3>2. Laid(cells', idx', Live(idx) \cup {Len(s.idx) + 1}, next')
      <4>1. Live(idx) \in SUBSET DOMAIN s.idx
        BY <1>6
      <4>2. Laid(Stored(s.cells, h, s.next), Append(s.idx, Added(h, s.next)),
                 Live(idx) \cup {Len(s.idx) + 1}, s.next + Size[h])
        BY <1>3, <1>4, <1>5, <4>1, LaidAdded
      <4>3. QED
        BY <1>5, <2>1, <3>1, <4>2
    <3>3. Live(idx') = Live(idx) \cup {Len(s.idx) + 1}
      <4>1. /\ DOMAIN idx' = DOMAIN s.idx \cup {Len(s.idx) + 1}
            /\ \A i \in DOMAIN s.idx : idx'[i] = s.idx[i]
            /\ idx'[Len(s.idx) + 1] = Added(h, s.next) /\ Len(s.idx) + 1 \notin DOMAIN s.idx
        BY <1>4, <3>1, AppendIs
      <4>2. idx'[Len(s.idx) + 1].ref = 1
        BY <4>1 DEF Added
      <4>3. Live(idx') = Live(s.idx) \cup {Len(s.idx) + 1}
        BY <4>1, <4>2 DEF Live
      <4>4. QED
        BY <1>6, <4>3
    <3>4. QED
      BY <3>2, <3>3
  <2>2. CASE Slot(idx, h) # {}
    <3>1. idx' = AddRef(s.idx, h, 1)
      BY <1>4, <1>5, <2>2, PutIs
    <3>2. /\ SameHashes(s.idx, idx') /\ idx' \in Seq(Entry)
          /\ \A i \in DOMAIN s.idx :
                /\ idx'[i].off = s.idx[i].off
                /\ idx'[i].ref = s.idx[i].ref + (IF s.idx[i].hash = h THEN 1 ELSE 0)
      BY <1>4, <3>1, AddRefIs
    <3>3. ASSUME NEW i \in Live(idx') PROVE i \in Live(idx)
      <4>1. i \in DOMAIN s.idx /\ i \in DOMAIN idx /\ idx'[i].ref > 0 /\ s.idx[i].hash = idx[i].hash
        BY <1>4, <1>6, <3>2 DEF Live, SameHashes
      <4>2. CASE idx[i].hash = h
        BY <1>1, <4>1, <4>2 DEF Slot, Live
      <4>3. CASE idx[i].hash # h
        <5>1. idx'[i].ref = s.idx[i].ref /\ s.idx[i].ref = idx[i].ref
          BY <1>4, <3>2, <4>1, <4>3, EntryIs
        <5>2. QED
          BY <4>1, <5>1 DEF Live
      <4>4. QED
        BY <4>2, <4>3
    <3>4. Live(idx') \in SUBSET Live(idx) /\ Live(idx) \in SUBSET DOMAIN s.idx
      BY <1>6, <3>3
    <3>5. QED
      BY <1>3, <1>5, <2>2, <3>2, <3>4, LaidKept
  <2>3. QED
    BY <2>1, <2>2
<1>8. \A g \in Hashes : ledger'[g] >= 0
  <2>1. ledger \in [Hashes -> Int] /\ \A g \in Hashes : ledger[g] >= 0
    BY <1>1 DEF KeptOK, TypeInv, TypeOK
  <2>2. QED
    BY <1>1, <2>1
<1>9. QED
  BY <1>1, <1>2, <1>7, <1>8 DEF KeptOK

LEMMA RefusedKept ==
    ASSUME TypeInv, KeptOK, NEW h \in Hashes, WriteRefused(h)
    PROVE  KeptOK'
<1>1. /\ pc = "write" /\ pc' = "refused" /\ ledger' = ledger
      /\ idx' = Room(h).idx /\ next' = Room(h).next /\ cells' = Room(h).cells
  BY DEF WriteRefused
<1>2. Kept = Live(idx) /\ Kept' = Live(idx')
  BY <1>1 DEF Kept, Live
<1>3. Laid(cells', idx', Live(idx), next')
  BY <1>1, <1>2, LaidRoom DEF KeptOK
<1>4. Live(idx') = Live(idx)
  <2>1. SameHashes(idx, idx') /\ \A i \in DOMAIN idx : idx'[i].ref = idx[i].ref
    BY <1>1, RoomIs
  <2>2. QED
    BY <2>1 DEF Live, SameHashes
<1>5. QED
  BY <1>1, <1>2, <1>3, <1>4 DEF KeptOK

LEMMA DeleteKept ==
    ASSUME TypeInv, RefsInv, KeptOK, NEW r \in Recs, DeleteRecord(r)
    PROVE  KeptOK'
<1> DEFINE h == recs[r]
<1>1. /\ pc = "delete" /\ pc' = "delete" /\ h # NoHash /\ ledger' = [ledger EXCEPT ![h] = @ - 1]
      /\ idx' = Release(idx, h) /\ UNCHANGED <<next, cells>>
  BY DEF DeleteRecord
<1>2. /\ idx \in Seq(Entry) /\ OneSlot(idx) /\ recs \in RecMap /\ ledger \in [Hashes -> Int]
  BY StateTypes DEF RefsInv, SlotsOK
<1>3. h \in Hashes
  BY <1>1, <1>2 DEF RecMap
<1>4. \A i \in Slot(idx, h) : idx[i].ref > 0
  <2>1. RefCount(idx, h) >= Holders(recs, h)
    BY <1>1, <1>3 DEF RefsInv, CountsOK, Covers
  <2>2. Holders(recs, h) >= 1 /\ Holders(recs, h) \in Nat
    BY <1>2, HoldersIs
  <2>3. RefCount(idx, h) \in Nat /\ \A i \in Slot(idx, h) : RefCount(idx, h) = idx[i].ref
    BY <1>2, RefCountAt
  <2>4. RefCount(idx, h) > 0
    BY <2>1, <2>2, <2>3
  <2>5. QED
    BY <2>3, <2>4
<1> HIDE DEF h
<1>5. /\ SameHashes(idx, idx')
      /\ \A i \in DOMAIN idx :
            /\ idx'[i].off = idx[i].off
            /\ idx'[i].ref = IF idx[i].hash = h /\ idx[i].ref > 0 THEN idx[i].ref - 1 ELSE idx[i].ref
  BY <1>1, <1>2, ReleaseIs
<1>6. Kept' \subseteq Kept
  <2>1. SUFFICES ASSUME NEW i \in Kept' PROVE i \in Kept
    OBVIOUS
  <2>2. /\ i \in DOMAIN idx /\ idx'[i].hash = idx[i].hash /\ idx[i].hash \in Hashes
        /\ idx'[i].ref > 0 \/ ledger'[idx[i].hash] < 0
    BY <1>2, <1>5, EntryIs DEF Kept, SameHashes
  <2>3. CASE idx[i].hash = h
    BY <1>4, <2>2, <2>3 DEF Kept, Slot
  <2>4. CASE idx[i].hash # h
    <3>1. idx'[i].ref = idx[i].ref /\ ledger'[idx[i].hash] = ledger[idx[i].hash]
      BY <1>1, <1>2, <1>5, <2>2, <2>4
    <3>2. QED
      BY <1>1, <2>2, <3>1 DEF Kept
  <2>5. QED
    BY <2>3, <2>4
<1>7. Laid(cells', idx', Kept', next')
  <2>1. Kept \in SUBSET DOMAIN idx /\ Kept' \in SUBSET Kept
    BY <1>6 DEF Kept
  <2>2. Laid(cells, idx, Kept, next)
    BY DEF KeptOK
  <2>3. QED
    BY <1>1, <1>5, <2>1, <2>2, LaidKept
<1>8. \A g \in Hashes : ledger'[g] <= 0
  <2>1. \A g \in Hashes : ledger[g] <= 0
    BY <1>1 DEF KeptOK
  <2>2. QED
    BY <1>1, <1>2, <1>3, <2>1
<1>9. QED
  BY <1>1, <1>7, <1>8 DEF KeptOK

\* Taking the counts back revives what the call has deleted, and nothing else.
LEMMA AbortKept == ASSUME TypeInv, KeptOK, Abort PROVE KeptOK'
<1>1. /\ pc \in {"write", "delete", "refused"} /\ pc' = "idle" /\ idx' = RolledBack
      /\ UNCHANGED <<next, cells>>
  BY DEF Abort
<1>2. /\ idx \in Seq(Entry) /\ ledger \in [Hashes -> Int]
  BY DEF TypeInv, TypeOK
<1>3. /\ SameHashes(idx, idx')
      /\ \A i \in DOMAIN idx :
            /\ idx'[i].off = idx[i].off
            /\ idx'[i].ref = IF ledger[idx[i].hash] > idx[i].ref THEN 0
                             ELSE idx[i].ref - ledger[idx[i].hash]
  BY <1>1, RolledBackIs DEF TypeInv
<1>4. Kept' \subseteq Kept
  <2>1. SUFFICES ASSUME NEW i \in Kept' PROVE i \in Kept
    OBVIOUS
  <2>2. i \in DOMAIN idx /\ idx'[i].ref > 0
    BY <1>1, <1>3 DEF Kept, SameHashes
  <2>3. idx[i].hash \in Hashes /\ idx[i].ref \in Nat /\ ledger[idx[i].hash] \in Int
    BY <1>2, <2>2, EntryIs
  <2>4. idx[i].ref > 0 \/ ledger[idx[i].hash] < 0
    BY <1>3, <2>2, <2>3
  <2>5. ledger[idx[i].hash] < 0 => pc = "delete"
    BY <1>1, <2>3 DEF KeptOK
  <2>6. QED
    BY <2>2, <2>4, <2>5 DEF Kept
<1>5. Laid(cells', idx', Kept', next')
  <2>1. Kept \in SUBSET DOMAIN idx /\ Kept' \in SUBSET Kept
    BY <1>4 DEF Kept
  <2>2. Laid(cells, idx, Kept, next)
    BY DEF KeptOK
  <2>3. QED
    BY <1>1, <1>3, <2>1, <2>2, LaidKept
<1>6. QED
  BY <1>1, <1>5 DEF KeptOK

\* The steps that leave the index in memory as it is.
LEMMA StillKept ==
    ASSUME TypeInv, KeptOK, \/ Begin \/ Commit \/ SaveIndex \/ Confirm
                            \/ RecoverySave \/ RecoveryCover \/ RecoveryReset
    PROVE  KeptOK'
<1>1. /\ pc' \notin {"closed", "refused"} /\ UNCHANGED <<idx, next, cells>>
      /\ pc' \in {"write", "delete"} => ledger' = NoNet
  BY DEF Begin, Commit, SaveIndex, Confirm, RecoverySave, RecoveryCover, RecoveryReset
<1>2. pc' \in {"write", "delete"} => \A g \in Hashes : ledger'[g] = 0
  BY <1>1 DEF NoNet
<1>3. Kept' \subseteq Kept
  <2>1. SUFFICES ASSUME NEW i \in Kept' PROVE i \in Kept
    OBVIOUS
  <2>2. i \in DOMAIN idx /\ idx[i].hash \in Hashes
    BY <1>1, EntryIs DEF Kept, TypeInv, TypeOK
  <2>3. idx[i].ref > 0
    BY <1>1, <1>2, <2>2 DEF Kept
  <2>4. QED
    BY <2>2, <2>3 DEF Kept
<1>4. Laid(cells', idx', Kept', next')
  <2>1. Kept \in SUBSET DOMAIN idx /\ Kept' \in SUBSET Kept
    BY <1>3 DEF Kept
  <2>2. Laid(cells, idx, Kept, next) /\ SameHashes(idx, idx)
    BY DEF KeptOK, SameHashes, TypeInv, TypeOK
  <2>3. QED
    BY <1>1, <2>1, <2>2, LaidKept
<1>5. QED
  BY <1>1, <1>2, <1>4 DEF KeptOK

LEMMA SessionNext ==
    ASSUME ~Rewrites, TypeInv, RefsInv, SessionInv, [Next]_vars
    PROVE  SessionInv'
<1> SUFFICES ASSUME FirstSession' PROVE KeptOK'
  BY DEF SessionInv
<1>1. crashes \in Nat /\ locks \in Nat
  BY DEF TypeInv, TypeOK
<1>2. FirstSession /\ ~Lock /\ ~Crash
  <2>1. ~Lock /\ ~Crash
    BY <1>1 DEF FirstSession, Lock, Crash
  <2>2. UNCHANGED <<crashes, locks>>
    BY <2>1 DEF Next, vars, Begin, WriteRecord, WriteRefused, DeleteRecord, Abort, Commit, SaveIndex,
                Confirm, Open, RecoverySave, RecoveryCover, RecoveryReset
  <2>3. QED
    BY <2>1, <2>2 DEF FirstSession
<1>3. KeptOK
  BY <1>2 DEF SessionInv
<1>4. CASE UNCHANGED vars
  <2>1. UNCHANGED <<pc, idx, next, cells, ledger, saved, group>>
    BY <1>4 DEF vars
  <2>2. Kept' = Kept
    BY <2>1 DEF Kept
  <2>3. QED
    BY <1>3, <2>1, <2>2 DEF KeptOK
<1>5. CASE Open
  <2>1. idx' = <<>> /\ pc' = "recovered"
    BY <1>3, <1>5 DEF Open, KeptOK, Recovered
  <2>2. Kept' = {}
    BY <2>1 DEF Kept
  <2>3. QED
    BY <2>1, <2>2 DEF KeptOK, Laid
<1>6. ASSUME NEW r \in Recs, NEW h \in Hashes, WriteRecord(r, h) PROVE KeptOK'
  BY <1>3, <1>6, WriteKept
<1>7. ASSUME NEW h \in Hashes, WriteRefused(h) PROVE KeptOK'
  BY <1>3, <1>7, RefusedKept
<1>8. ASSUME NEW r \in Recs, DeleteRecord(r) PROVE KeptOK'
  BY <1>3, <1>8, DeleteKept
<1>9. CASE Next
  BY <1>2, <1>3, <1>5, <1>6, <1>7, <1>8, <1>9, AbortKept, StillKept DEF Next
<1>10. QED
  BY <1>4, <1>9

LEMMA SessionHolds == ASSUME ~Rewrites PROVE Spec => [](TypeInv /\ RefsInv /\ SessionInv)
<1>1. Init => SessionInv
  <2> SUFFICES ASSUME Init PROVE KeptOK
    BY DEF SessionInv
  <2>1. idx = <<>> /\ pc = "closed" /\ saved.idx = <<>> /\ group = "none"
    BY DEF Init
  <2>2. Kept = {}
    BY <2>1 DEF Kept
  <2>3. QED
    BY <2>1, <2>2 DEF KeptOK, Laid
<1>2. TypeInv /\ RefsInv /\ SessionInv /\ [Next]_vars => SessionInv'
  BY SessionNext
<1>3. QED
  BY <1>1, <1>2, RefsHold, PTL DEF Spec

LEMMA SeenCanBeRead == TypeInv /\ RefsInv /\ KeptOK => LiveReadable
<1> SUFFICES ASSUME TypeInv, RefsInv, KeptOK, pc # "closed", NEW r \in Recs, recs[r] # NoHash
             PROVE  \E i \in Slot(idx, recs[r]) : Readable(idx[i])
  BY DEF LiveReadable
<1> DEFINE h == recs[r]
<1>1. idx \in Seq(Entry) /\ OneSlot(idx) /\ recs \in RecMap
  BY StateTypes DEF RefsInv, SlotsOK
<1>2. h \in Hashes
  BY <1>1 DEF RecMap
<1>3. RefCount(idx, h) >= Holders(recs, h)
  BY <1>2 DEF RefsInv, CountsOK, Covers
<1>4. Holders(recs, h) \in Nat /\ Holders(recs, h) >= 1 /\ RefCount(idx, h) \in Nat
  BY <1>1, HoldersIs, RefCountAt
<1>5. PICK i : i \in Slot(idx, h) /\ idx[i].ref > 0
  <2>1. RefCount(idx, h) > 0
    BY <1>3, <1>4
  <2>2. PICK i : i \in Slot(idx, h)
    BY <1>1, <2>1, RefCountAt
  <2>3. QED
    BY <1>1, <2>1, <2>2, RefCountAt
<1>6. i \in Kept
  BY <1>5 DEF Kept, Slot
<1>7. Readable(idx[i])
  BY <1>6, ReadableAt DEF KeptOK, Laid
<1>8. QED
  BY <1>5, <1>7

\* A content without an entry leaves fewer entries than there are contents.
LEMMA EntriesFewer ==
    ASSUME idx \in Seq(Entry), OneSlot(idx), NEW h \in Hashes, Slot(idx, h) = {}
    PROVE  Len(idx) < Cardinality(Hashes)
<1> DEFINE n == Len(idx)
           f == [i \in 1..n |-> idx[i].hash]
<1>1. n \in Nat /\ DOMAIN idx = 1..n
  OBVIOUS
<1>2. IsFiniteSet(Hashes)
  BY Sizes
<1>3. IsFiniteSet(Hashes \ {h}) /\ Cardinality(Hashes \ {h}) = Cardinality(Hashes) - 1
  BY <1>2, FS_RemoveElement
<1>4. \A i \in 1..n : idx[i].hash \in Hashes \ {h}
  BY <1>1, EntryIs DEF Slot
<1>5. f \in Injection(1..n, Hashes \ {h})
  <2>1. f \in [1..n -> Hashes \ {h}]
    BY <1>4
  <2>2. \A i, j \in DOMAIN f : f[i] = f[j] => i = j
    BY <1>1 DEF OneSlot
  <2>3. QED
    BY <2>1, <2>2 DEF Injection, IsInjective
<1> HIDE DEF f
<1>6. Cardinality(1..n) <= Cardinality(Hashes) - 1
  BY <1>3, <1>5, FS_Injection
<1> HIDE DEF n
<1>7. Cardinality(1..n) = n
  <2>1. 1 \in Int /\ n \in Int
    BY <1>1
  <2>2. Cardinality(1..n) = IF 1 > n THEN 0 ELSE n - 1 + 1
    BY <2>1, FS_Interval
  <2>3. QED
    BY <1>1, <2>2
<1>8. Cardinality(Hashes) \in Nat
  BY <1>2, FS_CardinalityType
<1>9. QED
  BY <1>1, <1>6, <1>7, <1>8 DEF n

LEMMA RefusedIsFull ==
    ASSUME Cardinality(Hashes) <= MaxEntries, TypeInv, RefsInv, KeptOK
    PROVE  RefusedOnlyWhenFull
<1> SUFFICES ASSUME NEW h \in Hashes, pc = "write", Refuses(h)
             PROVE  Width(idx, Live(idx)) + Size[h] > MaxCap
  BY DEF RefusedOnlyWhenFull
<1>1. /\ idx \in Seq(Entry) /\ OneSlot(idx) /\ next \in Nat /\ cap \in Nat /\ cap <= MaxCap
      /\ Size[h] \in Nat /\ MaxCap \in Nat /\ MaxEntries \in Nat
      /\ Cardinality(Hashes) \in Nat
  BY SavedIs, StateTypes, Sizes, FS_CardinalityType, ExtentStoreAssumption DEF RefsInv, SlotsOK, TypeInv
<1>2. Ordered
  <2>1. Kept = Live(idx)
    BY DEF Kept, Live
  <2>2. QED
    BY <2>1 DEF KeptOK, Laid, Ordered
<1>3. ~(Slot(idx, h) = {} /\ Len(idx) >= MaxEntries)
  <2>1. ASSUME Slot(idx, h) = {} PROVE Len(idx) < Cardinality(Hashes)
    BY <1>1, <2>1, EntriesFewer
  <2>2. Len(idx) \in Nat
    BY <1>1
  <2>3. QED
    BY <1>1, <2>1, <2>2
<1>4. Room(h).next + Size[h] > MaxCap
  BY <1>2, <1>3 DEF Refuses
<1>5. Compacts(h)
  <2>1. CASE ~Compacts(h)
    <3>1. Room(h).next = next
      BY <2>1 DEF Room
    <3>2. next + Size[h] > cap
      BY <1>1, <1>4, <3>1
    <3>3. QED
      BY <1>2, <3>2 DEF Compacts
  <2>2. QED
    BY <2>1
<1>6. Room(h).next = Width(idx, Live(idx))
  BY <1>5 DEF Room
<1>7. QED
  BY <1>4, <1>6

\* In the first session of a container, with any number of transactions, aborts
\* and compactions in any order, every record the session sees has its block, in
\* the middle of a transaction too; contents are not written again after their
\* last reference is gone.
THEOREM SeenIsReadable ==
    ASSUME ~Rewrites
    PROVE  Spec => [](FirstSession => LiveReadable)
<1>1. TypeInv /\ RefsInv /\ SessionInv => (FirstSession => LiveReadable)
  BY SeenCanBeRead DEF SessionInv
<1>2. QED
  BY <1>1, SessionHolds, PTL

\* In such a session, with an index that has an entry for every content, the
\* compaction never finds its entries out of order and takes back every cell
\* that no live block needs: a write is refused only for want of room.
THEOREM RefusedForRoom ==
    ASSUME ~Rewrites, Cardinality(Hashes) <= MaxEntries
    PROVE  Spec => [](FirstSession => RefusedOnlyWhenFull)
<1>1. TypeInv /\ RefsInv /\ SessionInv => (FirstSession => RefusedOnlyWhenFull)
  BY RefusedIsFull DEF SessionInv
<1>2. QED
  BY <1>1, SessionHolds, PTL
================================================================================
