-------------------------- MODULE ScanPipelineProofs --------------------------
(* For any number of scanning loops, records, pages and failures: the types of *)
(* the scan pipeline, and that no record is left out of the front end's cache. *)
EXTENDS ScanPipeline, FiniteSetTheorems, WellFoundedInduction, TLAPS

-----------------------------------------------------------------------------
(* Numbers.                                                                  *)

\* A finite set of numbers that is not empty has a smallest and a largest one:
\* the smallest of the sets {x \in S : x <= m} belongs to the smallest m.
LEMMA LeastAndLargest ==
    ASSUME NEW S \in SUBSET Nat, IsFiniteSet(S), S # {}
    PROVE  /\ \E m \in S : \A x \in S : m <= x
           /\ \E m \in S : \A x \in S : m >= x
<1> DEFINE Below(m) == {x \in S : x <= m}
           Above(m) == {x \in S : x >= m}
           R == StrictSubsetOrdering(S)
<1>1. IsWellFoundedOn(R, SUBSET S)
  BY FS_FiniteSubsetsOfFinite, FS_StrictSubsetOrderingWellFounded
<1>2. \E m \in S : \A x \in S : m <= x
  <2> DEFINE T == {Below(m) : m \in S}
  <2>1. T \subseteq SUBSET S /\ T # {}
    OBVIOUS
  <2> HIDE DEF T
  <2>2. PICK D \in T : \A C \in T : ~(<<C, D>> \in R)
    BY <1>1, <2>1, WFMin
  <2> USE DEF T
  <2>3. PICK m \in S : D = Below(m)
    BY <2>2
  <2>4. ASSUME NEW x \in S, ~(m <= x) PROVE FALSE
    <3>1. x < m
      BY <2>4
    <3>2. Below(x) \subseteq D /\ m \in D /\ m \notin Below(x)
      <4>1. x \in Nat /\ m \in Nat /\ \A y \in S : y \in Nat
        OBVIOUS
      <4>2. \A y \in S : y <= x => y <= m
        BY <3>1, <4>1
      <4>3. m <= m /\ ~(m <= x)
        BY <3>1, <4>1
      <4>4. QED
        BY <2>3, <4>2, <4>3
    <3>3. <<Below(x), D>> \in R
      BY <2>3, <3>2 DEF StrictSubsetOrdering
    <3>4. QED
      BY <2>2, <3>3
  <2>5. QED
    BY <2>4
<1>3. \E m \in S : \A x \in S : m >= x
  <2> DEFINE T == {Above(m) : m \in S}
  <2>1. T \subseteq SUBSET S /\ T # {}
    OBVIOUS
  <2> HIDE DEF T
  <2>2. PICK D \in T : \A C \in T : ~(<<C, D>> \in R)
    BY <1>1, <2>1, WFMin
  <2> USE DEF T
  <2>3. PICK m \in S : D = Above(m)
    BY <2>2
  <2>4. ASSUME NEW x \in S, ~(m >= x) PROVE FALSE
    <3>1. x > m
      BY <2>4
    <3>2. Above(x) \subseteq D /\ m \in D /\ m \notin Above(x)
      <4>1. x \in Nat /\ m \in Nat /\ \A y \in S : y \in Nat
        OBVIOUS
      <4>2. \A y \in S : y >= x => y >= m
        BY <3>1, <4>1
      <4>3. m >= m /\ ~(m >= x)
        BY <3>1, <4>1
      <4>4. QED
        BY <2>3, <4>2, <4>3
    <3>3. <<Above(x), D>> \in R
      BY <2>3, <3>2 DEF StrictSubsetOrdering
    <3>4. QED
      BY <2>2, <3>3
  <2>5. QED
    BY <2>4
<1>4. QED
  BY <1>2, <1>3

LEMMA LargestIs ==
    ASSUME NEW S \in SUBSET Nat, IsFiniteSet(S)
    PROVE  /\ S = {} => Largest(S) = 0
           /\ S # {} => Largest(S) \in S
           /\ Largest(S) \in Nat /\ \A x \in S : x <= Largest(S)
<1>1. CASE S = {}
  BY <1>1 DEF Largest
<1>2. CASE S # {}
  <2>1. PICK m \in S : \A x \in S : m >= x
    BY <1>2, LeastAndLargest
  <2>2. Max(S) \in S /\ \A x \in S : Max(S) >= x
    BY <2>1 DEF Max
  <2>3. Largest(S) = Max(S)
    BY <1>2 DEF Largest
  <2>4. QED
    BY <1>2, <2>2, <2>3
<1>3. QED
  BY <1>1, <1>2

LEMMA IntervalIs ==
    ASSUME NEW a \in Nat, NEW b \in Nat, NEW S \in SUBSET (a..b)
    PROVE  S \in SUBSET Nat /\ IsFiniteSet(S)
<1>1. IsFiniteSet(a..b)
  BY FS_Interval
<1>2. IsFiniteSet(S)
  BY <1>1, FS_Subset
<1>3. QED
  BY <1>2

-----------------------------------------------------------------------------
(* The first n numbers of a set.                                             *)

First(S, n) == {r \in S : Cardinality({q \in S : q <= r}) <= n}

\* They leave out none below the largest of them, and none at all when there
\* are fewer than n.
LEMMA FirstIs ==
    ASSUME NEW S \in SUBSET Nat, IsFiniteSet(S), NEW n \in Nat \ {0}
    PROVE  /\ \A r \in First(S, n) : \A q \in S : q <= r => q \in First(S, n)
           /\ Cardinality(First(S, n)) # n => First(S, n) = S
<1> DEFINE F == First(S, n)
           Upto(r) == {q \in S : q <= r}
<1>1. \A T \in SUBSET S : IsFiniteSet(T) /\ Cardinality(T) \in Nat /\ T \in SUBSET Nat
  BY FS_Subset, FS_CardinalityType
<1>2. \A r \in S : Upto(r) \in SUBSET S /\ (r \in F <=> Cardinality(Upto(r)) <= n)
  BY DEF First
<1>3. ASSUME NEW r \in F, NEW q \in S, q <= r PROVE q \in F
  <2>1. r \in S /\ Cardinality(Upto(r)) <= n
    BY <1>2 DEF First
  <2>2. Upto(q) \subseteq Upto(r)
    <3>1. q \in Nat /\ r \in Nat /\ \A x \in S : x \in Nat
      BY <2>1
    <3>2. \A x \in S : x <= q => x <= r
      BY <1>3, <3>1
    <3>3. QED
      BY <3>2
  <2>3. Cardinality(Upto(q)) <= Cardinality(Upto(r))
    BY <1>1, <1>2, <2>1, <2>2, FS_Subset
  <2>4. Cardinality(Upto(q)) \in Nat /\ Cardinality(Upto(r)) \in Nat
    BY <1>1, <1>2, <2>1
  <2>5. QED
    BY <1>2, <2>1, <2>3, <2>4
<1>4. ASSUME F # S PROVE Cardinality(F) = n
  <2>1. F \in SUBSET S /\ S \ F \in SUBSET S
    BY DEF First
  <2>2. PICK r \in S \ F : \A x \in S \ F : r <= x
    <3>1. S \ F # {} /\ S \ F \in SUBSET Nat /\ IsFiniteSet(S \ F)
      BY <1>1, <1>4, <2>1
    <3>2. QED
      BY <3>1, LeastAndLargest
  <2>3. F = Upto(r) \ {r}
    <3>1. ASSUME NEW x \in F PROVE x \in S /\ x < r
      <4>1. x \in S /\ x \in Nat /\ r \in Nat /\ r \in S /\ r \notin F
        BY <2>1, <2>2
      <4>2. ~(r <= x)
        BY <1>3, <4>1
      <4>3. QED
        BY <4>1, <4>2
    <3>2. ASSUME NEW x \in S, x <= r, x # r PROVE x \in F
      <4>1. x \in Nat /\ r \in Nat
        BY <2>2
      <4>2. x \in S \ F => r <= x
        BY <2>2
      <4>3. QED
        BY <3>2, <4>1, <4>2
    <3>3. \A x \in F : x \in S /\ x <= r /\ x # r
      <4>1. \A x \in F : x \in Nat /\ r \in Nat
        BY <2>1, <2>2
      <4>2. QED
        BY <3>1, <4>1
    <3> HIDE DEF F
    <3>4. QED
      BY <3>2, <3>3
  <2>4. /\ IsFiniteSet(Upto(r)) /\ Cardinality(Upto(r)) \in Nat /\ r \in Upto(r)
        /\ ~(Cardinality(Upto(r)) <= n)
    BY <1>1, <1>2, <2>2
  <2>5. Cardinality(F) = Cardinality(Upto(r)) - 1
    <3> HIDE DEF F, Upto
    <3>1. QED
      BY <2>3, <2>4, FS_RemoveElement
  <2>6. F # {}
    <3>1. F = {} => Cardinality(F) = 0
      BY FS_EmptySet
    <3>2. QED
      BY <2>4, <2>5, <3>1
  <2>7. PICK m \in F : \A x \in F : m >= x
    BY <1>1, <2>1, <2>6, LeastAndLargest
  <2>8. Upto(m) = F
    <3>1. ASSUME NEW x \in S, x <= m PROVE x \in F
      BY <1>3, <2>7, <3>1
    <3>2. QED
      BY <2>1, <2>7, <3>1
  <2>9. Cardinality(F) <= n
    BY <1>2, <2>1, <2>7, <2>8
  <2>10. QED
    BY <2>4, <2>5, <2>9
<1>5. QED
  BY <1>3, <1>4

-----------------------------------------------------------------------------
(* A page of the worker.                                                     *)

Cursors == [pos : 1..(MaxRecords + 1), top : 0..MaxRecords]

LEMMA PageIs ==
    ASSUME NEW k, NEW c \in Cursors, NEW n \in 1..Batch
    PROVE  LET p == PageOf(k, c, n) IN
           /\ p.recs \in SUBSET (1..MaxRecords) /\ p.failed \in SUBSET (1..MaxRecords)
           /\ p.end \in BOOLEAN /\ (p.end <=> p.recs = {})
           /\ p.past \in 1..(MaxRecords + 1)
           /\ \A r \in p.recs : c.pos <= r /\ r < p.past
           /\ \A r \in c.pos..(p.past - 1) : r \in p.recs \/ (k # "summary" /\ r \in bad)
           /\ p.end => p.past = c.top + 1
<1> DEFINE good == Good(k, c)
           recs == First(good, n)
           past == IF Cardinality(recs) = n THEN Largest(recs) + 1 ELSE c.top + 1
           lost == (c.pos..(past - 1)) \ good
           p == PageOf(k, c, n)
<1>1. /\ MaxRecords \in Nat /\ n \in Nat \ {0}
      /\ c.pos \in Nat \ {0} /\ c.pos <= MaxRecords + 1 /\ c.top \in Nat /\ c.top <= MaxRecords
  BY BoundsAreNat DEF Cursors
<1>2. /\ good \in SUBSET (c.pos..c.top)
      /\ \A r \in c.pos..c.top : r \notin good => k # "summary" /\ r \in bad
  BY DEF Good
<1>3. good \in SUBSET Nat /\ IsFiniteSet(good) /\ recs \in SUBSET good
  <2>1. recs \in SUBSET good
    BY DEF First
  <2> HIDE DEF good, recs
  <2>2. c.pos \in Nat /\ c.top \in Nat
    BY <1>1
  <2>3. good \in SUBSET Nat /\ IsFiniteSet(good)
    BY <1>2, <2>2, IntervalIs
  <2>4. QED
    BY <2>1, <2>3
<1>4. /\ p.recs = recs /\ p.past = past /\ p.end = (recs = {})
      /\ p.failed \in SUBSET lost
  BY DEF PageOf, First
<1> HIDE DEF p, good
<1>5. IsFiniteSet(recs) /\ recs \in SUBSET Nat
  BY <1>3, FS_Subset
<1>6. /\ \A r \in recs : \A q \in good : q <= r => q \in recs
      /\ Cardinality(recs) # n => recs = good
  BY <1>1, <1>3, FirstIs
<1> HIDE DEF recs
<1>7. recs = {} => Cardinality(recs) # n
  BY <1>1, FS_EmptySet
<1>8. /\ past \in 1..(MaxRecords + 1) /\ past <= c.top + 1
      /\ \A r \in recs : c.pos <= r /\ r < past
      /\ \A r \in c.pos..(past - 1) : r \in recs \/ (k # "summary" /\ r \in bad)
  <2>1. CASE Cardinality(recs) = n
    <3>1. past = Largest(recs) + 1 /\ recs # {}
      BY <1>7, <2>1
    <3>2. Largest(recs) \in recs /\ Largest(recs) \in Nat /\ \A x \in recs : x <= Largest(recs)
      BY <1>5, <3>1, LargestIs
    <3>3. Largest(recs) \in c.pos..c.top
      BY <1>2, <1>3, <3>2
    <3>4. \A r \in c.pos..(past - 1) : r \in c.pos..c.top /\ r <= Largest(recs)
      BY <1>1, <3>1, <3>3
    <3>5. QED
      BY <1>1, <1>2, <1>3, <1>6, <3>1, <3>2, <3>3, <3>4
  <2>2. CASE Cardinality(recs) # n
    <3>1. past = c.top + 1 /\ recs = good
      BY <1>6, <2>2
    <3>2. QED
      BY <1>1, <1>2, <3>1
  <2>3. QED
    BY <2>1, <2>2
<1>9. lost \subseteq 1..MaxRecords
  BY <1>1, <1>8
<1>10. recs = {} => past = c.top + 1
  BY <1>7
<1>11. recs \subseteq 1..MaxRecords
  BY <1>1, <1>2, <1>3
<1> HIDE DEF past, lost
<1>12. QED
  BY <1>4, <1>8, <1>9, <1>10, <1>11 DEF p
-----------------------------------------------------------------------------
(* Types.                                                                    *)

LoopPcs == {"idle", "stopping", "opening", "reading", "between", "waiting", "failing",
            "closing", "ending"}
Loops == [pc : LoopPcs, shm : 0..MaxOpens, start : 0..(MaxRecords + 1), top : 0..MaxRecords,
          cancelled : BOOLEAN, held : Pipes \cup {None}]
Jobs == [pc : {"none", "asked", "fetched", "ready", "error"}, kind : Kinds \cup {"records"},
         page : Page \cup {None}]

\* A page says it is the last exactly when it is empty.
Sealed(page) == page \in Page /\ (page.end <=> page.recs = {})

\* A loop that reads or waits knows its scan, and a task knows its kind.
LoopFits(l) ==
    /\ l \in Loops
    /\ l.pc # "idle" => l.start # 0
    /\ l.pc = "reading" => l.shm \in Pipes
    /\ l.pc \in {"stopping", "waiting"} => l.held \in Pipes

JobFits(j) ==
    /\ j \in Jobs
    /\ j.pc # "none" => j.kind \in Kinds
    /\ j.pc = "ready" => Sealed(j.page)

WorkerTypes ==
    /\ cursor = None \/ cursor \in Cursors
    /\ shm = None \/ (shm.id \in Pipes /\ shm = [id |-> shm.id, page |-> shm.page]
                      /\ (shm.page = None \/ Sealed(shm.page)))
    /\ opened \in 0..MaxOpens

FrontTypes ==
    /\ top \in 0..MaxRecords /\ bad \subseteq 1..MaxRecords
    /\ owner \in [Kinds -> Scans \cup {None}]
    /\ cache \in [Kinds -> SUBSET (1..MaxRecords)]
    /\ failed \in [Kinds -> SUBSET (1..MaxRecords)]
    /\ maxId \in [Kinds -> 0..MaxRecords] /\ covered \in [Kinds -> 0..MaxRecords]

PipeTypes == pipe \in [Kinds -> Pipes \cup {None}]
JobTypes == job = [p \in Pipes |-> job[p]] /\ \A p \in Pipes : JobFits(job[p])
LoopTypes == loop = [s \in Scans |-> loop[s]] /\ \A s \in Scans : LoopFits(loop[s])

Types == WorkerTypes /\ FrontTypes /\ PipeTypes /\ JobTypes /\ LoopTypes

LEMMA TypesGiveTypeOK == Types => TypeOK
<1> SUFFICES ASSUME Types PROVE TypeOK
  OBVIOUS
<1>1. shm = None \/ shm \in [id : Pipes, page : Page \cup {None}]
  <2>1. CASE shm # None
    <3>1. shm.id \in Pipes /\ shm.page \in Page \cup {None}
          /\ shm = [id |-> shm.id, page |-> shm.page]
      BY <2>1 DEF Types, WorkerTypes, Sealed
    <3>2. QED
      BY <3>1
  <2>2. QED
    BY <2>1
<1>2. QED
  BY <1>1 DEF Types, WorkerTypes, FrontTypes, PipeTypes, TypeOK, Sealed, Cursors

LEMMA KindTypes == \A s \in Scans : KindOf[s] \in Kinds
  BY DEF Kinds

LEMMA Bounds == /\ MaxRecords \in Nat /\ MaxOpens \in Nat /\ Batch \in Nat \ {0}
                /\ Pipes \subseteq Nat
                /\ \A p \in Pipes : p \in 0..MaxOpens /\ p # 0
  BY BoundsAreNat DEF Pipes

\* A page for a kind and for one that may ask for it.
LEMMA PageTypes ==
    ASSUME NEW k \in Kinds, NEW c \in Cursors, NEW n \in 1..Batch,
           NEW who \in Scans \cup {Prefetcher(p) : p \in Pipes}
    PROVE  LET p == PageOf(k, c, n)
               page == [kind |-> k, who |-> who, recs |-> p.recs, failed |-> p.failed, end |-> p.end]
           IN  Sealed(page) /\ Advance(c, p.past) \in Cursors
<1>1. PICK p : p = PageOf(k, c, n)
  OBVIOUS
<1>2. /\ p.recs \in SUBSET (1..MaxRecords) /\ p.failed \in SUBSET (1..MaxRecords)
      /\ p.end \in BOOLEAN /\ (p.end <=> p.recs = {})
      /\ p.past \in 1..(MaxRecords + 1)
  BY <1>1, PageIs
<1>3. Sealed([kind |-> k, who |-> who, recs |-> p.recs, failed |-> p.failed, end |-> p.end])
  BY <1>2 DEF Sealed, Page
<1>4. Advance(c, p.past) \in Cursors
  BY <1>2 DEF Advance, Cursors
<1>5. QED
  BY <1>1, <1>3, <1>4

\* What a request does to the worker.
LEMMA PutPageTypes ==
    ASSUME WorkerTypes, HasCursor, NEW k \in Kinds, UNCHANGED opened,
           NEW who \in Scans \cup {Prefetcher(p) : p \in Pipes}, PutPage(k, who)
    PROVE  WorkerTypes'
<1>1. cursor \in Cursors /\ shm.id \in Pipes /\ shm = [id |-> shm.id, page |-> shm.page]
  BY DEF HasCursor, WorkerTypes
<1>2. PICK n \in 1..Batch :
         LET p == PageOf(k, cursor, n) IN
         /\ cursor' = Advance(cursor, p.past)
         /\ shm' = [shm EXCEPT !.page =
               [kind |-> k, who |-> who, recs |-> p.recs, failed |-> p.failed, end |-> p.end]]
  BY DEF PutPage
<1>3. PICK page : /\ page = [kind |-> k, who |-> who, recs |-> PageOf(k, cursor, n).recs,
                             failed |-> PageOf(k, cursor, n).failed,
                             end |-> PageOf(k, cursor, n).end]
  OBVIOUS
<1>4. Sealed(page) /\ cursor' \in Cursors
  BY <1>1, <1>2, <1>3, PageTypes
<1>5. shm' = [id |-> shm.id, page |-> page]
  BY <1>1, <1>2, <1>3
<1>6. QED
  BY <1>1, <1>4, <1>5 DEF WorkerTypes

LEMMA WorkerStays ==
    ASSUME WorkerTypes
    PROVE  /\ UNCHANGED worker => WorkerTypes'
           /\ CloseCursor /\ UNCHANGED opened => WorkerTypes'
           /\ Wipe /\ shm # None /\ UNCHANGED <<cursor, opened>> => WorkerTypes'
<1>1. UNCHANGED worker => WorkerTypes'
  BY DEF worker, WorkerTypes
<1>2. CloseCursor /\ UNCHANGED opened => WorkerTypes'
  BY DEF CloseCursor, WorkerTypes
<1>3. ASSUME Wipe, shm # None, UNCHANGED <<cursor, opened>> PROVE WorkerTypes'
  <2>1. shm' = [id |-> shm.id, page |-> None]
    BY <1>3 DEF Wipe, WorkerTypes
  <2>2. QED
    BY <1>3, <2>1 DEF WorkerTypes
<1>4. QED
  BY <1>1, <1>2, <1>3

LEMMA FetchFailsTypes ==
    ASSUME WorkerTypes, NEW k \in Kinds, UNCHANGED opened,
           NEW who \in Scans \cup {Prefetcher(p) : p \in Pipes}, FetchFails(k, who)
    PROVE  WorkerTypes'
<1>1. CASE UNCHANGED <<cursor, shm>>
  BY <1>1, WorkerStays DEF worker
<1>2. CASE HasCursor /\ PutPage(k, who)
  BY <1>2, PutPageTypes
<1>3. CASE /\ HasCursor /\ UNCHANGED shm
           /\ \E pos \in cursor.pos..(cursor.top + 1) : cursor' = Advance(cursor, pos)
  <2>1. PICK pos \in cursor.pos..(cursor.top + 1) : cursor' = Advance(cursor, pos)
    BY <1>3
  <2>2. cursor \in Cursors
    BY <1>3 DEF HasCursor, WorkerTypes
  <2>3. pos \in 1..(MaxRecords + 1)
    BY <2>2, Bounds DEF Cursors
  <2>4. cursor' \in Cursors
    BY <2>1, <2>2, <2>3 DEF Advance, Cursors
  <2>5. QED
    BY <1>3, <2>4 DEF WorkerTypes
<1>4. CASE CloseCursor
  BY <1>4, WorkerStays
<1>5. QED
  BY <1>1, <1>2, <1>3, <1>4 DEF FetchFails

\* One loop moves on; one task does.
LEMMA LoopMoves ==
    ASSUME LoopTypes, NEW s \in Scans, NEW l, LoopFits(l), loop' = [loop EXCEPT ![s] = l]
    PROVE  LoopTypes' /\ \A u \in Scans : loop'[u] = IF u = s THEN l ELSE loop[u]
<1>1. loop' = [u \in Scans |-> loop'[u]]
      /\ \A u \in Scans : loop'[u] = IF u = s THEN l ELSE loop[u]
  BY DEF LoopTypes
<1>2. \A u \in Scans : LoopFits(loop[u])'
  BY <1>1 DEF LoopTypes, LoopFits, Loops
<1>3. QED
  BY <1>1, <1>2 DEF LoopTypes

LEMMA JobMoves ==
    ASSUME JobTypes, NEW p \in Pipes, NEW j, JobFits(j), job' = [job EXCEPT ![p] = j]
    PROVE  JobTypes' /\ \A q \in Pipes : job'[q] = IF q = p THEN j ELSE job[q]
<1>1. job' = [q \in Pipes |-> job'[q]]
      /\ \A q \in Pipes : job'[q] = IF q = p THEN j ELSE job[q]
  BY DEF JobTypes
<1>2. \A q \in Pipes : JobFits(job[q])'
  BY <1>1 DEF JobTypes, JobFits, Jobs, Sealed, Page, Kinds
<1>3. QED
  BY <1>1, <1>2 DEF JobTypes

LEMMA NothingMoves == /\ JobTypes /\ UNCHANGED job => JobTypes'
                      /\ LoopTypes /\ UNCHANGED loop => LoopTypes'
                      /\ PipeTypes /\ UNCHANGED pipe => PipeTypes'
                      /\ FrontTypes /\ UNCHANGED <<vault, front>> => FrontTypes'
  BY DEF JobTypes, LoopTypes, PipeTypes, FrontTypes, vault, front, JobFits, Jobs, Sealed,
         Page, Kinds, LoopFits, Loops

Gone(s, pc) == [loop[s] EXCEPT !.pc = pc, !.held = None]

LEMMA LoopGoes ==
    ASSUME LoopTypes, NEW s \in Scans, loop[s].pc # "idle",
           NEW pc \in {"opening", "between", "failing", "closing"}, Goes(s, pc)
    PROVE  /\ LoopTypes'
           /\ \A u \in Scans : loop'[u] = IF u = s THEN Gone(s, pc) ELSE loop[u]
<1>1. loop[s] \in Loops /\ LoopFits(loop[s])
  BY DEF LoopTypes, LoopFits
<1>2. loop' = [loop EXCEPT ![s] = Gone(s, pc)]
  BY DEF Goes, Gone, LoopTypes
<1>3. LoopFits(Gone(s, pc))
  BY <1>1 DEF Gone, LoopFits, Loops, LoopPcs
<1>4. QED
  BY <1>2, <1>3, LoopMoves

LEMMA JobSets ==
    ASSUME JobTypes, NEW p \in Pipes, NEW pc \in {"none", "asked", "fetched", "ready", "error"},
           job[p].pc # "none", NEW page, SetJob(p, pc, page),
           page = None \/ Sealed(page), pc = "ready" => Sealed(page)
    PROVE  /\ JobTypes'
           /\ \A q \in Pipes : job'[q] = IF q = p THEN [job[p] EXCEPT !.pc = pc, !.page = page]
                                         ELSE job[q]
<1>1. job[p] \in Jobs /\ JobFits(job[p])
  BY DEF JobTypes, JobFits
<1>2. job' = [job EXCEPT ![p] = [job[p] EXCEPT !.pc = pc, !.page = page]]
  BY DEF SetJob, JobTypes
<1>3. JobFits([job[p] EXCEPT !.pc = pc, !.page = page])
  BY <1>1 DEF JobFits, Jobs, Sealed
<1>4. QED
  BY <1>2, <1>3, JobMoves

LEMMA JobShuts ==
    ASSUME JobTypes, NEW p, Shutdown(p)
    PROVE  /\ JobTypes'
           /\ \A q \in Pipes : job'[q] = IF q = p /\ Quiet(q) THEN NoJob ELSE job[q]
<1>1. \A q \in Pipes : job'[q] = IF q = p /\ Quiet(q) THEN NoJob ELSE job[q]
  BY DEF Shutdown
<1>2. \A q \in Pipes : JobFits(job[q])'
  BY <1>1 DEF JobTypes, JobFits, Jobs, NoJob, Sealed, Page, Kinds
<1>3. job' = [q \in Pipes |-> job'[q]]
  BY DEF Shutdown
<1>4. QED
  BY <1>1, <1>2, <1>3 DEF JobTypes

LEMMA LargestAdded ==
    ASSUME NEW m \in 0..MaxRecords, NEW recs \in SUBSET (1..MaxRecords)
    PROVE  LET x == Largest({m} \cup recs) IN
           /\ x \in 0..MaxRecords /\ x \in {m} \cup recs
           /\ m <= x /\ \A r \in recs : r <= x
<1>1. PICK S : S = {m} \cup recs
  OBVIOUS
<1>2. S \in SUBSET (0..MaxRecords) /\ S # {}
  BY <1>1, Bounds
<1>3. S \in SUBSET Nat /\ IsFiniteSet(S)
  BY <1>2, Bounds, IntervalIs
<1>4. Largest(S) \in S /\ \A x \in S : x <= Largest(S)
  BY <1>2, <1>3, LargestIs
<1>5. QED
  BY <1>1, <1>2, <1>4

LEMMA AnswerTypes ==
    ASSUME FrontTypes, LoopTypes, NEW s \in Scans, loop[s].pc # "idle",
           NEW page, Sealed(page), Answer(s, page), UNCHANGED vault
    PROVE  /\ FrontTypes' /\ LoopTypes'
           /\ \A u \in Scans : loop'[u] = IF u = s
                 THEN Gone(s, IF page.end THEN "closing" ELSE "between") ELSE loop[u]
<1>1. page.recs \in SUBSET (1..MaxRecords) /\ page.failed \in SUBSET (1..MaxRecords)
  BY DEF Sealed, Page
<1>2. KindOf[s] \in Kinds /\ loop[s].top \in 0..MaxRecords
  BY KindTypes DEF LoopTypes, LoopFits, Loops
<1>3. PICK pc \in {"between", "closing"} :
         Goes(s, pc) /\ pc = IF page.end THEN "closing" ELSE "between"
  BY DEF Answer
<1>4. LoopTypes' /\ \A u \in Scans : loop'[u] = IF u = s THEN Gone(s, pc) ELSE loop[u]
  BY <1>3, LoopGoes
<1>5. CASE ~Valid(s)
  BY <1>3, <1>4, <1>5, NothingMoves DEF Answer, front
<1>6. CASE Valid(s)
  <2>1. PICK x : x = Largest({maxId[KindOf[s]]} \cup page.recs)
    OBVIOUS
  <2>2. maxId[KindOf[s]] \in 0..MaxRecords
    BY <1>2 DEF FrontTypes
  <2>3. x \in 0..MaxRecords
    BY <1>1, <2>1, <2>2, LargestAdded
  <2>4. /\ cache' = [cache EXCEPT ![KindOf[s]] = @ \cup page.recs]
        /\ failed' = [failed EXCEPT ![KindOf[s]] = @ \cup page.failed]
        /\ maxId' = [maxId EXCEPT ![KindOf[s]] = x]
        /\ covered' = [covered EXCEPT ![KindOf[s]] = IF page.end THEN loop[s].top ELSE @]
        /\ UNCHANGED owner
    BY <1>6, <2>1 DEF Answer
  <2>5. FrontTypes'
    BY <1>1, <1>2, <2>3, <2>4 DEF FrontTypes, vault
  <2>6. QED
    BY <1>3, <1>4, <2>5
<1>7. QED
  BY <1>5, <1>6

-----------------------------------------------------------------------------
(* Every action keeps the types.                                             *)

LEMMA TypesJobFetch ==
    ASSUME Types, NEW p \in Pipes, JobFetch(p)
    PROVE  Types'
<1>1. WorkerTypes /\ JobTypes /\ job[p].pc = "asked" /\ job[p].kind \in Kinds
  BY DEF Types, JobTypes, JobFits, JobFetch
<1>2. FrontTypes' /\ PipeTypes' /\ LoopTypes' /\ UNCHANGED opened
  BY NothingMoves DEF Types, JobFetch
<1>3. Prefetcher(p) \in Scans \cup {Prefetcher(q) : q \in Pipes}
  OBVIOUS
<1>4. CASE HasCursor /\ PutPage(job[p].kind, Prefetcher(p)) /\ SetJob(p, "fetched", None)
  <2>1. WorkerTypes'
    BY <1>1, <1>2, <1>3, <1>4, PutPageTypes
  <2>2. JobTypes'
    BY <1>1, <1>4, JobSets
  <2>3. QED
    BY <1>2, <2>1, <2>2 DEF Types
<1>5. CASE FetchFails(job[p].kind, Prefetcher(p)) /\ SetJob(p, "error", None)
  <2>1. WorkerTypes'
    BY <1>1, <1>2, <1>3, <1>5, FetchFailsTypes
  <2>2. JobTypes'
    BY <1>1, <1>5, JobSets
  <2>3. QED
    BY <1>2, <2>1, <2>2 DEF Types
<1>6. QED
  BY <1>4, <1>5 DEF JobFetch

LEMMA TypesJobRead ==
    ASSUME Types, NEW p \in Pipes, JobRead(p)
    PROVE  Types'
<1>1. WorkerTypes /\ JobTypes /\ job[p].pc = "fetched"
  BY DEF Types, JobRead
<1>2. FrontTypes' /\ PipeTypes' /\ LoopTypes' /\ UNCHANGED <<cursor, opened>>
  BY NothingMoves DEF Types, JobRead
<1>3. CASE Readable(p, job[p].kind, Prefetcher(p)) /\ SetJob(p, "ready", shm.page) /\ Wipe
  <2>1. shm # None /\ Sealed(shm.page)
    BY <1>1, <1>3 DEF Readable, WorkerTypes
  <2>2. JobTypes'
    BY <1>1, <1>3, <2>1, JobSets
  <2>3. QED
    BY <1>1, <1>2, <1>3, <2>1, <2>2, WorkerStays DEF Types
<1>4. CASE SetJob(p, "error", None) /\ UNCHANGED shm
  <2>1. JobTypes'
    BY <1>1, <1>4, JobSets
  <2>2. QED
    BY <1>1, <1>2, <1>4, <2>1, WorkerStays DEF Types, worker
<1>5. QED
  BY <1>3, <1>4 DEF JobRead

LEMMA TypesStartScan ==
    ASSUME Types, NEW s \in Scans, StartScan(s)
    PROVE  Types'
<1> DEFINE k == KindOf[s]
           l == [pc |-> IF pipe[k] = None THEN "opening" ELSE "stopping", shm |-> 0,
                 start |-> IF maxId[k] > 0 THEN maxId[k] + 1 ELSE 1, top |-> 0,
                 cancelled |-> FALSE, held |-> pipe[k]]
<1>1. k \in Kinds /\ maxId[k] \in 0..MaxRecords /\ pipe[k] \in Pipes \cup {None}
  BY KindTypes DEF Types, FrontTypes, PipeTypes
<1>2. LoopFits(l)
  <2>1. l.start \in 0..(MaxRecords + 1) /\ l.start # 0 /\ 0 \in 0..MaxOpens /\ 0 \in 0..MaxRecords
    BY <1>1, Bounds
  <2>2. l \in Loops
    BY <1>1, <2>1 DEF Loops, LoopPcs
  <2>3. QED
    BY <1>1, <2>1, <2>2 DEF LoopFits
<1>3. loop' = [loop EXCEPT ![s] = l] /\ owner' = [owner EXCEPT ![k] = s]
      /\ pipe' = [pipe EXCEPT ![k] = None]
      /\ UNCHANGED <<vault, worker, job, cache, failed, maxId, covered, faults>>
  BY DEF StartScan
<1> HIDE DEF l
<1>4. LoopTypes'
  BY <1>2, <1>3, LoopMoves DEF Types
<1>5. FrontTypes' /\ PipeTypes'
  BY <1>1, <1>3 DEF Types, FrontTypes, PipeTypes, vault
<1>6. QED
  BY <1>3, <1>4, <1>5, NothingMoves, WorkerStays DEF Types

LEMMA TypesStopOld ==
    ASSUME Types, NEW s \in Scans, StopOld(s) \/ NextFails(s)
    PROVE  Types'
<1>1. /\ CloseCursor /\ Shutdown(loop[s].held) /\ UNCHANGED <<vault, opened, front>>
      /\ UNCHANGED pipe \/ pipe' = [pipe EXCEPT ![KindOf[s]] = None]
      /\ Goes(s, "opening") \/ Goes(s, "failing")
  BY DEF StopOld, NextFails
<1>2. loop[s].pc # "idle"
  BY DEF StopOld, NextFails
<1>3. LoopTypes' /\ JobTypes'
  BY <1>1, <1>2, LoopGoes, JobShuts DEF Types
<1>4. PipeTypes'
  BY <1>1 DEF Types, PipeTypes
<1>5. QED
  BY <1>1, <1>3, <1>4, NothingMoves, WorkerStays DEF Types

LEMMA TypesWorkerOpens ==
    ASSUME Types, NEW s \in Scans, WorkerOpens(s)
    PROVE  Types'
<1> DEFINE k == KindOf[s]
<1>1. PICK fresh : fresh = [pos |-> loop[s].start, top |-> top]
  OBVIOUS
<1>2. /\ loop[s] \in Loops /\ LoopFits(loop[s]) /\ loop[s].pc = "opening" /\ k \in Kinds
      /\ top \in 0..MaxRecords /\ opened' = opened + 1 /\ opened + 1 \in Pipes
      /\ opened' \in 0..MaxOpens
  BY KindTypes, Bounds DEF Types, LoopTypes, FrontTypes, WorkerTypes, LoopFits, WorkerOpens, Pipes
<1>3. fresh \in Cursors
  BY <1>1, <1>2, Bounds DEF Cursors, LoopFits, Loops
<1>4. FrontTypes' /\ PipeTypes' /\ JobTypes'
  BY NothingMoves DEF Types, WorkerOpens
<1>5. ASSUME NEW n \in 1..Batch,
             LET p == PageOf(k, fresh, n) IN
             /\ cursor' = Advance(fresh, p.past)
             /\ shm' = [id |-> opened + 1, page |->
                   [kind |-> k, who |-> s, recs |-> p.recs, failed |-> p.failed, end |-> p.end]]
             /\ loop' = [loop EXCEPT ![s].pc = "reading", ![s].shm = opened + 1, ![s].top = top]
      PROVE  Types'
  <2>1. PICK page : page = [kind |-> k, who |-> s, recs |-> PageOf(k, fresh, n).recs,
                            failed |-> PageOf(k, fresh, n).failed,
                            end |-> PageOf(k, fresh, n).end]
    OBVIOUS
  <2>2. Sealed(page) /\ cursor' \in Cursors
    BY <1>2, <1>3, <1>5, <2>1, PageTypes
  <2>3. shm' = [id |-> opened + 1, page |-> page]
    BY <1>5, <2>1
  <2>4. WorkerTypes'
    BY <1>2, <2>2, <2>3 DEF WorkerTypes
  <2> DEFINE l == [loop[s] EXCEPT !.pc = "reading", !.shm = opened + 1, !.top = top]
  <2>5. LoopFits(l)
    BY <1>2, Bounds DEF LoopFits, Loops, LoopPcs
  <2>6. loop' = [loop EXCEPT ![s] = l]
    BY <1>5 DEF Types, LoopTypes
  <2> HIDE DEF l
  <2>7. LoopTypes'
    BY <2>5, <2>6, LoopMoves DEF Types
  <2>8. QED
    BY <1>4, <2>4, <2>7 DEF Types
<1>6. CASE /\ cursor' = fresh /\ shm' = [id |-> opened + 1, page |-> None] /\ Goes(s, "failing")
  <2>1. WorkerTypes'
    BY <1>2, <1>3, <1>6 DEF WorkerTypes
  <2>2. LoopTypes'
    BY <1>2, <1>6, LoopGoes DEF Types
  <2>3. QED
    BY <1>4, <2>1, <2>2 DEF Types
<1>7. QED
  BY <1>1, <1>5, <1>6 DEF WorkerOpens

LEMMA TypesOpenReads ==
    ASSUME Types, NEW s \in Scans, OpenReads(s)
    PROVE  Types'
<1> DEFINE k == KindOf[s]
           p == loop[s].shm
<1>1. loop[s].pc = "reading" /\ LoopFits(loop[s]) /\ p \in Pipes /\ k \in Kinds
  BY KindTypes DEF OpenReads, Types, LoopTypes, LoopFits
<1>2. UNCHANGED <<vault, cursor, opened>>
  BY DEF OpenReads
<1>3. CASE Readable(p, k, s)
  <2>1. /\ Wipe /\ Answer(s, shm.page) /\ pipe' = [pipe EXCEPT ![k] = p]
        /\ job' = [job EXCEPT ![p] = [pc |-> IF shm.page.end THEN "none" ELSE "asked",
                                      kind |-> k, page |-> None]]
    BY <1>3 DEF OpenReads
  <2>2. shm # None /\ Sealed(shm.page)
    BY <1>3 DEF Readable, Types, WorkerTypes
  <2>3. FrontTypes' /\ LoopTypes'
    BY <1>1, <1>2, <2>1, <2>2, AnswerTypes DEF Types
  <2> DEFINE j == [pc |-> IF shm.page.end THEN "none" ELSE "asked", kind |-> k, page |-> None]
  <2>4. JobFits(j)
    BY <1>1 DEF JobFits, Jobs
  <2>5. job' = [job EXCEPT ![p] = j]
    BY <2>1
  <2> HIDE DEF j
  <2>6. JobTypes'
    BY <1>1, <2>4, <2>5, JobMoves DEF Types
  <2>7. PipeTypes'
    BY <1>1, <2>1 DEF Types, PipeTypes
  <2>8. QED
    BY <1>2, <2>1, <2>2, <2>3, <2>6, <2>7, WorkerStays DEF Types
<1>4. CASE ~Readable(p, k, s)
  <2>1. Goes(s, "failing") /\ UNCHANGED <<shm, pipe, job, front>>
    BY <1>4 DEF OpenReads
  <2>2. LoopTypes'
    BY <1>1, <2>1, LoopGoes DEF Types
  <2>3. QED
    BY <1>2, <2>1, <2>2, NothingMoves, WorkerStays DEF Types, worker
<1>5. QED
  BY <1>3, <1>4

LEMMA TypesNextTakes ==
    ASSUME Types, NEW s \in Scans, NextTakes(s) \/ CloseTakes(s)
    PROVE  Types'
<1> DEFINE k == KindOf[s]
<1>1. LoopFits(loop[s]) /\ loop[s] \in Loops /\ pipe[k] \in Pipes \cup {None} /\ k \in Kinds
      /\ loop[s].pc # "idle"
  BY KindTypes DEF Types, LoopTypes, LoopFits, PipeTypes, NextTakes, CloseTakes
<1>2. /\ UNCHANGED <<vault, worker, job, front, faults>>
      /\ UNCHANGED pipe \/ pipe' = [pipe EXCEPT ![k] = None]
  BY DEF NextTakes, CloseTakes
<1>3. LoopTypes'
  <2>1. CASE Goes(s, "failing")
    BY <1>1, <2>1, LoopGoes DEF Types
  <2>2. ASSUME NEW pc \in {"waiting", "ending"}, pc = "waiting" => pipe[k] # None,
               loop' = [loop EXCEPT ![s].pc = pc, ![s].held = pipe[k]]
        PROVE  LoopTypes'
    <3> DEFINE l == [loop[s] EXCEPT !.pc = pc, !.held = pipe[k]]
    <3>1. LoopFits(l)
      BY <1>1, <2>2 DEF LoopFits, Loops, LoopPcs
    <3>2. loop' = [loop EXCEPT ![s] = l]
      BY <2>2 DEF Types, LoopTypes
    <3> HIDE DEF l
    <3>3. QED
      BY <3>1, <3>2, LoopMoves DEF Types
  <2>3. CASE loop' = [loop EXCEPT ![s] = Resting]
    <3>1. LoopFits(Resting)
      BY Bounds DEF LoopFits, Loops, LoopPcs, Resting
    <3>2. QED
      BY <2>3, <3>1, LoopMoves DEF Types
  <2>4. CASE NextTakes(s)
    BY <2>1, <2>2, <2>4 DEF NextTakes
  <2>5. CASE CloseTakes(s)
    BY <2>2, <2>3, <2>5 DEF CloseTakes
  <2>6. QED
    BY <2>4, <2>5
<1>4. PipeTypes'
  BY <1>1, <1>2 DEF Types, PipeTypes
<1>5. QED
  BY <1>2, <1>3, <1>4, NothingMoves, WorkerStays DEF Types

LEMMA TypesNextAnswers ==
    ASSUME Types, NEW s \in Scans, NextAnswers(s)
    PROVE  Types'
<1>1. PICK p : p = loop[s].held
  OBVIOUS
<1>2. /\ loop[s].pc = "waiting" /\ p \in Pipes /\ KindOf[s] \in Kinds
      /\ job[p].pc = "ready" /\ Sealed(job[p].page)
  BY <1>1, KindTypes DEF NextAnswers, Types, LoopTypes, LoopFits, JobTypes, JobFits
<1>3. /\ Answer(s, job[p].page) /\ pipe' = [pipe EXCEPT ![KindOf[s]] = p]
      /\ SetJob(p, IF job[p].page.end THEN "none" ELSE "asked", None)
      /\ UNCHANGED <<vault, worker, faults>>
  BY <1>1 DEF NextAnswers
<1>4. FrontTypes' /\ LoopTypes'
  BY <1>2, <1>3, AnswerTypes DEF Types
<1>5. JobTypes'
  <2>1. PICK pc \in {"none", "asked"} : SetJob(p, pc, None)
    BY <1>3
  <2>2. QED
    BY <1>2, <2>1, JobSets DEF Types
<1>6. PipeTypes'
  BY <1>2, <1>3 DEF Types, PipeTypes
<1>7. QED
  BY <1>3, <1>4, <1>5, <1>6, WorkerStays DEF Types

LEMMA TypesFallBack ==
    ASSUME Types, NEW s \in Scans, NEW upto \in 0..MaxRecords, upto <= top, FallBack(s, upto)
    PROVE  Types'
<1>1. PICK k, recs : k = KindOf[s] /\ recs = {r \in loop[s].start..upto : r \notin bad}
  OBVIOUS
<1>2. /\ loop[s].pc = "failing" /\ k \in Kinds /\ loop[s].start \in 0..(MaxRecords + 1)
      /\ loop[s].start # 0 /\ maxId[k] \in 0..MaxRecords
  BY <1>1, KindTypes DEF FallBack, Types, LoopTypes, LoopFits, Loops, FrontTypes
<1>3. recs \in SUBSET (1..MaxRecords)
  BY <1>1, <1>2, Bounds
<1>4. PICK x \in 0..MaxRecords : x = Largest({maxId[k]} \cup recs)
  BY <1>2, <1>3, LargestAdded
<1>5. /\ \/ cache' = [cache EXCEPT ![k] = @ \cup recs] /\ maxId' = [maxId EXCEPT ![k] = x]
         \/ UNCHANGED <<cache, maxId>>
      /\ Goes(s, "closing")
      /\ UNCHANGED <<vault, worker, pipe, job, owner, failed, covered, faults>>
  BY <1>1, <1>4 DEF FallBack
<1>6. FrontTypes'
  BY <1>2, <1>3, <1>5 DEF Types, FrontTypes, vault
<1>7. LoopTypes'
  BY <1>2, <1>5, LoopGoes DEF Types
<1>8. QED
  BY <1>5, <1>6, <1>7, NothingMoves, WorkerStays DEF Types

LEMMA TypesCloseEnds ==
    ASSUME Types, NEW s \in Scans, CloseEnds(s)
    PROVE  Types'
<1>1. /\ CloseCursor \/ UNCHANGED <<cursor, shm>>
      /\ Shutdown(loop[s].held) /\ owner' = [owner EXCEPT ![KindOf[s]] = None]
      /\ loop' = [loop EXCEPT ![s] = Resting]
      /\ UNCHANGED <<vault, opened, pipe, cache, failed, maxId, covered>>
  BY DEF CloseEnds
<1>2. LoopTypes'
  <2>1. LoopFits(Resting)
    BY Bounds DEF LoopFits, Loops, LoopPcs, Resting
  <2>2. QED
    BY <1>1, <2>1, LoopMoves DEF Types
<1>3. FrontTypes'
  BY <1>1, KindTypes DEF Types, FrontTypes, vault
<1>4. JobTypes' /\ PipeTypes' /\ WorkerTypes'
  BY <1>1, JobShuts, NothingMoves, WorkerStays DEF Types, worker
<1>5. QED
  BY <1>2, <1>3, <1>4 DEF Types

LEMMA TypesUser ==
    ASSUME Types, (\E k \in Kinds : Cancel(k) \/ ClearCache(k)) \/ AddRecord
    PROVE  Types'
<1>1. ASSUME NEW s \in Scans, loop' = [loop EXCEPT ![s].cancelled = TRUE] PROVE LoopTypes'
  <2>1. LoopFits([loop[s] EXCEPT !.cancelled = TRUE])
    BY DEF Types, LoopTypes, LoopFits, Loops
  <2>2. loop' = [loop EXCEPT ![s] = [loop[s] EXCEPT !.cancelled = TRUE]]
    BY <1>1 DEF Types, LoopTypes
  <2>3. QED
    BY <2>1, <2>2, LoopMoves DEF Types
<1>2. ASSUME NEW k \in Kinds, Cancel(k) PROVE Types'
  <2>1. owner[k] \in Scans
    BY <1>2 DEF Cancel, Types, FrontTypes
  <2>2. LoopTypes'
    BY <1>1, <1>2, <2>1 DEF Cancel
  <2>3. QED
    BY <1>2, <2>2, NothingMoves, WorkerStays DEF Cancel, Types
<1>3. ASSUME NEW k \in Kinds, ClearCache(k) PROVE Types'
  <2>1. CASE owner[k] = None
    <3>1. LoopTypes'
      BY <1>3, <2>1, NothingMoves DEF ClearCache, Types
    <3>2. FrontTypes'
      BY <1>3, Bounds DEF ClearCache, Types, FrontTypes, vault
    <3>3. QED
      BY <1>3, <3>1, <3>2, NothingMoves, WorkerStays DEF ClearCache, Types
  <2>2. CASE owner[k] # None
    <3>1. owner[k] \in Scans
      BY <2>2 DEF Types, FrontTypes
    <3>2. LoopTypes'
      BY <1>1, <1>3, <2>2, <3>1 DEF ClearCache
    <3>3. FrontTypes'
      BY <1>3, Bounds DEF ClearCache, Types, FrontTypes, vault
    <3>4. QED
      BY <1>3, <3>2, <3>3, NothingMoves, WorkerStays DEF ClearCache, Types
  <2>3. QED
    BY <2>1, <2>2
<1>4. CASE AddRecord
  <2>1. top + 1 \in 1..MaxRecords /\ top + 1 \in 0..MaxRecords
    BY <1>4, Bounds DEF AddRecord, Types, FrontTypes
  <2>2. FrontTypes'
    BY <1>4, <2>1 DEF AddRecord, Types, FrontTypes
  <2>3. QED
    BY <1>4, <2>2, NothingMoves, WorkerStays DEF AddRecord, Types
<1>5. QED
  BY <1>2, <1>3, <1>4

LEMMA TypesInit == Init => Types
<1> SUFFICES ASSUME Init PROVE Types
  OBVIOUS
<1>1. WorkerTypes /\ PipeTypes
  BY Bounds DEF Init, WorkerTypes, PipeTypes
<1>2. FrontTypes
  <2>1. Records \in 0..MaxRecords /\ 1..Records \subseteq 1..MaxRecords /\ 0 \in 0..MaxRecords
    BY BoundsAreNat
  <2>2. QED
    BY <2>1 DEF Init, FrontTypes
<1>3. JobTypes
  BY DEF Init, JobTypes, JobFits, Jobs, NoJob
<1>4. LoopTypes
  BY Bounds DEF Init, LoopTypes, LoopFits, Loops, LoopPcs, Resting
<1>5. QED
  BY <1>1, <1>2, <1>3, <1>4 DEF Types

LEMMA TypesNext == Types /\ [Next]_vars => Types'
<1> SUFFICES ASSUME Types, [Next]_vars PROVE Types'
  OBVIOUS
<1>1. ASSUME NEW s \in Scans, OpenFails(s) \/ LeaveLoop(s) PROVE Types'
  <2>1. /\ loop[s].pc # "idle" /\ UNCHANGED <<vault, worker, pipe, job, front>>
        /\ \E pc \in {"failing", "closing"} : Goes(s, pc)
    BY <1>1 DEF OpenFails, LeaveLoop
  <2>2. LoopTypes'
    BY <2>1, LoopGoes DEF Types
  <2>3. QED
    BY <2>1, <2>2, NothingMoves, WorkerStays DEF Types
<1>2. ASSUME NEW s \in Scans, Step(s) PROVE Types'
  BY <1>1, <1>2, TypesStartScan, TypesStopOld, TypesWorkerOpens, TypesOpenReads, TypesNextTakes,
     TypesNextAnswers, TypesFallBack, TypesCloseEnds DEF Step
<1>3. CASE UNCHANGED vars
  BY <1>3, NothingMoves, WorkerStays DEF vars, Types
<1>4. QED
  BY <1>2, <1>3, TypesJobFetch, TypesJobRead, TypesUser DEF Next

(* Every reachable state is typed, and a page in the shared memory says that it *)
(* is the last exactly when it is empty.                                       *)
THEOREM TypeCorrect == Spec => []TypeOK
<1>1. Spec => []Types
  BY TypesInit, TypesNext, PTL DEF Spec
<1>2. QED
  BY <1>1, TypesGiveTypeOK, PTL

-----------------------------------------------------------------------------
(* One scan at a time: what the loops, the scans the application holds and     *)
(* their tasks know of each other.                                             *)

\* Records are added and scans started only when the last one is over, and a
\* shutdown waits for the prefetch: what the run checks.
Alone == ~EarlyAdds /\ ~Overlap /\ ~SlowShutdown

Active(s) == loop[s].pc # "idle"
Busy(p) == job[p].pc \in {"asked", "fetched"}

Solo == \A s, t \in Scans : Active(s) /\ Active(t) => s = t

\* A loop that stops, opens, waits or ends has taken its kind's scan away.
TakenPcs == {"stopping", "opening", "reading", "waiting", "failing", "ending"}
Taken == \A s \in Scans : loop[s].pc \in TakenPcs => pipe[KindOf[s]] = None

\* A task that has yet to use the cursor is of the kind being scanned, and it is
\* the one the application holds for it or the one its loop waits for.
Holds(s, p) == loop[s].pc \in {"stopping", "waiting", "ending"} /\ loop[s].held = p
Posted == \A p \in Pipes : Busy(p) =>
    /\ \A s \in Scans : Active(s) => KindOf[s] = job[p].kind
    /\ pipe[job[p].kind] = p \/ \E s \in Scans : Holds(s, p)

\* A scan the application holds is one that was opened, of that kind; the one
\* whose first page is read is not held yet.
Mine(p, k) == p # None => p <= opened /\ (job[p].pc = "none" \/ job[p].kind = k)
PipesNamed == \A k \in Kinds : Mine(pipe[k], k)
LoopNamed(s) ==
    /\ loop[s].pc \in {"stopping", "waiting", "ending"} => Mine(loop[s].held, KindOf[s])
    /\ loop[s].pc = "reading" => loop[s].shm <= opened /\ \A k \in Kinds : pipe[k] # loop[s].shm
Named == PipesNamed /\ \A s \in Scans : LoopNamed(s)

Order == Solo /\ Taken /\ Posted /\ Named

KeepsKinds ==
    /\ opened' \in Nat /\ opened <= opened'
    /\ \A p \in Pipes : \/ job'[p].pc = "none"
                        \/ job[p].pc # "none" /\ job'[p].kind = job[p].kind

LEMMA MineStays ==
    ASSUME Types, KeepsKinds, NEW p \in Pipes \cup {None}, NEW k, Mine(p, k)
    PROVE  Mine(p, k)'
<1>1. opened \in Nat /\ opened' \in Nat /\ opened <= opened' /\ Pipes \subseteq Nat
  BY Bounds DEF Types, WorkerTypes, KeepsKinds
<1>2. CASE p # None
  <2>1. p \in Nat /\ p <= opened /\ (job[p].pc = "none" \/ job[p].kind = k)
    BY <1>1, <1>2 DEF Mine
  <2>2. job'[p].pc = "none" \/ job'[p].kind = k
    BY <1>2, <2>1 DEF KeepsKinds
  <2>3. p <= opened'
    BY <1>1, <2>1
  <2>4. QED
    BY <2>2, <2>3 DEF Mine
<1>3. QED
  BY <1>2 DEF Mine

LEMMA PipesStay ==
    ASSUME Types, KeepsKinds, PipesNamed, \A k \in Kinds : pipe'[k] \in {pipe[k], None}
    PROVE  PipesNamed'
<1> SUFFICES ASSUME NEW k \in Kinds PROVE Mine(pipe[k], k)'
  BY DEF PipesNamed
<1>1. PICK p \in Pipes \cup {None} : p = pipe'[k] /\ Mine(p, k)
  BY DEF Types, PipeTypes, PipesNamed, Mine
<1>2. Mine(p, k)'
  BY <1>1, MineStays
<1>3. QED
  BY <1>1, <1>2 DEF Mine

\* A step of one loop while the others rest.
OneLoop(s) == \A t \in Scans : t # s => ~Active(t) /\ loop'[t] = loop[t]
TakenFor(s) == loop[s].pc \in TakenPcs => pipe[KindOf[s]] = None
PostedFor(s) == \A p \in Pipes : Busy(p) =>
    /\ Active(s) => KindOf[s] = job[p].kind
    /\ pipe[job[p].kind] = p \/ Holds(s, p)

LEMMA OrderFor ==
    ASSUME NEW s \in Scans, OneLoop(s), TakenFor(s)', PostedFor(s)', PipesNamed', LoopNamed(s)'
    PROVE  Order'
<1>1. \A t \in Scans : t # s => ~Active(t)' /\ loop'[t].pc = "idle"
  BY DEF OneLoop, Active
<1>2. Solo'
  BY <1>1 DEF Solo
<1>3. Taken'
  BY <1>1 DEF Taken, TakenFor, TakenPcs
<1>4. Posted'
  BY <1>1 DEF Posted, PostedFor
<1>5. Named'
  BY <1>1 DEF Named, LoopNamed
<1>6. QED
  BY <1>2, <1>3, <1>4, <1>5 DEF Order

LEMMA OrderOf ==
    ASSUME Order, NEW s \in Scans, Active(s)
    PROVE  /\ TakenFor(s) /\ PostedFor(s) /\ PipesNamed /\ LoopNamed(s)
           /\ \A t \in Scans : t # s => ~Active(t)
<1>1. \A t \in Scans : t # s => ~Active(t)
  BY DEF Order, Solo
<1>2. \A t \in Scans, p \in Pipes : Holds(t, p) => t = s
  BY <1>1 DEF Holds, Active
<1>3. QED
  BY <1>1, <1>2 DEF Order, Taken, TakenFor, Posted, PostedFor, Named

\* A loop that opens, reads or fails has no task at work behind it.
LEMMA NoneBusy ==
    ASSUME Order, NEW s \in Scans, loop[s].pc \in {"opening", "reading", "failing"}
    PROVE  \A p \in Pipes : ~Busy(p)
<1>1. Active(s) /\ loop[s].pc \in TakenPcs
  BY DEF Active, TakenPcs
<1>2. pipe[KindOf[s]] = None /\ PostedFor(s)
  BY <1>1, OrderOf DEF TakenFor
<1>3. \A p \in Pipes : p # None
  BY NoneIsNoValue
<1>4. QED
  BY <1>1, <1>2, <1>3 DEF PostedFor, Holds

LEMMA OrderGoes ==
    ASSUME Types, Order, NEW s \in Scans, Active(s), NEW pc \in {"opening", "between", "failing", "closing"},
           Goes(s, pc)
    PROVE  /\ OneLoop(s) /\ loop'[s].pc = pc /\ Active(s)'
           /\ loop'[s].start = loop[s].start /\ loop'[s].top = loop[s].top
           /\ loop'[s].cancelled = loop[s].cancelled
<1>1. \A t \in Scans : t # s => ~Active(t)
  BY OrderOf
<1>2. loop = [t \in Scans |-> loop[t]] /\ loop[s] \in Loops
  BY DEF Types, LoopTypes, LoopFits
<1>3. \A t \in Scans : loop'[t] = IF t = s THEN Gone(s, pc) ELSE loop[t]
  BY <1>2 DEF Goes, Gone
<1>4. loop'[s] = Gone(s, pc)
  BY <1>3
<1>5. QED
  BY <1>1, <1>2, <1>3, <1>4 DEF OneLoop, Active, Gone, Loops

LEMMA OrderStartScan ==
    ASSUME Alone, Types, Order, NEW s \in Scans, StartScan(s)
    PROVE  Order' /\ OneLoop(s)
<1>1. PICK k \in Kinds : k = KindOf[s]
  BY KindTypes
<1>2. /\ \A t \in Scans : loop[t].pc = "idle"
      /\ \A p \in Pipes : job[p].kind = k \/ Quiet(p)
  BY <1>1 DEF StartScan, MayStart, Alone
<1>3. /\ loop'[s].pc = IF pipe[k] = None THEN "opening" ELSE "stopping"
      /\ loop'[s].held = pipe[k] /\ pipe' = [pipe EXCEPT ![k] = None] /\ job' = job
      /\ \A t \in Scans : t # s => loop'[t] = loop[t]
  BY <1>1 DEF StartScan, Types, LoopTypes
<1>4. OneLoop(s)
  BY <1>2, <1>3 DEF OneLoop, Active
<1>5. TakenFor(s)'
  BY <1>1, <1>3 DEF TakenFor, Types, PipeTypes
<1>6. PostedFor(s)'
  <2> SUFFICES ASSUME NEW p \in Pipes, Busy(p)
               PROVE  /\ KindOf[s] = job[p].kind
                      /\ loop'[s].pc = "stopping" /\ loop'[s].held = p
    BY <1>3 DEF PostedFor, Holds, Busy
  <2>1. job[p].kind = k
    BY <1>2 DEF Quiet, Busy
  <2>2. pipe[k] = p /\ p # None
    BY <1>2, <2>1, NoneIsNoValue DEF Order, Posted, Holds
  <2>3. QED
    BY <1>1, <1>3, <2>1, <2>2
<1>7. PipesNamed' /\ KeepsKinds
  <2>1. KeepsKinds
    BY <1>3, Bounds DEF KeepsKinds, StartScan, worker, Types, WorkerTypes
  <2>2. QED
    BY <1>3, <2>1, PipesStay DEF Order, Named, Types, PipeTypes
<1>8. LoopNamed(s)'
  <2>1. PICK p \in Pipes \cup {None} : p = pipe[k]
    BY DEF Types, PipeTypes
  <2>2. Mine(p, k)'
    BY <1>7, <2>1, MineStays DEF Order, Named, PipesNamed
  <2>3. QED
    BY <1>1, <1>3, <2>1, <2>2 DEF LoopNamed, Mine
<1>9. QED
  BY <1>4, <1>5, <1>6, <1>7, <1>8, OrderFor

\* A loop ends a scan once its task is quiet.
LEMMA OrderStopOld ==
    ASSUME Alone, Types, Order, NEW s \in Scans, StopOld(s) \/ NextFails(s)
    PROVE  Order' /\ OneLoop(s)
<1>1. PICK p : p = loop[s].held
  OBVIOUS
<1>2. /\ loop[s].pc \in {"stopping", "waiting"} /\ p \in Pipes /\ Quiet(p)
      /\ Shutdown(p) /\ Active(s)
      /\ UNCHANGED pipe \/ pipe' = [pipe EXCEPT ![KindOf[s]] = None]
  BY <1>1 DEF StopOld, NextFails, Alone, Quiet, Active, Types, LoopTypes, LoopFits
<1>3. PICK pc \in {"opening", "failing"} : Goes(s, pc)
  BY DEF StopOld, NextFails
<1>4. OneLoop(s) /\ loop'[s].pc = pc
  BY <1>2, <1>3, OrderGoes
<1>5. pipe[KindOf[s]] = None /\ PostedFor(s)
  BY <1>2, OrderOf DEF TakenFor, TakenPcs
<1>6. UNCHANGED pipe
  BY <1>2, <1>5 DEF Types, PipeTypes
<1>7. \A q \in Pipes : ~Busy(q)'
  <2> SUFFICES ASSUME NEW q \in Pipes, Busy(q)' PROVE FALSE
    OBVIOUS
  <2>1. job'[q] = IF q = p /\ Quiet(q) THEN NoJob ELSE job[q]
    BY <1>2 DEF Shutdown
  <2>2. Busy(q)
    BY <2>1 DEF Busy, NoJob
  <2>3. q = p
    BY <1>1, <1>2, <1>5, <2>2, NoneIsNoValue DEF PostedFor, Holds
  <2>4. QED
    BY <1>2, <2>2, <2>3 DEF Quiet, Busy
<1>8. PipesNamed'
  <2>1. UNCHANGED opened /\ \A q \in Pipes : job'[q] = IF q = p /\ Quiet(q) THEN NoJob ELSE job[q]
    BY <1>1, <1>2 DEF Shutdown, StopOld, NextFails
  <2>2. KeepsKinds
    BY <2>1, Bounds DEF KeepsKinds, NoJob, Types, WorkerTypes
  <2>3. QED
    BY <1>2, <1>6, <2>2, OrderOf, PipesStay
<1>9. QED
  BY <1>4, <1>5, <1>6, <1>7, <1>8, OrderFor DEF TakenFor, PostedFor, LoopNamed

LEMMA OrderWorkerOpens ==
    ASSUME Types, Order, NEW s \in Scans, WorkerOpens(s) \/ OpenFails(s)
    PROVE  Order' /\ OneLoop(s)
<1>1. Active(s) /\ loop[s].pc = "opening" /\ UNCHANGED <<pipe, job>>
  BY DEF WorkerOpens, OpenFails, Active
<1>2. OneLoop(s)
  <2>1. \A t \in Scans : t # s => ~Active(t) /\ loop'[t] = loop[t]
    BY <1>1, OrderOf DEF WorkerOpens, OpenFails, Goes, Types, LoopTypes
  <2>2. QED
    BY <2>1 DEF OneLoop
<1>3. TakenFor(s)'
  BY <1>1, OrderOf DEF TakenFor, TakenPcs
<1>4. PostedFor(s)'
  BY <1>1, NoneBusy DEF PostedFor, Busy
<1>5. KeepsKinds /\ opened \in Nat
  <2>1. opened \in Nat /\ (opened' = opened \/ opened' = opened + 1)
    BY Bounds DEF WorkerOpens, OpenFails, worker, Types, WorkerTypes
  <2>2. QED
    BY <1>1, <2>1 DEF KeepsKinds
<1>6. PipesNamed'
  BY <1>1, <1>5, OrderOf, PipesStay
<1>7. LoopNamed(s)'
  <2>1. CASE loop'[s].pc = "reading"
    <3>1. opened' = opened + 1 /\ loop'[s].shm = opened + 1 /\ opened < MaxOpens
      <4>1. loop = [t \in Scans |-> loop[t]] /\ loop[s] \in Loops
        BY DEF Types, LoopTypes, LoopFits
      <4>2. ~Goes(s, "failing")
        BY <2>1, <4>1 DEF Goes, Loops
      <4>3. /\ WorkerOpens(s)
            /\ loop' = [loop EXCEPT ![s].pc = "reading", ![s].shm = opened + 1, ![s].top = top]
        BY <4>2 DEF WorkerOpens, OpenFails
      <4>4. loop'[s] = [loop[s] EXCEPT !.pc = "reading", !.shm = opened + 1, !.top = top]
        BY <4>1, <4>3
      <4>5. loop'[s].shm = opened + 1
        BY <4>1, <4>4 DEF Loops
      <4>6. QED
        BY <4>3, <4>5 DEF WorkerOpens
    <3>2. \A k \in Kinds : pipe[k] # opened + 1
      <4> SUFFICES ASSUME NEW k \in Kinds, pipe[k] = opened + 1 PROVE FALSE
        OBVIOUS
      <4>1. pipe[k] \in Pipes \/ pipe[k] = None
        BY DEF Types, PipeTypes
      <4>2. opened + 1 \in Pipes /\ opened + 1 # None
        BY <1>5, <3>1, NoneIsNoValue, Bounds DEF Pipes
      <4>3. pipe[k] <= opened
        BY <4>2, <1>1, OrderOf DEF PipesNamed, Mine
      <4>4. QED
        BY <1>5, <4>3
    <3>3. QED
      BY <1>1, <1>5, <2>1, <3>1, <3>2 DEF LoopNamed
  <2>2. CASE loop'[s].pc # "reading"
    <3>1. loop'[s].pc = "failing"
      BY <2>2 DEF WorkerOpens, OpenFails, Goes, Types, LoopTypes, LoopFits, Loops
    <3>2. QED
      BY <3>1 DEF LoopNamed
  <2>3. QED
    BY <2>1, <2>2
<1>8. QED
  BY <1>2, <1>3, <1>4, <1>6, <1>7, OrderFor

LEMMA OrderOpenReads ==
    ASSUME Types, Order, NEW s \in Scans, OpenReads(s)
    PROVE  Order' /\ OneLoop(s)
<1>1. PICK k \in Kinds, p \in Pipes : k = KindOf[s] /\ p = loop[s].shm
  BY KindTypes DEF Types, LoopTypes, LoopFits, OpenReads
<1>2. Active(s) /\ loop[s].pc = "reading" /\ pipe[k] = None
  BY <1>1, OrderOf DEF OpenReads, Active, TakenFor, TakenPcs
<1>3. \A q \in Pipes : ~Busy(q)
  BY <1>2, NoneBusy
<1>4. CASE Readable(p, k, s)
  <2>1. /\ pipe' = [pipe EXCEPT ![k] = p] /\ Answer(s, shm.page)
        /\ job' = [job EXCEPT ![p] = [pc |-> IF shm.page.end THEN "none" ELSE "asked",
                                      kind |-> k, page |-> None]]
    BY <1>1, <1>4 DEF OpenReads
  <2>2. PICK pc \in {"between", "closing"} : Goes(s, pc)
    BY <2>1 DEF Answer
  <2>3. OneLoop(s) /\ loop'[s].pc = pc
    BY <1>2, <2>2, OrderGoes
  <2>4. TakenFor(s)'
    BY <2>3 DEF TakenFor, TakenPcs
  <2>5. pipe'[k] = p /\ \A q \in Pipes : q # p => job'[q] = job[q]
    BY <2>1 DEF Types, PipeTypes, JobTypes
  <2>6. job'[p].kind = k
    BY <2>1 DEF Types, JobTypes
  <2>7. PostedFor(s)'
    BY <1>1, <1>3, <2>5, <2>6 DEF PostedFor, Busy
  <2>8. opened' = opened /\ opened \in Nat /\ p <= opened /\ \A j \in Kinds : pipe[j] # p
    BY <1>1, <1>2, OrderOf, Bounds DEF OpenReads, LoopNamed, Types, WorkerTypes
  <2>9. PipesNamed'
    <3> SUFFICES ASSUME NEW j \in Kinds PROVE Mine(pipe[j], j)'
      BY DEF PipesNamed
    <3>1. CASE j = k
      BY <2>5, <2>6, <2>8, <3>1 DEF Mine
    <3>2. CASE j # k
      <4>1. pipe'[j] = pipe[j] /\ pipe[j] \in Pipes \cup {None} /\ pipe[j] # p /\ Mine(pipe[j], j)
        BY <1>2, <2>1, <2>8, <3>2, OrderOf DEF Types, PipeTypes, PipesNamed
      <4>2. pipe[j] # None => job'[pipe[j]] = job[pipe[j]]
        BY <2>5, <4>1
      <4>3. QED
        BY <2>8, <4>1, <4>2 DEF Mine
    <3>3. QED
      BY <3>1, <3>2
  <2>10. LoopNamed(s)'
    BY <2>3 DEF LoopNamed
  <2>11. QED
    BY <2>3, <2>4, <2>7, <2>9, <2>10, OrderFor
<1>5. CASE ~Readable(p, k, s)
  <2>1. Goes(s, "failing") /\ UNCHANGED <<pipe, job>>
    BY <1>1, <1>5 DEF OpenReads
  <2>2. OneLoop(s) /\ loop'[s].pc = "failing"
    BY <1>2, <2>1, OrderGoes
  <2>3. TakenFor(s)' /\ PostedFor(s)'
    BY <1>1, <1>2, <1>3, <2>1 DEF TakenFor, PostedFor, Busy
  <2>4. KeepsKinds
    BY <2>1, Bounds DEF KeepsKinds, OpenReads, Types, WorkerTypes, JobTypes, JobFits, Jobs
  <2>5. PipesNamed' /\ LoopNamed(s)'
    BY <1>2, <2>1, <2>2, <2>4, OrderOf, PipesStay DEF LoopNamed
  <2>6. QED
    BY <2>2, <2>3, <2>5, OrderFor
<1>6. QED
  BY <1>4, <1>5

LEMMA OrderTakes ==
    ASSUME Types, Order, NEW s \in Scans, NextTakes(s) \/ CloseTakes(s)
    PROVE  Order' /\ OneLoop(s)
<1>1. PICK k \in Kinds : k = KindOf[s]
  BY KindTypes
<1>2. /\ Active(s) /\ loop[s].pc \in {"between", "closing"} /\ UNCHANGED job
      /\ \A t \in Scans : loop'[t] = loop[t] \/ t = s
  BY DEF NextTakes, CloseTakes, Active, Goes, Types, LoopTypes
<1>3. OneLoop(s)
  BY <1>2, OrderOf DEF OneLoop
<1>4. \A p \in Pipes : Busy(p) => k = job[p].kind /\ pipe[k] = p
  BY <1>1, <1>2, OrderOf DEF PostedFor, Holds
<1>5. \/ UNCHANGED pipe /\ loop'[s].pc = "idle"
      \/ UNCHANGED pipe /\ pipe[k] = None /\ loop'[s].pc = "failing"
      \/ /\ pipe' = [pipe EXCEPT ![k] = None]
         /\ loop'[s].pc \in {"waiting", "ending"} /\ loop'[s].held = pipe[k]
  <2>1. loop = [t \in Scans |-> loop[t]] /\ loop[s] \in Loops
    BY DEF Types, LoopTypes, LoopFits
  <2>2. ASSUME NEW pc, loop' = [loop EXCEPT ![s].pc = pc, ![s].held = pipe[k]]
        PROVE  loop'[s].pc = pc /\ loop'[s].held = pipe[k]
    BY <2>1, <2>2 DEF Loops
  <2>3. Goes(s, "failing") => loop'[s].pc = "failing"
    BY <2>1 DEF Goes, Loops
  <2>4. loop' = [loop EXCEPT ![s] = Resting] => loop'[s].pc = "idle"
    BY <2>1 DEF Resting
  <2>5. CASE NextTakes(s)
    BY <1>1, <2>2, <2>3, <2>5 DEF NextTakes
  <2>6. CASE CloseTakes(s)
    BY <1>1, <2>2, <2>4, <2>6 DEF CloseTakes
  <2>7. QED
    BY <2>5, <2>6
<1>6. TakenFor(s)'
  BY <1>1, <1>5 DEF TakenFor, TakenPcs, Types, PipeTypes
<1>7. PostedFor(s)'
  BY <1>1, <1>2, <1>4, <1>5 DEF PostedFor, Busy, Active, Holds
<1>8. KeepsKinds
  BY <1>2, Bounds DEF KeepsKinds, NextTakes, CloseTakes, worker, Types, WorkerTypes, JobTypes, JobFits, Jobs
<1>9. PipesNamed'
  BY <1>2, <1>5, <1>8, OrderOf, PipesStay DEF Types, PipeTypes
<1>10. LoopNamed(s)'
  <2>1. PICK p \in Pipes \cup {None} : p = pipe[k]
    BY DEF Types, PipeTypes
  <2>2. Mine(p, k)'
    BY <1>2, <1>8, <2>1, OrderOf, MineStays DEF PipesNamed
  <2>3. QED
    BY <1>1, <1>5, <2>1, <2>2 DEF LoopNamed, Mine
<1>11. QED
  BY <1>3, <1>6, <1>7, <1>9, <1>10, OrderFor

LEMMA OrderNextAnswers ==
    ASSUME Types, Order, NEW s \in Scans, NextAnswers(s)
    PROVE  Order' /\ OneLoop(s)
<1>1. PICK k \in Kinds, p \in Pipes : k = KindOf[s] /\ p = loop[s].held
  BY KindTypes DEF Types, LoopTypes, LoopFits, NextAnswers
<1>2. /\ Active(s) /\ loop[s].pc = "waiting" /\ job[p].pc = "ready"
      /\ pipe' = [pipe EXCEPT ![k] = p] /\ Answer(s, job[p].page)
      /\ SetJob(p, IF job[p].page.end THEN "none" ELSE "asked", None)
  BY <1>1 DEF NextAnswers, Active
<1>3. PICK pc \in {"between", "closing"} : Goes(s, pc)
  BY <1>2 DEF Answer
<1>4. OneLoop(s) /\ loop'[s].pc = pc
  BY <1>2, <1>3, OrderGoes
<1>5. TakenFor(s)'
  BY <1>4 DEF TakenFor, TakenPcs
<1>6. /\ \A q \in Pipes : ~Busy(q) \/ q = p
      /\ pipe[k] = None
  BY <1>1, <1>2, OrderOf, NoneIsNoValue DEF PostedFor, TakenFor, TakenPcs, Holds
<1>7. job'[p].pc \in {"none", "asked"} /\ \A q \in Pipes : q # p => job'[q] = job[q]
  BY <1>2 DEF SetJob, Types, JobTypes, JobFits, Jobs
<1>8. pipe'[k] = p
  BY <1>2 DEF Types, PipeTypes
<1>9. job'[p].kind = k /\ job'[p].kind = job[p].kind
  <2>1. job[p].kind = k
    BY <1>1, <1>2, OrderOf, NoneIsNoValue DEF LoopNamed, Mine
  <2>2. QED
    BY <1>2, <2>1 DEF SetJob, Types, JobTypes, JobFits, Jobs
<1>10. PostedFor(s)'
  BY <1>1, <1>6, <1>7, <1>8, <1>9 DEF PostedFor, Busy
<1>11. KeepsKinds
  BY <1>2, <1>7, <1>9, Bounds DEF KeepsKinds, NextAnswers, worker, Types, WorkerTypes
<1>12. PipesNamed'
  <2> SUFFICES ASSUME NEW j \in Kinds PROVE Mine(pipe[j], j)'
    BY DEF PipesNamed
  <2>1. CASE j = k
    <3>1. Mine(p, k)'
      BY <1>1, <1>2, <1>11, OrderOf, MineStays DEF LoopNamed
    <3>2. QED
      BY <1>8, <2>1, <3>1 DEF Mine
  <2>2. CASE j # k
    <3>1. PICK q \in Pipes \cup {None} : q = pipe[j] /\ pipe'[j] = q
      BY <1>2, <2>2 DEF Types, PipeTypes
    <3>2. Mine(q, j)'
      BY <1>2, <1>11, <3>1, OrderOf, MineStays DEF PipesNamed
    <3>3. QED
      BY <3>1, <3>2 DEF Mine
  <2>3. QED
    BY <2>1, <2>2
<1>13. LoopNamed(s)'
  BY <1>4 DEF LoopNamed
<1>14. QED
  BY <1>4, <1>5, <1>10, <1>12, <1>13, OrderFor

LEMMA OrderCloses ==
    ASSUME Types, Order, NEW s \in Scans, LeaveLoop(s) \/ \E upto \in 0..MaxRecords : FallBack(s, upto)
    PROVE  Order' /\ OneLoop(s)
<1>1. /\ Active(s) /\ loop[s].pc \in {"between", "failing"} /\ Goes(s, "closing")
      /\ UNCHANGED <<pipe, job, opened>>
  BY DEF LeaveLoop, FallBack, Active, worker
<1>2. OneLoop(s) /\ loop'[s].pc = "closing"
  BY <1>1, OrderGoes
<1>3. PostedFor(s)'
  BY <1>1, OrderOf DEF PostedFor, Busy, Holds
<1>4. KeepsKinds
  BY <1>1, Bounds DEF KeepsKinds, Types, WorkerTypes, JobTypes
<1>5. PipesNamed'
  BY <1>1, <1>4, OrderOf, PipesStay
<1>6. QED
  BY <1>2, <1>3, <1>5, OrderFor DEF TakenFor, TakenPcs, LoopNamed

LEMMA OrderCloseEnds ==
    ASSUME Alone, Types, Order, NEW s \in Scans, CloseEnds(s)
    PROVE  Order' /\ OneLoop(s)
<1>1. PICK h : h = loop[s].held
  OBVIOUS
<1>2. /\ loop[s].pc = "ending" /\ Active(s) /\ Shutdown(h)
      /\ h = None \/ Quiet(h)
      /\ loop' = [loop EXCEPT ![s] = Resting] /\ UNCHANGED <<pipe, opened>>
  BY <1>1 DEF CloseEnds, Alone, Active
<1>3. OneLoop(s) /\ loop'[s].pc = "idle"
  <2>1. \A t \in Scans : loop'[t] = IF t = s THEN Resting ELSE loop[t]
    BY <1>2 DEF Types, LoopTypes
  <2>2. QED
    BY <1>2, <2>1, OrderOf DEF OneLoop, Resting
<1>4. h \in Pipes \cup {None} /\ pipe[KindOf[s]] = None /\ PostedFor(s)
  BY <1>1, <1>2, OrderOf DEF Types, LoopTypes, LoopFits, Loops, TakenFor, TakenPcs
<1>5. \A q \in Pipes : job'[q] = IF q = h /\ Quiet(q) THEN NoJob ELSE job[q]
  BY <1>1 DEF CloseEnds, Shutdown
<1>6. \A q \in Pipes : ~Busy(q)'
  <2> SUFFICES ASSUME NEW q \in Pipes, Busy(q)' PROVE FALSE
    OBVIOUS
  <2>1. Busy(q)
    BY <1>5 DEF Busy, NoJob
  <2>2. q = h /\ h # None
    BY <1>1, <1>2, <1>4, <2>1, NoneIsNoValue DEF PostedFor, Holds
  <2>3. Quiet(h)
    BY <1>1, <2>2 DEF CloseEnds, Alone
  <2>4. QED
    BY <1>4, <2>1, <2>2, <2>3 DEF Quiet, Busy
<1>7. KeepsKinds
  BY <1>2, <1>5, Bounds DEF KeepsKinds, NoJob, Types, WorkerTypes
<1>8. PipesNamed'
  BY <1>2, <1>7, OrderOf, PipesStay
<1>9. QED
  BY <1>3, <1>6, <1>8, OrderFor DEF TakenFor, TakenPcs, PostedFor, LoopNamed

\* A step that moves no loop on, and no task to work.
LEMMA OrderStays ==
    ASSUME Types, Order, KeepsKinds, UNCHANGED <<pipe, opened>>,
           \A p \in Pipes : Busy(p)' => Busy(p) /\ job'[p].kind = job[p].kind,
           \A s \in Scans : /\ loop'[s].pc = loop[s].pc
                            /\ loop'[s].held = loop[s].held /\ loop'[s].shm = loop[s].shm
    PROVE  Order'
<1>1. Solo' /\ Taken'
  BY DEF Order, Solo, Active, Taken
<1>2. Posted'
  BY DEF Order, Posted, Active, Holds
<1>3. PipesNamed'
  BY PipesStay DEF Order, Named
<1>4. ASSUME NEW s \in Scans PROVE LoopNamed(s)'
  <2>1. LoopNamed(s)
    BY DEF Order, Named
  <2>2. PICK h \in Pipes \cup {None} : h = loop[s].held
    BY DEF Types, LoopTypes, LoopFits, Loops
  <2>3. loop[s].pc \in {"stopping", "waiting", "ending"} => Mine(h, KindOf[s])'
    BY <2>1, <2>2, MineStays DEF LoopNamed
  <2>4. QED
    BY <2>1, <2>2, <2>3 DEF LoopNamed, Mine
<1>5. QED
  BY <1>1, <1>2, <1>3, <1>4 DEF Order, Named

LEMMA OrderJob ==
    ASSUME Types, Order, NEW p \in Pipes, JobFetch(p) \/ JobRead(p)
    PROVE  Order'
<1>1. /\ UNCHANGED <<pipe, opened, loop>> /\ Busy(p)
      /\ \E pc, page : SetJob(p, pc, page)
  BY DEF JobFetch, JobRead, Busy
<1>2. PICK pc, page : SetJob(p, pc, page)
  BY <1>1
<1>3. \A q \in Pipes : /\ q # p => job'[q] = job[q]
                       /\ job'[q].kind = job[q].kind
  BY <1>2 DEF SetJob, Types, JobTypes, JobFits, Jobs
<1>4. \A q \in Pipes : Busy(q)' => Busy(q)
  BY <1>1, <1>3 DEF Busy
<1>5. KeepsKinds
  BY <1>1, <1>3, Bounds DEF KeepsKinds, Busy, Types, WorkerTypes
<1>6. QED
  BY <1>1, <1>3, <1>4, <1>5, OrderStays

\* The token of a loop is taken away, or nothing that matters here happens.
LEMMA OrderUser ==
    ASSUME Types, Order, UNCHANGED <<worker, pipe, job>>,
           UNCHANGED loop \/ \E t \in Scans : loop' = [loop EXCEPT ![t].cancelled = TRUE]
    PROVE  Order'
<1>1. \A s \in Scans : /\ loop'[s].pc = loop[s].pc /\ loop'[s].held = loop[s].held
                       /\ loop'[s].shm = loop[s].shm /\ loop'[s].start = loop[s].start
                       /\ loop'[s].top = loop[s].top
  BY DEF Types, LoopTypes, LoopFits, Loops
<1>2. KeepsKinds
  BY Bounds DEF KeepsKinds, worker, Types, WorkerTypes, JobTypes
<1>3. QED
  BY <1>1, <1>2, OrderStays DEF Busy, worker

LEMMA OrderInit == Init => Order
  BY DEF Init, Order, Solo, Active, Taken, TakenPcs, Posted, Busy, Named, PipesNamed, LoopNamed,
         Mine, Resting, NoJob

LEMMA OrderStep ==
    ASSUME Alone, Types, Order, NEW s \in Scans, Step(s)
    PROVE  Order' /\ OneLoop(s)
  BY OrderStartScan, OrderStopOld, OrderWorkerOpens, OrderOpenReads, OrderTakes, OrderNextAnswers,
     OrderCloses, OrderCloseEnds DEF Step

LEMMA OrderNext == Alone /\ Types /\ Order /\ [Next]_vars => Order'
<1> SUFFICES ASSUME Alone, Types, Order, [Next]_vars PROVE Order'
  OBVIOUS
<1>1. ASSUME NEW k \in Kinds, Cancel(k) \/ ClearCache(k) PROVE Order'
  <2>1. owner[k] # None => owner[k] \in Scans
    BY DEF Types, FrontTypes
  <2>2. /\ UNCHANGED <<worker, pipe, job>>
        /\ UNCHANGED loop \/ \E t \in Scans : loop' = [loop EXCEPT ![t].cancelled = TRUE]
    BY <1>1, <2>1 DEF Cancel, ClearCache
  <2>3. QED
    BY <2>2, OrderUser
<1>2. CASE AddRecord
  BY <1>2, OrderUser DEF AddRecord
<1>3. CASE UNCHANGED vars
  BY <1>3, OrderUser DEF vars
<1>4. QED
  BY <1>1, <1>2, <1>3, OrderStep, OrderJob DEF Next

-----------------------------------------------------------------------------
(* No record is left out: what the cache, the cursor and the pages on their    *)
(* way know of each other.                                                     *)

Complete == \A k \in Kinds : \A r \in 1..MaxRecords :
                r <= maxId[k] \/ r <= covered[k] => Shows(k, r)

\* All the records the cursor has passed are in the cache or on the page.
CursorFits(s, recs) == cursor # None =>
    /\ cursor.top = loop[s].top
    /\ \A r \in 1..MaxRecords : r < cursor.pos => r \in recs \/ Shows(KindOf[s], r)

PageFits(s, page) ==
    /\ CursorFits(s, page.recs)
    /\ \A q \in page.recs : \A r \in 1..MaxRecords :
          r <= q => r \in page.recs \/ Shows(KindOf[s], r)
    /\ page.end => \A r \in 1..MaxRecords : r <= loop[s].top => Shows(KindOf[s], r)

StartFits(s) == \A r \in 1..MaxRecords : r < loop[s].start => Shows(KindOf[s], r)

PageThere == shm # None /\ shm.page # None

ScanOf(s, p) == \/ loop[s].pc = "between" /\ pipe[KindOf[s]] = p
                \/ loop[s].pc = "waiting" /\ loop[s].held = p

Fetches(s, p) ==
    /\ job[p].pc = "asked" => CursorFits(s, {})
    /\ job[p].pc = "fetched" /\ PageThere => PageFits(s, shm.page)
    /\ job[p].pc = "ready" => PageFits(s, job[p].page)

Pages(s) ==
    /\ StartFits(s)
    /\ loop[s].pc = "reading" /\ PageThere => PageFits(s, shm.page)
    /\ \A p \in Pipes : ScanOf(s, p) => Fetches(s, p)

Merges == \A s \in Scans : Valid(s) => Pages(s)

\* The cache of a kind only grows.
Grows(k) == \A r \in 1..MaxRecords : Shows(k, r) => Shows(k, r)'

LEMMA GrowsIs ==
    ASSUME UNCHANGED bad, NEW k, cache[k] \subseteq cache'[k]
    PROVE  Grows(k)
  BY DEF Grows, Shows

LEMMA LargestOfTwo ==
    ASSUME NEW a \in 0..MaxRecords, NEW b \in 0..MaxRecords, NEW r \in 1..Largest({a, b})
    PROVE  r \in 1..MaxRecords /\ (r <= a \/ r <= b)
<1>1. {a, b} \in SUBSET (0..MaxRecords) /\ {a, b} # {}
  OBVIOUS
<1>2. {a, b} \in SUBSET Nat /\ IsFiniteSet({a, b})
  BY <1>1, Bounds, IntervalIs
<1>3. Largest({a, b}) \in {a, b}
  BY <1>1, <1>2, LargestIs
<1>4. Largest({a, b}) = a \/ Largest({a, b}) = b
  BY <1>3
<1>5. QED
  BY <1>4, Bounds

LEMMA CompleteIs == Types /\ Complete => CacheIsComplete
<1> SUFFICES ASSUME Types, Complete, NEW k \in Kinds, NEW r \in 1..Largest({maxId[k], covered[k]})
             PROVE  Shows(k, r)
  BY DEF CacheIsComplete
<1>1. maxId[k] \in 0..MaxRecords /\ covered[k] \in 0..MaxRecords
  BY DEF Types, FrontTypes
<1>2. r \in 1..MaxRecords /\ (r <= maxId[k] \/ r <= covered[k])
  BY <1>1, LargestOfTwo
<1>3. QED
  BY <1>2 DEF Complete

\* What a loop relies on stays so while the cache grows and its scan rests.
LEMMA CursorStays ==
    ASSUME NEW s \in Scans, Grows(KindOf[s]), UNCHANGED cursor, loop'[s].top = loop[s].top,
           NEW recs, CursorFits(s, recs)
    PROVE  CursorFits(s, recs)'
  BY DEF CursorFits, Grows

LEMMA PageStays ==
    ASSUME NEW s \in Scans, Grows(KindOf[s]), UNCHANGED cursor, loop'[s].top = loop[s].top,
           NEW page, PageFits(s, page)
    PROVE  PageFits(s, page)'
<1>1. CursorFits(s, page.recs)'
  BY CursorStays DEF PageFits
<1>2. ASSUME NEW q \in page.recs, NEW r \in 1..MaxRecords, r <= q
      PROVE  r \in page.recs \/ Shows(KindOf[s], r)'
  BY <1>2 DEF PageFits, Grows
<1>3. page.end => \A r \in 1..MaxRecords : r <= loop'[s].top => Shows(KindOf[s], r)'
  BY DEF PageFits, Grows
<1>4. QED
  BY <1>1, <1>2, <1>3 DEF PageFits

LEMMA FetchesStay ==
    ASSUME NEW s \in Scans, Grows(KindOf[s]), UNCHANGED <<cursor, shm, job>>,
           loop'[s].top = loop[s].top, NEW p \in Pipes, Fetches(s, p)
    PROVE  Fetches(s, p)'
<1>1. PICK page, ready : page = shm.page /\ ready = job[p].page
  OBVIOUS
<1>2. job[p].pc = "asked" => CursorFits(s, {})'
  BY CursorStays DEF Fetches
<1>3. job[p].pc = "fetched" /\ PageThere => PageFits(s, page)'
  BY <1>1, PageStays DEF Fetches
<1>4. job[p].pc = "ready" => PageFits(s, ready)'
  BY <1>1, PageStays DEF Fetches
<1>5. PageThere' => PageThere
  BY DEF PageThere
<1>6. QED
  BY <1>1, <1>2, <1>3, <1>4, <1>5 DEF Fetches

LEMMA PagesStay ==
    ASSUME NEW s \in Scans, Pages(s), Grows(KindOf[s]), UNCHANGED <<cursor, shm, pipe, job>>,
           loop'[s].pc = loop[s].pc, loop'[s].held = loop[s].held,
           loop'[s].start = loop[s].start, loop'[s].top = loop[s].top
    PROVE  Pages(s)'
<1>1. StartFits(s)'
  BY DEF Pages, StartFits, Grows
<1>2. PICK page : page = shm.page
  OBVIOUS
<1>3. loop[s].pc = "reading" /\ PageThere => PageFits(s, page)'
  BY <1>2, PageStays DEF Pages
<1>4. \A p \in Pipes : ScanOf(s, p)' => Fetches(s, p)'
  BY FetchesStay DEF Pages, ScanOf
<1>5. QED
  BY <1>1, <1>2, <1>3, <1>4 DEF Pages, PageThere

\* A step of one loop: what the resting ones rely on stays so.
LEMMA MergesFor ==
    ASSUME Merges, NEW s \in Scans, OneLoop(s),
           \A t \in Scans : t # s /\ Valid(t)' => Valid(t) /\ Grows(KindOf[t]),
           Valid(s)' => Pages(s)'
    PROVE  Merges'
<1> SUFFICES ASSUME NEW t \in Scans, t # s, Valid(t)' PROVE Pages(t)'
  BY DEF Merges
<1>1. StartFits(t) /\ loop'[t] = loop[t] /\ loop[t].pc = "idle" /\ Grows(KindOf[t])
  BY DEF Merges, Pages, OneLoop, Active
<1>2. StartFits(t)'
  BY <1>1 DEF StartFits, Grows
<1>3. QED
  BY <1>1, <1>2 DEF Pages, ScanOf

Data == Complete /\ Merges

\* Steps that leave the front end's cache alone, and its loop between no pages.
LEMMA FrontStays ==
    ASSUME Complete, UNCHANGED <<bad, cache, maxId, covered>>
    PROVE  Complete' /\ \A k : Grows(k)
  BY DEF Complete, Grows, Shows

LEMMA PagesNone ==
    ASSUME NEW s \in Scans, StartFits(s), Grows(KindOf[s]), loop'[s].start = loop[s].start,
           loop'[s].pc \notin {"reading", "between", "waiting"}
    PROVE  Pages(s)'
  BY DEF Pages, StartFits, Grows, ScanOf

LEMMA DataStartScan ==
    ASSUME Types, Data, NEW s \in Scans, StartScan(s), OneLoop(s)
    PROVE  Data'
<1>1. PICK k \in Kinds : k = KindOf[s]
  BY KindTypes
<1>2. Complete' /\ \A j : Grows(j)
  BY FrontStays DEF Data, StartScan, vault
<1>3. /\ loop'[s].start = IF maxId[k] > 0 THEN maxId[k] + 1 ELSE 1
      /\ loop'[s].pc \in {"opening", "stopping"}
      /\ owner' = [owner EXCEPT ![k] = s]
      /\ maxId[k] \in Nat
  BY <1>1, Bounds DEF StartScan, Types, LoopTypes, FrontTypes
<1>4. ASSUME NEW r \in 1..MaxRecords, r < loop'[s].start PROVE Shows(k, r)
  <2>1. r <= maxId[k]
    BY <1>3, <1>4
  <2>2. QED
    BY <2>1 DEF Data, Complete
<1>5. Pages(s)'
  BY <1>1, <1>2, <1>3, <1>4 DEF Pages, StartFits, ScanOf, Grows
<1>6. \A t \in Scans : t # s /\ Valid(t)' => Valid(t)
  BY <1>1, <1>3, KindTypes DEF Valid, OneLoop, Types, FrontTypes
<1>7. QED
  BY <1>2, <1>5, <1>6, MergesFor DEF Data

\* A loop that fails, stops or leaves merges nothing.
LEMMA DataGoes ==
    ASSUME Types, Order, Data, NEW s \in Scans, Active(s), UNCHANGED front, UNCHANGED vault,
           NEW pc \in {"opening", "failing", "closing"}, Goes(s, pc)
    PROVE  Data'
<1>1. OneLoop(s) /\ loop'[s].pc = pc /\ loop'[s].start = loop[s].start
      /\ loop'[s].cancelled = loop[s].cancelled
  BY OrderGoes
<1>2. Complete' /\ \A j : Grows(j)
  BY FrontStays DEF Data, vault, front
<1>3. \A t \in Scans : Valid(t)' => Valid(t)
  BY <1>1 DEF Valid, OneLoop, front
<1>4. Valid(s)' => Pages(s)'
  BY <1>1, <1>2, <1>3, PagesNone DEF Data, Merges, Pages
<1>5. QED
  BY <1>1, <1>2, <1>3, <1>4, MergesFor DEF Data

LEMMA DataWorkerOpens ==
    ASSUME Types, Order, Data, NEW s \in Scans, WorkerOpens(s)
    PROVE  Data'
<1>1. PICK k \in Kinds, fresh \in {[pos |-> loop[s].start, top |-> top]} :
          k = KindOf[s] /\ fresh = [pos |-> loop[s].start, top |-> top]
  BY KindTypes
<1>2. /\ loop[s] \in Loops /\ loop[s].start \in Nat \ {0} /\ loop[s].start \in 0..(MaxRecords + 1)
      /\ top \in 0..MaxRecords /\ Active(s) /\ UNCHANGED <<vault, front>>
  BY Bounds DEF Types, LoopTypes, LoopFits, Loops, FrontTypes, WorkerOpens, Active
<1>3. fresh \in Cursors /\ fresh.pos = loop[s].start /\ fresh.top = top
  BY <1>1, <1>2, Bounds DEF Cursors
<1>4. ASSUME NEW n \in 1..Batch,
             LET p == PageOf(k, fresh, n) IN
             /\ cursor' = Advance(fresh, p.past)
             /\ shm' = [id |-> opened + 1, page |->
                   [kind |-> k, who |-> s, recs |-> p.recs, failed |-> p.failed, end |-> p.end]]
             /\ loop' = [loop EXCEPT ![s].pc = "reading", ![s].shm = opened + 1, ![s].top = top]
      PROVE  Data'
  <2>1. PICK p : p = PageOf(k, fresh, n)
    OBVIOUS
  <2>2. /\ p.past \in 1..(MaxRecords + 1)
        /\ p.recs \in SUBSET (1..MaxRecords)
        /\ p.end <=> p.recs = {}
        /\ \A r \in p.recs : fresh.pos <= r /\ r < p.past
        /\ \A r \in fresh.pos..(p.past - 1) : r \in p.recs \/ (k # "summary" /\ r \in bad)
        /\ p.end => p.past = fresh.top + 1
    BY <1>3, <2>1, PageIs
  <2>3. loop = [t \in Scans |-> loop[t]]
    BY DEF Types, LoopTypes
  <2>4. loop'[s] = [loop[s] EXCEPT !.pc = "reading", !.shm = opened + 1, !.top = top]
        /\ \A t \in Scans : t # s => loop'[t] = loop[t]
    BY <1>4, <2>3
  <2>5. /\ loop'[s].pc = "reading" /\ loop'[s].top = top /\ loop'[s].start = loop[s].start
        /\ loop'[s].cancelled = loop[s].cancelled
    BY <1>2, <2>4 DEF Loops
  <2>6. OneLoop(s)
    BY <1>2, <2>4, OrderOf DEF OneLoop
  <2>7. Complete' /\ \A j : Grows(j)
    BY <1>2, FrontStays DEF Data, vault, front
  <2>8. \A t \in Scans : Valid(t)' => Valid(t)
    BY <1>2, <2>5, <2>6 DEF Valid, OneLoop, front
  <2>9. k \in {"records", "summary"}
    BY <1>1, KindsAreTwo
  <2>10. ASSUME Valid(s), NEW r \in 1..MaxRecords, r < p.past PROVE r \in p.recs \/ Shows(k, r)'
    <3>1. Shows(k, r) => Shows(k, r)'
      BY <2>7 DEF Grows
    <3>2. CASE r < loop[s].start
      BY <1>1, <2>10, <3>1, <3>2 DEF Data, Merges, Pages, StartFits
    <3>3. CASE ~(r < loop[s].start)
      <4>1. r \in fresh.pos..(p.past - 1)
        BY <1>2, <1>3, <2>2, <2>10, <3>3, Bounds
      <4>2. r \in p.recs \/ (k = "records" /\ r \in bad)
        BY <2>2, <2>9, <4>1
      <4>3. QED
        BY <3>1, <4>2 DEF Shows
    <3>4. QED
      BY <3>2, <3>3
  <2>11. ASSUME Valid(s) PROVE Pages(s)'
    <3>1. PICK page : page = shm'.page
      OBVIOUS
    <3>2. page.recs = p.recs /\ page.end = p.end
      BY <1>4, <2>1, <3>1
    <3>3. cursor'.top = top /\ cursor'.pos = p.past
      BY <1>3, <1>4, <2>1, <2>2 DEF Advance, Cursors
    <3>4. CursorFits(s, page.recs)'
      BY <1>1, <2>5, <2>10, <2>11, <3>2, <3>3 DEF CursorFits
    <3>5. ASSUME NEW q \in p.recs, NEW r \in 1..MaxRecords, r <= q
          PROVE  r \in p.recs \/ Shows(k, r)'
      <4>1. q < p.past /\ q \in Nat /\ r \in Nat /\ p.past \in Nat
        BY <2>2, Bounds
      <4>2. r < p.past
        BY <3>5, <4>1
      <4>3. QED
        BY <2>10, <2>11, <4>2
    <3>6. ASSUME p.end, NEW r \in 1..MaxRecords, r <= top PROVE Shows(k, r)'
      <4>1. r < p.past /\ r \notin p.recs
        BY <1>2, <1>3, <2>2, <3>6, Bounds
      <4>2. QED
        BY <2>10, <2>11, <4>1
    <3>7. PageFits(s, page)'
      BY <1>1, <2>5, <3>2, <3>4, <3>5, <3>6 DEF PageFits
    <3>8. StartFits(s)'
      BY <1>1, <2>5, <2>7, <2>11 DEF Data, Merges, Pages, StartFits, Grows
    <3>9. QED
      BY <2>5, <3>1, <3>7, <3>8 DEF Pages, ScanOf
  <2>12. QED
    BY <2>6, <2>7, <2>8, <2>11, MergesFor DEF Data
<1>5. CASE Goes(s, "failing")
  BY <1>2, <1>5, DataGoes
<1>6. QED
  BY <1>1, <1>4, <1>5 DEF WorkerOpens

\* An answer: its records go into the cache when the token is valid.
LEMMA AnswerData ==
    ASSUME Types, Order, Data, NEW s \in Scans, Active(s), NEW page, Sealed(page),
           Answer(s, page), UNCHANGED <<vault, cursor>>, Valid(s) => PageFits(s, page)
    PROVE  /\ Complete' /\ OneLoop(s) /\ \A j \in Kinds : Grows(j)
           /\ \A t \in Scans : Valid(t)' => Valid(t)
           /\ loop'[s].pc = IF page.end THEN "closing" ELSE "between"
           /\ Valid(s) => StartFits(s)' /\ CursorFits(s, {})'
<1>1. PICK k \in Kinds : k = KindOf[s]
  BY KindTypes
<1>2. PICK pc \in {"closing", "between"} :
         pc = (IF page.end THEN "closing" ELSE "between") /\ Goes(s, pc)
  BY DEF Answer
<1>3. /\ OneLoop(s) /\ loop'[s].pc = pc /\ loop'[s].start = loop[s].start
      /\ loop'[s].top = loop[s].top /\ loop'[s].cancelled = loop[s].cancelled
  BY <1>2, OrderGoes
<1>4. \A t \in Scans : Valid(t)' <=> Valid(t)
  BY <1>3 DEF Valid, OneLoop, Answer
<1>5. /\ cache \in [Kinds -> SUBSET (1..MaxRecords)]
      /\ maxId \in [Kinds -> 0..MaxRecords] /\ covered \in [Kinds -> 0..MaxRecords]
      /\ page.recs \in SUBSET (1..MaxRecords)
  BY DEF Types, FrontTypes, Sealed, Page
<1>6. ASSUME Valid(s) PROVE Complete' /\ (\A j \in Kinds : Grows(j)) /\ CursorFits(s, {})'
  <2>1. PICK x : x = Largest({maxId[k]} \cup page.recs)
    OBVIOUS
  <2>2. x \in {maxId[k]} \cup page.recs
    BY <1>5, <2>1, LargestAdded
  <2>3. /\ cache' = [cache EXCEPT ![k] = @ \cup page.recs]
        /\ maxId' = [maxId EXCEPT ![k] = x]
        /\ covered' = [covered EXCEPT ![k] = IF page.end THEN loop[s].top ELSE @]
        /\ bad' = bad
    BY <1>1, <1>6, <2>1 DEF Answer, vault
  <2>4. \A j \in Kinds : Grows(j)
    BY <1>5, <2>3 DEF Grows, Shows
  <2>5. PageFits(s, page)
    BY <1>6
  <2>6. \A r \in 1..MaxRecords : r \in page.recs => Shows(k, r)'
    BY <1>5, <2>3 DEF Shows
  <2>7. ASSUME NEW r \in 1..MaxRecords, r <= maxId'[k] \/ r <= covered'[k] PROVE Shows(k, r)'
    <3>1. CASE r <= maxId[k] \/ r <= covered[k]
      BY <2>4, <3>1 DEF Data, Complete, Grows
    <3>2. CASE r <= x /\ x \in page.recs
      BY <1>1, <2>4, <2>5, <2>6, <3>2 DEF PageFits, Grows
    <3>3. CASE page.end /\ r <= loop[s].top
      BY <1>1, <2>4, <2>5, <3>3 DEF PageFits, Grows
    <3>4. maxId'[k] = x /\ covered'[k] = IF page.end THEN loop[s].top ELSE covered[k]
      BY <1>5, <2>3
    <3>5. QED
      BY <2>2, <2>7, <3>1, <3>2, <3>3, <3>4
  <2>8. ASSUME NEW j \in Kinds, j # k, NEW r \in 1..MaxRecords, r <= maxId'[j] \/ r <= covered'[j]
        PROVE  Shows(j, r)'
    BY <1>5, <2>3, <2>4, <2>8 DEF Data, Complete, Grows
  <2>9. Complete'
    BY <2>7, <2>8 DEF Complete
  <2>10. CursorFits(s, {})'
    BY <1>1, <1>3, <2>4, <2>5, <2>6 DEF PageFits, CursorFits, Grows
  <2>11. QED
    BY <2>4, <2>9, <2>10
<1>7. ASSUME ~Valid(s) PROVE Complete' /\ \A j \in Kinds : Grows(j)
  BY <1>7, FrontStays DEF Answer, Data, vault
<1>8. Valid(s) => StartFits(s)'
  BY <1>1, <1>3, <1>6 DEF Data, Merges, Pages, StartFits, Grows
<1>9. QED
  BY <1>2, <1>3, <1>4, <1>6, <1>7, <1>8

\* The next page of the scan has been asked for.
LEMMA PagesAsked ==
    ASSUME NEW s \in Scans, NEW p \in Pipes, StartFits(s)', CursorFits(s, {})',
           loop'[s].pc = "closing" \/ (loop'[s].pc = "between" /\ pipe'[KindOf[s]] = p
                                       /\ job'[p].pc \in {"none", "asked"})
    PROVE  Pages(s)'
  BY DEF Pages, ScanOf, Fetches

LEMMA DataOpenReads ==
    ASSUME Types, Order, Data, NEW s \in Scans, OpenReads(s)
    PROVE  Data'
<1>1. PICK k \in Kinds, p \in Pipes : k = KindOf[s] /\ p = loop[s].shm
  BY KindTypes DEF Types, LoopTypes, LoopFits, OpenReads
<1>2. Active(s) /\ loop[s].pc = "reading" /\ UNCHANGED <<vault, cursor>>
  BY DEF OpenReads, Active
<1>3. CASE Readable(p, k, s)
  <2>1. PICK page : page = shm.page
    OBVIOUS
  <2>2. /\ Answer(s, page) /\ pipe' = [pipe EXCEPT ![k] = p]
        /\ job' = [job EXCEPT ![p] = [pc |-> IF page.end THEN "none" ELSE "asked",
                                      kind |-> k, page |-> None]]
    BY <1>1, <1>3, <2>1 DEF OpenReads
  <2>3. Sealed(page) /\ PageThere
    BY <1>3, <2>1 DEF Readable, Types, WorkerTypes, PageThere
  <2>4. Valid(s) => PageFits(s, page)
    BY <1>2, <2>1, <2>3 DEF Data, Merges, Pages
  <2>5. /\ Complete' /\ OneLoop(s) /\ \A j \in Kinds : Grows(j)
        /\ \A t \in Scans : Valid(t)' => Valid(t)
        /\ loop'[s].pc = IF page.end THEN "closing" ELSE "between"
        /\ Valid(s) => StartFits(s)' /\ CursorFits(s, {})'
    BY <1>2, <2>2, <2>3, <2>4, AnswerData
  <2>6. pipe'[k] = p /\ job'[p].pc \in {"none", "asked"}
    BY <2>2 DEF Types, PipeTypes, JobTypes
  <2>7. Valid(s)' => Pages(s)'
    BY <1>1, <2>5, <2>6, PagesAsked
  <2>8. QED
    BY <2>5, <2>7, KindTypes, MergesFor DEF Data
<1>4. CASE ~Readable(p, k, s)
  <2>1. Goes(s, "failing") /\ UNCHANGED front
    BY <1>1, <1>4 DEF OpenReads
  <2>2. QED
    BY <1>2, <2>1, DataGoes
<1>5. QED
  BY <1>3, <1>4

LEMMA DataNextAnswers ==
    ASSUME Types, Order, Data, NEW s \in Scans, NextAnswers(s)
    PROVE  Data'
<1>1. PICK k \in Kinds, p \in Pipes, page \in {job[loop[s].held].page} :
          k = KindOf[s] /\ p = loop[s].held /\ page = job[p].page
  BY KindTypes DEF Types, LoopTypes, LoopFits, NextAnswers
<1>2. /\ Active(s) /\ loop[s].pc = "waiting" /\ job[p].pc = "ready"
      /\ pipe' = [pipe EXCEPT ![k] = p] /\ Answer(s, page)
      /\ SetJob(p, IF page.end THEN "none" ELSE "asked", None)
      /\ UNCHANGED <<vault, cursor>>
  BY <1>1 DEF NextAnswers, Active, worker
<1>3. Sealed(page)
  BY <1>1, <1>2 DEF Types, JobTypes, JobFits
<1>4. Valid(s) => PageFits(s, page)
  BY <1>1, <1>2 DEF Data, Merges, Pages, ScanOf, Fetches
<1>5. /\ Complete' /\ OneLoop(s) /\ \A j \in Kinds : Grows(j)
      /\ \A t \in Scans : Valid(t)' => Valid(t)
      /\ loop'[s].pc = IF page.end THEN "closing" ELSE "between"
      /\ Valid(s) => StartFits(s)' /\ CursorFits(s, {})'
  BY <1>2, <1>3, <1>4, AnswerData
<1>6. pipe'[k] = p /\ job'[p].pc \in {"none", "asked"}
  BY <1>2 DEF SetJob, Types, PipeTypes, JobTypes, JobFits, Jobs
<1>7. Valid(s)' => Pages(s)'
  BY <1>1, <1>5, <1>6, PagesAsked
<1>8. QED
  BY <1>5, <1>7, KindTypes, MergesFor DEF Data

LEMMA DataTakes ==
    ASSUME Types, Order, Data, NEW s \in Scans, NextTakes(s) \/ CloseTakes(s)
    PROVE  Data'
<1>1. PICK k \in Kinds : k = KindOf[s]
  BY KindTypes
<1>2. /\ Active(s) /\ OneLoop(s) /\ UNCHANGED <<vault, worker, job, front>>
      /\ loop = [t \in Scans |-> loop[t]] /\ loop[s] \in Loops
  BY OrderTakes DEF NextTakes, CloseTakes, Active, Types, LoopTypes, LoopFits
<1>3. Complete' /\ \A j : Grows(j)
  BY <1>2, FrontStays DEF Data, vault, front
<1>4. CASE Goes(s, "failing")
  BY <1>2, <1>4, DataGoes
<1>5. ASSUME NEW pc, pc = "waiting" => loop[s].pc = "between", pc \in {"waiting", "ending"},
             loop' = [loop EXCEPT ![s].pc = pc, ![s].held = pipe[k]]
      PROVE  Data'
  <2>1. /\ loop'[s].pc = pc /\ loop'[s].held = pipe[k] /\ loop'[s].start = loop[s].start
        /\ loop'[s].top = loop[s].top /\ loop'[s].cancelled = loop[s].cancelled
    BY <1>2, <1>5 DEF Loops
  <2>2. \A t \in Scans : Valid(t)' => Valid(t)
    BY <1>2, <2>1 DEF Valid, OneLoop, front
  <2>3. ASSUME Valid(s) PROVE Pages(s)'
    <3>1. StartFits(s)'
      BY <1>3, <2>1, <2>3 DEF Data, Merges, Pages, StartFits, Grows
    <3>2. ASSUME NEW p \in Pipes, ScanOf(s, p)' PROVE Fetches(s, p)'
      <4>1. loop[s].pc = "between" /\ pipe[KindOf[s]] = p
        BY <1>1, <1>5, <2>1, <3>2 DEF ScanOf
      <4>2. Fetches(s, p)
        BY <2>3, <4>1 DEF Data, Merges, Pages, ScanOf
      <4>3. QED
        BY <1>2, <1>3, <2>1, <4>2, FetchesStay DEF worker
    <3>3. QED
      BY <1>5, <2>1, <3>1, <3>2 DEF Pages
  <2>4. QED
    BY <1>2, <1>3, <2>2, <2>3, MergesFor DEF Data
<1>6. CASE loop' = [loop EXCEPT ![s] = Resting] /\ owner[k] # s
  <2>1. \A t \in Scans : Valid(t)' => Valid(t) /\ t # s
    BY <1>1, <1>2, <1>6 DEF Valid, OneLoop, front
  <2>2. QED
    BY <1>2, <1>3, <2>1, MergesFor DEF Data
<1>7. CASE NextTakes(s)
  BY <1>1, <1>4, <1>5, <1>7 DEF NextTakes
<1>8. CASE CloseTakes(s)
  BY <1>1, <1>5, <1>6, <1>8 DEF CloseTakes
<1>9. QED
  BY <1>7, <1>8

LEMMA DataFallBack ==
    ASSUME Types, Order, Data, NEW s \in Scans, NEW upto \in 0..MaxRecords, upto <= top,
           FallBack(s, upto)
    PROVE  Data'
<1>1. PICK k \in Kinds, recs \in SUBSET (loop[s].start..upto) :
          k = KindOf[s] /\ recs = {r \in loop[s].start..upto : r \notin bad}
  BY KindTypes
<1>2. /\ Active(s) /\ Goes(s, "closing") /\ UNCHANGED <<vault, owner, failed, covered>>
      /\ loop[s].start \in Nat \ {0} /\ cache \in [Kinds -> SUBSET (1..MaxRecords)]
      /\ maxId \in [Kinds -> 0..MaxRecords]
  BY Bounds DEF FallBack, Active, Types, LoopTypes, LoopFits, Loops, FrontTypes
<1>3. CASE k = "records" /\ Valid(s)
  <2>1. PICK x : x = Largest({maxId[k]} \cup recs)
    OBVIOUS
  <2>2. recs \in SUBSET (1..MaxRecords)
    BY <1>1, <1>2, Bounds
  <2>3. x \in {maxId[k]} \cup recs
    BY <1>2, <2>1, <2>2, LargestAdded
  <2>4. cache' = [cache EXCEPT ![k] = @ \cup recs] /\ maxId' = [maxId EXCEPT ![k] = x]
    BY <1>1, <1>3, <2>1 DEF FallBack
  <2>5. \A j \in Kinds : Grows(j)
    BY <1>2, <2>4 DEF Grows, Shows, vault
  <2>6. ASSUME NEW r \in 1..MaxRecords, r <= x, x \in recs PROVE Shows(k, r)'
    <3>1. CASE r < loop[s].start
      BY <1>1, <1>3, <2>5, <3>1 DEF Data, Merges, Pages, StartFits, Grows
    <3>2. CASE ~(r < loop[s].start)
      <4>1. x \in Nat /\ x <= upto
        BY <1>1, <1>2, <2>6
      <4>2. r \in loop[s].start..upto
        BY <1>2, <2>6, <3>2, <4>1, Bounds
      <4>3. r \in recs \/ r \in bad
        BY <1>1, <4>2
      <4>4. QED
        BY <1>2, <1>3, <2>4, <4>3 DEF Shows, vault
    <3>3. QED
      BY <3>1, <3>2
  <2>7. \A j \in Kinds : maxId'[j] = IF j = k THEN x ELSE maxId[j]
    BY <1>2, <2>4
  <2>8. Complete'
    <3> SUFFICES ASSUME NEW j \in Kinds, NEW r \in 1..MaxRecords,
                        r <= maxId'[j] \/ r <= covered'[j]
                 PROVE  Shows(j, r)'
      BY DEF Complete
    <3>1. CASE r <= maxId[j] \/ r <= covered[j]
      BY <2>5, <3>1 DEF Data, Complete, Grows
    <3>2. CASE j = k /\ r <= x /\ x \in recs
      BY <2>6, <3>2
    <3>3. QED
      BY <1>2, <2>3, <2>7, <3>1, <3>2
  <2>9. /\ OneLoop(s) /\ loop'[s].pc = "closing" /\ loop'[s].start = loop[s].start
        /\ loop'[s].cancelled = loop[s].cancelled
    BY <1>2, OrderGoes
  <2>10. \A t \in Scans : Valid(t)' => Valid(t)
    BY <1>2, <2>9 DEF Valid, OneLoop
  <2>11. Valid(s)' => Pages(s)'
    BY <1>1, <2>5, <2>9, <2>10, PagesNone DEF Data, Merges, Pages
  <2>12. QED
    BY <2>5, <2>8, <2>9, <2>10, <2>11, KindTypes, MergesFor DEF Data
<1>4. CASE ~(k = "records" /\ Valid(s))
  <2>1. UNCHANGED front
    BY <1>1, <1>2, <1>4 DEF FallBack, front
  <2>2. QED
    BY <1>2, <2>1, DataGoes
<1>5. QED
  BY <1>3, <1>4

LEMMA DataCloseEnds ==
    ASSUME Types, Data, NEW s \in Scans, CloseEnds(s), OneLoop(s)
    PROVE  Data'
<1>1. Complete' /\ \A j : Grows(j)
  BY FrontStays DEF Data, vault, CloseEnds
<1>2. owner' = [owner EXCEPT ![KindOf[s]] = None] /\ None \notin Scans
  BY NoneIsNoValue DEF CloseEnds
<1>3. \A t \in Scans : Valid(t)' => Valid(t) /\ t # s
  BY <1>2, KindTypes DEF Valid, OneLoop, Types, FrontTypes
<1>4. QED
  BY <1>1, <1>3, MergesFor DEF Data

\* The task at work is that of the scan whose loop relies on the cursor.
LEMMA OnlyScan ==
    ASSUME Order, NEW s \in Scans, NEW p \in Pipes, NEW q \in Pipes, Busy(p), ScanOf(s, q)
    PROVE  q = p /\ job[p].kind = KindOf[s]
<1>1. Active(s) /\ loop[s].pc \in {"between", "waiting"}
  BY DEF ScanOf, Active
<1>2. job[p].kind = KindOf[s] /\ (pipe[KindOf[s]] = p \/ Holds(s, p))
  BY <1>1, OrderOf DEF PostedFor
<1>3. CASE loop[s].pc = "between"
  BY <1>2, <1>3 DEF ScanOf, Holds
<1>4. CASE loop[s].pc = "waiting"
  BY <1>1, <1>2, <1>4, OrderOf, NoneIsNoValue DEF ScanOf, Holds, TakenFor, TakenPcs
<1>5. QED
  BY <1>1, <1>2, <1>3, <1>4

\* A page of the worker's goes on where the cache ends.
LEMMA PageGoesOn ==
    ASSUME Types, NEW s \in Scans, HasCursor, CursorFits(s, {}), Grows(KindOf[s]),
           loop'[s].top = loop[s].top, NEW who, PutPage(KindOf[s], who)
    PROVE  PageFits(s, shm.page)'
<1>1. PICK k \in Kinds : k = KindOf[s]
  BY KindTypes
<1>2. PICK n \in 1..Batch :
         LET p == PageOf(k, cursor, n) IN
         /\ cursor' = Advance(cursor, p.past)
         /\ shm' = [shm EXCEPT !.page =
               [kind |-> k, who |-> who, recs |-> p.recs, failed |-> p.failed, end |-> p.end]]
  BY <1>1 DEF PutPage
<1>3. PICK p : p = PageOf(k, cursor, n)
  OBVIOUS
<1>4. cursor \in Cursors /\ shm = [id |-> shm.id, page |-> shm.page]
  BY DEF HasCursor, Types, WorkerTypes
<1>5. /\ p.past \in 1..(MaxRecords + 1)
      /\ p.recs \in SUBSET (1..MaxRecords)
      /\ p.end <=> p.recs = {}
      /\ \A r \in p.recs : cursor.pos <= r /\ r < p.past
      /\ \A r \in cursor.pos..(p.past - 1) : r \in p.recs \/ (k # "summary" /\ r \in bad)
      /\ p.end => p.past = cursor.top + 1
  BY <1>3, <1>4, PageIs
<1>6. cursor'.top = cursor.top /\ cursor'.pos = p.past /\ cursor.top = loop[s].top
  BY <1>2, <1>3, <1>4, <1>5 DEF Advance, Cursors, CursorFits, HasCursor
<1>7. PICK page : page = shm'.page
  OBVIOUS
<1>8. page.recs = p.recs /\ page.end = p.end
  BY <1>2, <1>3, <1>4, <1>7
<1>9. k \in {"records", "summary"}
  BY <1>1, KindsAreTwo
<1>10. cursor.pos \in Nat /\ cursor.top \in Nat /\ p.past \in Nat
  BY <1>4, <1>5, Bounds DEF Cursors
<1>11. ASSUME NEW r \in 1..MaxRecords, r < p.past PROVE r \in p.recs \/ Shows(k, r)'
  <2>1. Shows(k, r) => Shows(k, r)'
    BY <1>1 DEF Grows
  <2>2. CASE r < cursor.pos
    BY <1>1, <2>1, <2>2 DEF CursorFits, HasCursor
  <2>3. CASE ~(r < cursor.pos)
    <3>1. r \in cursor.pos..(p.past - 1)
      BY <1>10, <1>11, <2>3, Bounds
    <3>2. r \in p.recs \/ (k = "records" /\ r \in bad)
      BY <1>5, <1>9, <3>1
    <3>3. QED
      BY <2>1, <3>2 DEF Shows
  <2>4. QED
    BY <2>2, <2>3
<1>12. CursorFits(s, page.recs)'
  BY <1>1, <1>6, <1>8, <1>11 DEF CursorFits
<1>13. ASSUME NEW q \in p.recs, NEW r \in 1..MaxRecords, r <= q
       PROVE  r \in p.recs \/ Shows(k, r)'
  <2>1. q < p.past /\ q \in Nat /\ r \in Nat
    BY <1>5, Bounds
  <2>2. r < p.past
    BY <1>10, <1>13, <2>1
  <2>3. QED
    BY <1>11, <2>2
<1>14. ASSUME p.end, NEW r \in 1..MaxRecords, r <= loop'[s].top PROVE Shows(k, r)'
  <2>1. r < p.past /\ r \notin p.recs
    BY <1>5, <1>6, <1>10, <1>14, Bounds
  <2>2. QED
    BY <1>11, <2>1
<1>15. PageFits(s, page)'
  BY <1>1, <1>8, <1>12, <1>13, <1>14 DEF PageFits
<1>16. QED
  BY <1>7, <1>15

LEMMA DataJob ==
    ASSUME Types, Order, Data, NEW p \in Pipes, JobFetch(p) \/ JobRead(p)
    PROVE  Data'
<1>1. Busy(p) /\ UNCHANGED <<vault, pipe, loop, front>>
  BY DEF JobFetch, JobRead, Busy
<1>2. Complete' /\ \A j : Grows(j)
  BY <1>1, FrontStays DEF Data, vault, front
<1>3. ASSUME NEW s \in Scans, Valid(s)' PROVE Pages(s)'
  <2>1. Valid(s) /\ Pages(s)
    BY <1>1, <1>3 DEF Valid, front, Data, Merges
  <2>2. StartFits(s)'
    BY <1>1, <1>2, <2>1 DEF Pages, StartFits, Grows
  <2>3. loop'[s].pc # "reading"
    BY <1>1, NoneBusy
  <2>4. ASSUME NEW q \in Pipes, ScanOf(s, q)' PROVE Fetches(s, q)'
    <3>1. ScanOf(s, q)
      BY <1>1, <2>4 DEF ScanOf
    <3>2. q = p /\ job[p].kind = KindOf[s]
      BY <1>1, <3>1, OnlyScan
    <3>3. Fetches(s, p)
      BY <2>1, <3>1, <3>2 DEF Pages
    <3>4. ASSUME NEW pc, NEW page, SetJob(p, pc, page)
          PROVE  job'[p].pc = pc /\ job'[p].page = page
      <4>1. job = [j \in Pipes |-> job[j]] /\ job[p] \in Jobs
        BY DEF Types, JobTypes, JobFits
      <4>2. job'[p] = [job[p] EXCEPT !.pc = pc, !.page = page]
        BY <3>4, <4>1 DEF SetJob
      <4>3. QED
        BY <4>1, <4>2 DEF Jobs
    <3>5. CASE JobFetch(p)
      <4>1. CASE HasCursor /\ PutPage(job[p].kind, Prefetcher(p)) /\ SetJob(p, "fetched", None)
        <5>1. CursorFits(s, {})
          BY <3>3, <3>5 DEF Fetches, JobFetch
        <5>2. PageFits(s, shm.page)'
          BY <1>1, <1>2, <3>2, <4>1, <5>1, PageGoesOn
        <5>3. QED
          BY <3>2, <3>4, <4>1, <5>2 DEF Fetches
      <4>2. CASE SetJob(p, "error", None)
        BY <3>2, <3>4, <4>2 DEF Fetches
      <4>3. QED
        BY <3>5, <4>1, <4>2 DEF JobFetch
    <3>6. CASE JobRead(p)
      <4>1. PICK page : page = shm.page
        OBVIOUS
      <4>2. CASE Readable(p, job[p].kind, Prefetcher(p)) /\ SetJob(p, "ready", page)
        <5>1. PageFits(s, page)
          BY <3>3, <3>6, <4>1, <4>2 DEF Fetches, JobRead, Readable, PageThere
        <5>2. PageFits(s, page)'
          BY <1>1, <1>2, <3>6, <5>1, PageStays DEF JobRead
        <5>3. QED
          BY <3>2, <3>4, <4>2, <5>2 DEF Fetches
      <4>3. CASE SetJob(p, "error", None)
        BY <3>2, <3>4, <4>3 DEF Fetches
      <4>4. QED
        BY <3>6, <4>1, <4>2, <4>3 DEF JobRead
    <3>7. QED
      BY <3>5, <3>6
  <2>5. QED
    BY <2>2, <2>3, <2>4 DEF Pages
<1>4. QED
  BY <1>2, <1>3 DEF Data, Merges

\* What the user does takes tokens away and lets caches grow.
LEMMA MergesStay ==
    ASSUME Types, Merges, UNCHANGED <<worker, pipe, job>>,
           UNCHANGED loop \/ \E t \in Scans : loop' = [loop EXCEPT ![t].cancelled = TRUE],
           \A s \in Scans : Valid(s)' => owner[KindOf[s]] = s /\ Grows(KindOf[s])
    PROVE  Merges'
<1>1. \A s \in Scans : /\ loop'[s].pc = loop[s].pc /\ loop'[s].held = loop[s].held
                       /\ loop'[s].start = loop[s].start /\ loop'[s].top = loop[s].top
                       /\ loop[s].cancelled => loop'[s].cancelled
  BY DEF Types, LoopTypes, LoopFits, Loops
<1>2. \A s \in Scans : Valid(s)' => Valid(s)
  BY <1>1 DEF Valid
<1>3. ASSUME NEW s \in Scans, Valid(s)' PROVE Pages(s)'
  BY <1>1, <1>2, <1>3, PagesStay DEF Merges, worker
<1>4. QED
  BY <1>3 DEF Merges

LEMMA DataUser ==
    ASSUME Alone, Types, Data, (\E k \in Kinds : Cancel(k) \/ ClearCache(k)) \/ AddRecord
    PROVE  Data'
<1>1. ASSUME NEW k \in Kinds, Cancel(k) PROVE Data'
  <2>1. owner[k] \in Scans
    BY <1>1 DEF Cancel, Types, FrontTypes
  <2>2. Complete' /\ \A j : Grows(j)
    BY <1>1, FrontStays DEF Data, Cancel, vault, front
  <2>3. QED
    BY <1>1, <2>1, <2>2, MergesStay DEF Data, Cancel, Valid, front
<1>2. ASSUME NEW k \in Kinds, ClearCache(k) PROVE Data'
  <2>1. owner[k] # None => owner[k] \in Scans
    BY DEF Types, FrontTypes
  <2>2. /\ UNCHANGED <<vault, worker, pipe, job>>
        /\ UNCHANGED loop \/ \E t \in Scans : loop' = [loop EXCEPT ![t].cancelled = TRUE]
    BY <1>2, <2>1 DEF ClearCache
  <2>3. \A j \in Kinds : /\ owner'[j] = IF j = k THEN None ELSE owner[j]
                         /\ cache'[j] = IF j = k THEN {} ELSE cache[j]
                         /\ maxId'[j] = IF j = k THEN 0 ELSE maxId[j]
                         /\ covered'[j] = IF j = k THEN 0 ELSE covered[j]
    BY <1>2 DEF ClearCache, Types, FrontTypes
  <2>4. \A j \in Kinds : j # k => Grows(j)
    BY <2>2, <2>3 DEF Grows, Shows, vault
  <2>5. \A r \in 1..MaxRecords : ~(r <= 0)
    BY Bounds
  <2>6. Complete'
    BY <2>3, <2>4, <2>5 DEF Data, Complete, Grows
  <2>7. ASSUME NEW s \in Scans, Valid(s)' PROVE owner[KindOf[s]] = s /\ Grows(KindOf[s])
    BY <2>3, <2>4, <2>7, KindTypes, NoneIsNoValue DEF Valid
  <2>8. QED
    BY <2>2, <2>6, <2>7, MergesStay DEF Data
<1>3. CASE AddRecord
  <2>1. /\ \A k \in Kinds : covered[k] = top
        /\ top \in Nat /\ top < MaxRecords
        /\ cache' = [k \in Kinds |-> cache[k] \cup {top + 1}]
        /\ maxId' = [k \in Kinds |-> top + 1]
        /\ UNCHANGED <<bad, worker, pipe, job, loop, owner, failed, covered, faults>>
    BY <1>3, Bounds DEF AddRecord, Alone, Types, FrontTypes
  <2>2. \A j \in Kinds : Grows(j)
    BY <2>1 DEF Grows, Shows
  <2>3. Complete'
    <3> SUFFICES ASSUME NEW k \in Kinds, NEW r \in 1..MaxRecords, r <= top + 1 \/ r <= top
                 PROVE  Shows(k, r)'
      BY <2>1 DEF Complete
    <3>1. CASE r <= top
      BY <2>1, <2>2, <3>1 DEF Data, Complete, Grows
    <3>2. CASE r = top + 1
      BY <2>1, <3>2 DEF Shows
    <3>3. QED
      BY <2>1, <3>1, <3>2, Bounds
  <2>4. QED
    BY <2>1, <2>2, <2>3, KindTypes, MergesStay DEF Data, Valid
<1>4. QED
  BY <1>1, <1>2, <1>3

LEMMA DataInit == Init => Data
<1> SUFFICES ASSUME Init PROVE Data
  OBVIOUS
<1>1. \A k \in Kinds : maxId[k] = 0 /\ covered[k] = 0 /\ owner[k] = None
  BY DEF Init
<1>2. \A r \in 1..MaxRecords : ~(r <= 0)
  BY Bounds
<1>3. \A s \in Scans : ~Valid(s)
  BY <1>1, KindTypes, NoneIsNoValue DEF Valid
<1>4. QED
  BY <1>1, <1>2, <1>3 DEF Data, Complete, Merges

LEMMA DataStep ==
    ASSUME Alone, Types, Order, Data, NEW s \in Scans, Step(s)
    PROVE  Data'
<1>1. OneLoop(s)
  BY OrderStep
<1>2. CASE StartScan(s)
  BY <1>1, <1>2, DataStartScan
<1>3. CASE StopOld(s) \/ NextFails(s) \/ OpenFails(s) \/ LeaveLoop(s)
  <2>1. /\ Active(s) /\ UNCHANGED front /\ UNCHANGED vault
        /\ \E pc \in {"opening", "failing", "closing"} : Goes(s, pc)
    BY <1>3 DEF StopOld, NextFails, OpenFails, LeaveLoop, Active
  <2>2. QED
    BY <2>1, DataGoes
<1>4. CASE WorkerOpens(s)
  BY <1>4, DataWorkerOpens
<1>5. CASE OpenReads(s)
  BY <1>5, DataOpenReads
<1>6. CASE NextTakes(s) \/ CloseTakes(s)
  BY <1>6, DataTakes
<1>7. CASE NextAnswers(s)
  BY <1>7, DataNextAnswers
<1>8. CASE CloseEnds(s)
  BY <1>1, <1>8, DataCloseEnds
<1>9. CASE \E upto \in 0..MaxRecords : upto <= top /\ FallBack(s, upto)
  BY <1>9, DataFallBack
<1>10. QED
  BY <1>2, <1>3, <1>4, <1>5, <1>6, <1>7, <1>8, <1>9 DEF Step

LEMMA DataNext == Alone /\ Types /\ Order /\ Data /\ [Next]_vars => Data'
<1> SUFFICES ASSUME Alone, Types, Order, Data, [Next]_vars PROVE Data'
  OBVIOUS
<1>1. CASE UNCHANGED vars
  <2>1. Complete' /\ \A j : Grows(j)
    BY <1>1, FrontStays DEF Data, vars, vault, front
  <2>2. QED
    BY <1>1, <2>1, MergesStay DEF Data, vars, worker, front, Valid
<1>2. QED
  BY <1>1, DataStep, DataJob, DataUser DEF Next

(* Up to the largest number in the cache, and up to where the last scan said   *)
(* that this was all, the cache holds every readable record: whatever page was *)
(* lost, cancelled, wiped or fetched twice, for any number of loops and        *)
(* records, as long as scans do not overlap.                                   *)
THEOREM NoneMissing ==
    ASSUME Alone
    PROVE  Spec => []CacheIsComplete
<1>1. Init => Types /\ Order /\ Data
  BY TypesInit, OrderInit, DataInit
<1>2. Types /\ Order /\ Data /\ [Next]_vars => (Types /\ Order /\ Data)'
  BY TypesNext, OrderNext, DataNext
<1>3. Types /\ Order /\ Data => CacheIsComplete
  BY CompleteIs DEF Data
<1>4. QED
  BY <1>1, <1>2, <1>3, PTL DEF Spec
=============================================================================
