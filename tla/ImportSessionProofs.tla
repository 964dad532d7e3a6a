-------------------------- MODULE ImportSessionProofs --------------------------
(* For any number of files, ids, commands, crashes and faults: the types of    *)
(* the import, and what its log, snapshot and ledger promise to a later one.   *)
EXTENDS ImportSession, FiniteSetTheorems, WellFoundedInduction, TLAPS

-----------------------------------------------------------------------------
(* Partial functions.                                                        *)

LEMMA PartialIs ==
    ASSUME NEW S, NEW T, NEW f
    PROVE  f \in Partial(S, T) <=> /\ f = [x \in DOMAIN f |-> f[x]]
                                   /\ DOMAIN f \subseteq S
                                   /\ \A x \in DOMAIN f : f[x] \in T
<1>1. ASSUME f \in Partial(S, T)
      PROVE  f = [x \in DOMAIN f |-> f[x]] /\ DOMAIN f \subseteq S /\ \A x \in DOMAIN f : f[x] \in T
  <2>1. PICK D \in SUBSET S : f \in [D -> T]
    BY <1>1 DEF Partial
  <2>2. QED
    BY <2>1
<1>2. ASSUME f = [x \in DOMAIN f |-> f[x]], DOMAIN f \subseteq S, \A x \in DOMAIN f : f[x] \in T
      PROVE  f \in Partial(S, T)
  <2>1. f \in [DOMAIN f -> T]
    BY <1>2
  <2>2. QED
    BY <1>2, <2>1 DEF Partial
<1>3. QED
  BY <1>1, <1>2

LEMMA EmptyIs ==
    DOMAIN Empty = {}
  BY DEF Empty

LEMMA EmptyTyped ==
    ASSUME NEW S, NEW T
    PROVE  Empty \in Partial(S, T)
<1>1. DOMAIN Empty = {} /\ Empty = [x \in DOMAIN Empty |-> Empty[x]]
  BY DEF Empty
<1>2. QED
  BY <1>1, PartialIs

LEMMA AllIs ==
    ASSUME NEW D, NEW v
    PROVE  /\ DOMAIN All(D, v) = D
           /\ \A x \in D : All(D, v)[x] = v
  BY DEF All

LEMMA AllTyped ==
    ASSUME NEW S, NEW T, NEW D \in SUBSET S, NEW v \in T
    PROVE  All(D, v) \in Partial(S, T)
<1>1. All(D, v) = [x \in DOMAIN All(D, v) |-> All(D, v)[x]]
  BY DEF All
<1>2. DOMAIN All(D, v) \subseteq S /\ \A x \in DOMAIN All(D, v) : All(D, v)[x] \in T
  BY AllIs
<1>3. QED
  BY <1>1, <1>2, PartialIs

LEMMA WithoutIs ==
    ASSUME NEW f, NEW D
    PROVE  /\ DOMAIN Without(f, D) = DOMAIN f \ D
           /\ \A x \in DOMAIN f \ D : Without(f, D)[x] = f[x]
  BY DEF Without

LEMMA WithoutTyped ==
    ASSUME NEW S, NEW T, NEW f \in Partial(S, T), NEW D
    PROVE  Without(f, D) \in Partial(S, T)
<1>1. Without(f, D) = [x \in DOMAIN Without(f, D) |-> Without(f, D)[x]]
  BY DEF Without
<1>2. DOMAIN f \subseteq S /\ \A x \in DOMAIN f : f[x] \in T
  BY PartialIs
<1>3. /\ DOMAIN Without(f, D) = DOMAIN f \ D
      /\ \A x \in DOMAIN f \ D : Without(f, D)[x] = f[x]
  BY WithoutIs
<1>4. DOMAIN Without(f, D) \subseteq S /\ \A x \in DOMAIN Without(f, D) : Without(f, D)[x] \in T
  BY <1>2, <1>3
<1>5. QED
  BY <1>1, <1>4, PartialIs

LEMMA OverIs ==
    ASSUME NEW f, NEW g
    PROVE  /\ DOMAIN Over(f, g) = DOMAIN f \cup DOMAIN g
           /\ \A x \in DOMAIN f : Over(f, g)[x] = f[x]
           /\ \A x \in DOMAIN g \ DOMAIN f : Over(f, g)[x] = g[x]
  BY DEF Over

LEMMA OverTyped ==
    ASSUME NEW S, NEW T, NEW f \in Partial(S, T), NEW g \in Partial(S, T)
    PROVE  Over(f, g) \in Partial(S, T)
<1>1. Over(f, g) = [x \in DOMAIN Over(f, g) |-> Over(f, g)[x]]
  BY DEF Over
<1>2. /\ DOMAIN f \subseteq S /\ \A x \in DOMAIN f : f[x] \in T
      /\ DOMAIN g \subseteq S /\ \A x \in DOMAIN g : g[x] \in T
  BY PartialIs
<1>3. /\ DOMAIN Over(f, g) = DOMAIN f \cup DOMAIN g
      /\ \A x \in DOMAIN f : Over(f, g)[x] = f[x]
      /\ \A x \in DOMAIN g \ DOMAIN f : Over(f, g)[x] = g[x]
  BY OverIs
<1>4. DOMAIN Over(f, g) \subseteq S /\ \A x \in DOMAIN Over(f, g) : Over(f, g)[x] \in T
  BY <1>2, <1>3
<1>5. QED
  BY <1>1, <1>4, PartialIs

LEMMA WiderIs ==
    ASSUME NEW S, NEW T, NEW U, NEW V, S \subseteq U, T \subseteq V
    PROVE  Partial(S, T) \subseteq Partial(U, V)
<1>1. ASSUME NEW f \in Partial(S, T) PROVE f \in Partial(U, V)
  <2>1. f = [x \in DOMAIN f |-> f[x]] /\ DOMAIN f \subseteq S /\ \A x \in DOMAIN f : f[x] \in T
    BY PartialIs
  <2>2. f = [x \in DOMAIN f |-> f[x]] /\ DOMAIN f \subseteq U /\ \A x \in DOMAIN f : f[x] \in V
    BY <2>1
  <2>3. QED
    BY <2>2, PartialIs
<1>2. QED
  BY <1>1

-----------------------------------------------------------------------------
(* The replay of a log, line by line.                                        *)

LEMMA Least ==
    ASSUME NEW S \in SUBSET Nat, IsFiniteSet(S), S # {}
    PROVE  \E m \in S : \A x \in S : m <= x
<1> DEFINE Below(m) == {x \in S : x <= m}
           R == StrictSubsetOrdering(S)
           T == {Below(m) : m \in S}
<1>1. IsWellFoundedOn(R, SUBSET S)
  BY FS_FiniteSubsetsOfFinite, FS_StrictSubsetOrderingWellFounded
<1>2. T \subseteq SUBSET S /\ T # {}
  OBVIOUS
<1> HIDE DEF T
<1>3. PICK D \in T : \A C \in T : ~(<<C, D>> \in R)
  BY <1>1, <1>2, WFMin
<1> USE DEF T
<1>4. PICK m \in S : D = Below(m)
  BY <1>3
<1>5. ASSUME NEW x \in S, ~(m <= x) PROVE FALSE
  <2>1. x \in Nat /\ m \in Nat /\ \A y \in S : y \in Nat
    OBVIOUS
  <2>2. x < m /\ m <= m /\ ~(m <= x) /\ \A y \in S : y <= x => y <= m
    BY <1>5, <2>1
  <2>3. Below(x) \subseteq D /\ m \in D /\ m \notin Below(x)
    BY <1>4, <2>2
  <2>4. <<Below(x), D>> \in R
    BY <1>4, <2>3 DEF StrictSubsetOrdering
  <2>5. QED
    BY <1>3, <2>4
<1>6. QED
  BY <1>5

\* What the replay of a log makes of its first lines.
Steps(f, known, lines, n) ==
    f = [i \in 0..n |-> IF i = 0 THEN Unread(known) ELSE Replayed(f[i - 1], lines[i])]

\* There is one such function for every number of lines.
LEMMA StepsExist ==
    ASSUME NEW known, NEW lines, NEW n \in Nat
    PROVE  \E f : Steps(f, known, lines, n)
<1> DEFINE Bad == {k \in 0..n : ~ \E f : Steps(f, known, lines, k)}
<1>1. SUFFICES ASSUME Bad # {} PROVE FALSE
  <2>1. n \in 0..n
    OBVIOUS
  <2>2. QED
    BY <1>1, <2>1
<1>2. IsFiniteSet(0..n)
  BY FS_Interval
<1>3. Bad \in SUBSET Nat /\ IsFiniteSet(Bad)
  BY <1>2, FS_Subset
<1> HIDE DEF Bad
<1>4. PICK k \in Bad : \A x \in Bad : k <= x
  BY <1>1, <1>3, Least
<1>5. k \in 0..n /\ ~ \E f : Steps(f, known, lines, k)
  BY DEF Bad
<1>6. k # 0
  <2>1. Steps([i \in 0..0 |-> Unread(known)], known, lines, 0)
    BY DEF Steps
  <2>2. QED
    BY <1>5, <2>1
<1>7. k - 1 \in 0..n /\ ~(k <= k - 1)
  BY <1>5, <1>6
<1>8. k - 1 \notin Bad
  BY <1>4, <1>7
<1>9. PICK f : Steps(f, known, lines, k - 1)
  BY <1>7, <1>8 DEF Bad
<1> DEFINE g == [i \in 0..k |-> IF i = k THEN Replayed(f[k - 1], lines[k]) ELSE f[i]]
<1>10. ASSUME NEW i \in 0..k
       PROVE  g[i] = IF i = 0 THEN Unread(known) ELSE Replayed(g[i - 1], lines[i])
  <2>1. CASE i = k
    <3>1. k - 1 \in 0..k /\ k - 1 # k
      BY <1>5, <1>6
    <3>2. g[k - 1] = f[k - 1]
      BY <3>1
    <3>3. QED
      BY <1>6, <2>1, <3>2
  <2>2. CASE i # k
    <3>1. i \in 0..(k - 1) /\ (i # 0 => i - 1 \in 0..k /\ i - 1 # k)
      BY <1>5, <1>6, <2>2
    <3>2. g[i] = f[i] /\ (i # 0 => g[i - 1] = f[i - 1])
      BY <2>2, <3>1
    <3>3. f[i] = IF i = 0 THEN Unread(known) ELSE Replayed(f[i - 1], lines[i])
      BY <1>9, <3>1 DEF Steps
    <3>4. QED
      BY <3>2, <3>3
  <2>3. QED
    BY <2>1, <2>2
<1> HIDE DEF g
<1>11. DOMAIN g = 0..k /\ g = [i \in DOMAIN g |-> g[i]]
  BY DEF g
<1>12. Steps(g, known, lines, k)
  BY <1>10, <1>11 DEF Steps
<1>13. QED
  BY <1>5, <1>12

\* Two logs that agree on their first lines are replayed alike up to there.
LEMMA StepsAgree ==
    ASSUME NEW known, NEW lines, NEW other, NEW n \in Nat, NEW m \in Nat, n <= m,
           \A i \in 1..n : lines[i] = other[i],
           NEW f, Steps(f, known, lines, n), NEW g, Steps(g, known, other, m)
    PROVE  f[n] = g[n]
<1> DEFINE Bad == {k \in 0..n : f[k] # g[k]}
<1>1. SUFFICES ASSUME Bad # {} PROVE FALSE
  <2>1. n \in 0..n
    OBVIOUS
  <2>2. QED
    BY <1>1, <2>1
<1>2. IsFiniteSet(0..n)
  BY FS_Interval
<1>3. Bad \in SUBSET Nat /\ IsFiniteSet(Bad)
  BY <1>2, FS_Subset
<1> HIDE DEF Bad
<1>4. PICK k \in Bad : \A x \in Bad : k <= x
  BY <1>1, <1>3, Least
<1>5. k \in 0..n /\ f[k] # g[k] /\ k \in 0..m
  BY DEF Bad
<1>6. /\ f[k] = IF k = 0 THEN Unread(known) ELSE Replayed(f[k - 1], lines[k])
      /\ g[k] = IF k = 0 THEN Unread(known) ELSE Replayed(g[k - 1], other[k])
  BY <1>5 DEF Steps
<1>7. k # 0
  BY <1>5, <1>6
<1>8. k - 1 \in 0..n /\ ~(k <= k - 1) /\ k \in 1..n
  BY <1>5, <1>7
<1>9. f[k - 1] = g[k - 1]
  BY <1>4, <1>8 DEF Bad
<1>10. QED
  BY <1>5, <1>6, <1>7, <1>8, <1>9

LEMMA LoadIs ==
    ASSUME NEW known, NEW lines, Len(lines) \in Nat
    PROVE  \E f : Steps(f, known, lines, Len(lines)) /\ Load(known, lines) = f[Len(lines)]
<1> DEFINE f == CHOOSE g : Steps(g, known, lines, Len(lines))
<1>1. Steps(f, known, lines, Len(lines))
  BY StepsExist
<1>2. Load(known, lines) = f[Len(lines)]
  BY DEF Load, Replay, Steps
<1>3. QED
  BY <1>1, <1>2

LEMMA LoadEmpty ==
    ASSUME NEW known
    PROVE  Load(known, <<>>) = Unread(known)
<1>1. Len(<<>>) = 0
  OBVIOUS
<1>2. PICK f : Steps(f, known, <<>>, 0) /\ Load(known, <<>>) = f[0]
  BY <1>1, LoadIs
<1>3. QED
  BY <1>2 DEF Steps

LEMMA LoadAppend ==
    ASSUME NEW known, NEW S, NEW lines \in Seq(S), NEW e \in S
    PROVE  Load(known, Append(lines, e)) = Replayed(Load(known, lines), e)
<1> DEFINE n == Len(lines)
           more == Append(lines, e)
<1>1. /\ n \in Nat /\ Len(Append(lines, e)) = n + 1
      /\ Append(lines, e)[n + 1] = e
      /\ \A i \in 1..n : lines[i] = Append(lines, e)[i]
  OBVIOUS
<1>2. PICK f : Steps(f, known, lines, n) /\ Load(known, lines) = f[n]
  BY <1>1, LoadIs
<1>3. PICK g : Steps(g, known, Append(lines, e), n + 1) /\ Load(known, Append(lines, e)) = g[n + 1]
  <2>1. Len(more) = n + 1 /\ Len(more) \in Nat
    BY <1>1
  <2> HIDE DEF more
  <2>2. PICK g : Steps(g, known, more, Len(more)) /\ Load(known, more) = g[Len(more)]
    BY <2>1, LoadIs
  <2>3. QED
    BY <2>1, <2>2 DEF more
<1>4. f[n] = g[n]
  <2>1. n \in Nat /\ n + 1 \in Nat /\ n <= n + 1 /\ \A i \in 1..n : lines[i] = more[i]
    BY <1>1
  <2>2. Steps(f, known, lines, n) /\ Steps(g, known, more, n + 1)
    BY <1>2, <1>3
  <2> HIDE DEF n, more
  <2>3. QED
    BY <2>1, <2>2, StepsAgree
<1>5. n + 1 \in 0..(n + 1) /\ n + 1 # 0 /\ (n + 1) - 1 = n
  BY <1>1
<1>6. g[n + 1] = Replayed(g[n], Append(lines, e)[n + 1])
  BY <1>3, <1>5 DEF Steps
<1>7. QED
  BY <1>1, <1>2, <1>3, <1>4, <1>6

-----------------------------------------------------------------------------
(* Types.  The ids the container has given out so far take the place of all  *)
(* ids, so that the next one is new to every part of the state.              *)

Given == 1..(nextId - 1)

\* What a load of the files concludes at this moment.
Seen == Load(snap, log)

Lines(G) ==
    [kind : {"begin", "end", "torn"}]
    \cup [kind : {"committed"}, hash : Hashes, id : G, refs : (SUBSET G) \cup {NoRefs}]
    \cup [kind : {"removed"}, hashes : {{h} : h \in Hashes}]

Named(G) == G \cup {Unowned, Unverifiable}
Ledger(G) == Partial(G, Named(G))
ReplaysOf(G) == [ids : Partial(Hashes, G), owners : Partial(G, G), unsettleable : BOOLEAN]
SessionsOf(G) == [known : SUBSET Hashes, issued : Partial(Hashes, G), ledger : Ledger(G)]
Appends(G) == [kind : {"append"}, hash : Hashes, refs : (SUBSET G) \cup {NoRefs}]
OtherJobs == [kind : {"chunk", "removed"}, hash : Hashes] \cup [kind : {"end"}, success : BOOLEAN]

AppendExecs(G) ==
    [kind : {"append"}, job : Appends(G), at : {"add", "close"}]
    \cup [kind : {"append"}, job : Appends(G), at : {"commit", "close"}, id : G]
EndExecs(G) ==
    [kind : {"end"}, at : {"line"}, success : BOOLEAN]
    \cup [kind : {"end"}, at : {"compact"}]
    \cup [kind : {"end"}, at : {"snapshot"}, ids : Partial(Hashes, G)]
ChunkExecs == [kind : {"chunk"}, at : {"save"}]

FileTypes(G) ==
    /\ log \in Seq(Lines(G)) /\ snap \in Partial(Hashes, G) /\ file \in Ledger(G)
VaultTypes(G) ==
    /\ metas \in Partial(G, [hash : Hashes, refs : SUBSET G])
    /\ chunks \in Partial(G, Hashes)
    /\ DOMAIN metas \cap DOMAIN chunks = {}
SessionTypes(G) ==
    session \in SessionsOf(G) \cup {NoSession}
JobTypes(G) == jobs \subseteq Appends(G) \cup OtherJobs
ExecTypes(G) == exec \in AppendExecs(G) \cup EndExecs(G) \cup ChunkExecs \cup {Idle}
BeginTypes(G) ==
    begin \in [at : {"load"}]
             \cup [at : {"cut", "snapshot", "install"}, replay : ReplaysOf(G), ledger : Ledger(G)]
             \cup {Idle}
GcTypes(G) ==
    gc \in [at : {"settle", "load"}] \cup [at : {"delete", "save"}, ledger : Ledger(G)] \cup {Idle}
HistoryTypes(G) ==
    /\ claimed \subseteq G /\ collected \subseteq G
    /\ promised \subseteq Hashes /\ owed \subseteq Hashes
    /\ gap \in BOOLEAN /\ excused \subseteq Hashes

TypesOver(G) ==
    /\ FileTypes(G) /\ VaultTypes(G) /\ SessionTypes(G) /\ JobTypes(G) /\ ExecTypes(G)
    /\ BeginTypes(G) /\ GcTypes(G) /\ HistoryTypes(G)

FewJobs == IsFiniteSet(jobs) /\ Cardinality(jobs) <= MaxJobs

Types ==
    /\ nextId \in 1..(MaxId + 1)
    /\ TypesOver(Given)
    /\ FewJobs

LEMMA GivenIs ==
    ASSUME Types
    PROVE  Given \subseteq Ids /\ 0 \notin Given /\ -1 \notin Given /\ nextId \notin Given
  BY ImportAssumption DEF Types, Given, Ids

LEMMA RefsAre ==
    ASSUME NEW G, NEW refs \in (SUBSET G) \cup {NoRefs}
    PROVE  RefsOf(refs) \subseteq G
  BY DEF RefsOf

LEMMA LedgerWider ==
    ASSUME NEW G, NEW H, G \subseteq H
    PROVE  Ledger(G) \subseteq Ledger(H) /\ ReplaysOf(G) \subseteq ReplaysOf(H)
<1>1. Named(G) \subseteq Named(H)
  BY DEF Named
<1>2. Ledger(G) \subseteq Ledger(H)
  BY <1>1, WiderIs DEF Ledger
<1>3. Partial(Hashes, G) \subseteq Partial(Hashes, H) /\ Partial(G, G) \subseteq Partial(H, H)
  BY WiderIs
<1>4. ReplaysOf(G) \subseteq ReplaysOf(H)
  BY <1>3 DEF ReplaysOf
<1>5. QED
  BY <1>2, <1>4

LEMMA LinesWider ==
    ASSUME NEW G, NEW H, G \subseteq H
    PROVE  Seq(Lines(G)) \subseteq Seq(Lines(H))
<1>1. Lines(G) \subseteq Lines(H)
  <2>1. (SUBSET G) \cup {NoRefs} \subseteq (SUBSET H) \cup {NoRefs}
    OBVIOUS
  <2>2. QED
    BY <2>1 DEF Lines
<1>2. QED
  BY <1>1

LEMMA TypesWider ==
    ASSUME NEW G, NEW H, G \subseteq H, TypesOver(G)
    PROVE  TypesOver(H)
<1>1. /\ Ledger(G) \subseteq Ledger(H) /\ ReplaysOf(G) \subseteq ReplaysOf(H)
      /\ Partial(Hashes, G) \subseteq Partial(Hashes, H)
      /\ SUBSET G \subseteq SUBSET H
  BY LedgerWider, WiderIs
<1>2. FileTypes(H)
  BY <1>1, LinesWider DEF TypesOver, FileTypes
<1>3. VaultTypes(H)
  <2>1. [hash : Hashes, refs : SUBSET G] \subseteq [hash : Hashes, refs : SUBSET H]
    BY <1>1
  <2>2. Partial(G, [hash : Hashes, refs : SUBSET G]) \subseteq Partial(H, [hash : Hashes, refs : SUBSET H])
    <3> DEFINE T == [hash : Hashes, refs : SUBSET G]
               V == [hash : Hashes, refs : SUBSET H]
    <3>1. T \subseteq V
      BY <2>1
    <3> HIDE DEF T, V
    <3>2. Partial(G, T) \subseteq Partial(H, V)
      BY <3>1, WiderIs
    <3>3. QED
      BY <3>2 DEF T, V
  <2>3. Partial(G, Hashes) \subseteq Partial(H, Hashes)
    BY WiderIs
  <2>4. QED
    BY <2>2, <2>3 DEF TypesOver, VaultTypes
<1>4. SessionTypes(H)
  BY <1>1 DEF TypesOver, SessionTypes, SessionsOf
<1>5. Appends(G) \subseteq Appends(H)
  BY <1>1 DEF Appends
<1>6. JobTypes(H)
  BY <1>5 DEF TypesOver, JobTypes
<1>7. ExecTypes(H)
  <2>1. AppendExecs(G) \subseteq AppendExecs(H)
    BY <1>5 DEF AppendExecs
  <2>2. EndExecs(G) \subseteq EndExecs(H)
    BY <1>1 DEF EndExecs
  <2>3. QED
    BY <2>1, <2>2 DEF TypesOver, ExecTypes
<1>8. BeginTypes(H)
  BY <1>1 DEF TypesOver, BeginTypes
<1>9. GcTypes(H)
  BY <1>1 DEF TypesOver, GcTypes
<1>10. HistoryTypes(H)
  BY DEF TypesOver, HistoryTypes
<1>11. QED
  BY <1>2, <1>3, <1>4, <1>6, <1>7, <1>8, <1>9, <1>10 DEF TypesOver

-----------------------------------------------------------------------------
(* What a line adds to the conclusions of a replay.                          *)

LEMMA LinesAre ==
    ASSUME NEW G
    PROVE  /\ BeginLine \in Lines(G) /\ EndLine \in Lines(G) /\ TornLine \in Lines(G)
           /\ \A h \in Hashes : RemovedLine({h}) \in Lines(G)
           /\ \A h \in Hashes, id \in G, refs \in (SUBSET G) \cup {NoRefs} :
                 CommittedLine(h, id, refs) \in Lines(G)
<1>1. BeginLine \in Lines(G) /\ EndLine \in Lines(G) /\ TornLine \in Lines(G)
  BY DEF Lines, BeginLine, EndLine, TornLine
<1>2. \A h \in Hashes : RemovedLine({h}) \in Lines(G)
  BY DEF Lines, RemovedLine
<1>3. \A h \in Hashes, id \in G, refs \in (SUBSET G) \cup {NoRefs} : CommittedLine(h, id, refs) \in Lines(G)
  BY DEF Lines, CommittedLine
<1>4. QED
  BY <1>1, <1>2, <1>3

LEMMA ReplayPlain ==
    ASSUME NEW s, NEW e, e.kind \notin {"committed", "removed"}
    PROVE  Replayed(s, e) = s
  BY DEF Replayed

LEMMA UnreadIs ==
    ASSUME NEW G, NEW known \in Partial(Hashes, G)
    PROVE  /\ Unread(known) \in ReplaysOf(G)
           /\ Unread(known).ids = known
           /\ DOMAIN Unread(known).owners = {}
           /\ Unread(known).unsettleable = FALSE
  BY EmptyIs, EmptyTyped DEF Unread, ReplaysOf

LEMMA ReplayCommitted ==
    ASSUME NEW G, NEW s \in ReplaysOf(G), NEW h \in Hashes, NEW id \in G,
           NEW refs \in (SUBSET G) \cup {NoRefs},
           NEW t, t = Replayed(s, CommittedLine(h, id, refs))
    PROVE  /\ t \in ReplaysOf(G)
           /\ DOMAIN t.ids = DOMAIN s.ids \cup {h} /\ t.ids[h] = id
           /\ \A k \in DOMAIN s.ids \ {h} : t.ids[k] = s.ids[k]
           /\ DOMAIN t.owners = DOMAIN s.owners \cup RefsOf(refs)
           /\ \A c \in RefsOf(refs) : t.owners[c] = id
           /\ \A c \in DOMAIN s.owners \ RefsOf(refs) : t.owners[c] = s.owners[c]
           /\ t.unsettleable <=> s.unsettleable \/ refs = NoRefs
<1> DEFINE e == CommittedLine(h, id, refs)
           ids == Over(All({h}, id), s.ids)
           owners == IF refs = NoRefs THEN s.owners ELSE Over(All(refs, id), s.owners)
<1>1. /\ s.ids \in Partial(Hashes, G) /\ s.owners \in Partial(G, G) /\ s.unsettleable \in BOOLEAN
      /\ s = [ids |-> s.ids, owners |-> s.owners, unsettleable |-> s.unsettleable]
  BY DEF ReplaysOf
<1>2. /\ ids \in Partial(Hashes, G) /\ DOMAIN ids = DOMAIN s.ids \cup {h} /\ ids[h] = id
      /\ \A k \in DOMAIN s.ids \ {h} : ids[k] = s.ids[k]
  <2> DEFINE one == All({h}, id)
  <2>1. DOMAIN one = {h} /\ one[h] = id
    BY AllIs
  <2>2. one \in Partial(Hashes, G)
    BY AllTyped
  <2>3. ids = Over(one, s.ids)
    OBVIOUS
  <2> HIDE DEF one, ids
  <2>4. /\ DOMAIN Over(one, s.ids) = DOMAIN one \cup DOMAIN s.ids
        /\ \A x \in DOMAIN one : Over(one, s.ids)[x] = one[x]
        /\ \A x \in DOMAIN s.ids \ DOMAIN one : Over(one, s.ids)[x] = s.ids[x]
    BY OverIs
  <2>5. ids \in Partial(Hashes, G)
    BY <1>1, <2>2, <2>3, OverTyped
  <2>6. QED
    BY <2>1, <2>3, <2>4, <2>5
<1>3. /\ owners \in Partial(G, G) /\ DOMAIN owners = DOMAIN s.owners \cup RefsOf(refs)
      /\ \A c \in RefsOf(refs) : owners[c] = id
      /\ \A c \in DOMAIN s.owners \ RefsOf(refs) : owners[c] = s.owners[c]
  <2>1. CASE refs = NoRefs
    BY <1>1, <2>1 DEF RefsOf
  <2>2. CASE refs # NoRefs
    <3>1. refs \subseteq G /\ RefsOf(refs) = refs
      BY <2>2 DEF RefsOf
    <3> DEFINE all == All(refs, id)
    <3>2. DOMAIN all = refs /\ \A c \in refs : all[c] = id
      BY AllIs
    <3>3. all \in Partial(G, G)
      BY <3>1, AllTyped
    <3>4. owners = Over(all, s.owners)
      BY <2>2
    <3> HIDE DEF all, owners
    <3>5. /\ DOMAIN Over(all, s.owners) = DOMAIN all \cup DOMAIN s.owners
          /\ \A x \in DOMAIN all : Over(all, s.owners)[x] = all[x]
          /\ \A x \in DOMAIN s.owners \ DOMAIN all : Over(all, s.owners)[x] = s.owners[x]
      BY OverIs
    <3>6. owners \in Partial(G, G)
      BY <1>1, <3>3, <3>4, OverTyped
    <3>7. QED
      BY <3>1, <3>2, <3>4, <3>5, <3>6
  <2>3. QED
    BY <2>1, <2>2
<1>4. e.kind = "committed" /\ e.hash = h /\ e.id = id /\ e.refs = refs
  BY DEF CommittedLine
<1>5. t = [s EXCEPT !.ids = ids, !.owners = owners,
                    !.unsettleable = s.unsettleable \/ refs = NoRefs]
  BY <1>4 DEF Replayed
<1> HIDE DEF ids, owners, e
<1>6. t = [ids |-> ids, owners |-> owners, unsettleable |-> s.unsettleable \/ refs = NoRefs]
  BY <1>1, <1>5
<1>7. t.ids = ids /\ t.owners = owners /\ t.unsettleable = (s.unsettleable \/ refs = NoRefs)
  BY <1>6
<1>8. t \in ReplaysOf(G)
  BY <1>1, <1>2, <1>3, <1>6 DEF ReplaysOf
<1>9. t.unsettleable <=> s.unsettleable \/ refs = NoRefs
  BY <1>7
<1>10. QED
  BY <1>2, <1>3, <1>7, <1>8, <1>9

LEMMA ReplayRemoved ==
    ASSUME NEW G, NEW s \in ReplaysOf(G), NEW h \in Hashes, NEW t, t = Replayed(s, RemovedLine({h}))
    PROVE  /\ t \in ReplaysOf(G)
           /\ DOMAIN t.ids = DOMAIN s.ids \ {h}
           /\ \A k \in DOMAIN s.ids \ {h} : t.ids[k] = s.ids[k]
           /\ DOMAIN t.owners = {c \in DOMAIN s.owners : ~(h \in DOMAIN s.ids /\ s.owners[c] = s.ids[h])}
           /\ \A c \in DOMAIN t.owners : t.owners[c] = s.owners[c]
           /\ t.unsettleable <=> s.unsettleable
<1> DEFINE e == RemovedLine({h})
           gone == {s.ids[k] : k \in {h} \cap DOMAIN s.ids}
           lost == {c \in DOMAIN s.owners : s.owners[c] \in gone}
<1>1. /\ s.ids \in Partial(Hashes, G) /\ s.owners \in Partial(G, G) /\ s.unsettleable \in BOOLEAN
      /\ s = [ids |-> s.ids, owners |-> s.owners, unsettleable |-> s.unsettleable]
  BY DEF ReplaysOf
<1>2. e.kind = "removed" /\ e.hashes = {h}
  BY DEF RemovedLine
<1>3. t = [s EXCEPT !.ids = Without(s.ids, {h}), !.owners = Without(s.owners, lost)]
  BY <1>2 DEF Replayed
<1>4. t = [ids |-> Without(s.ids, {h}), owners |-> Without(s.owners, lost),
           unsettleable |-> s.unsettleable]
  BY <1>1, <1>3
<1>5. t.ids = Without(s.ids, {h}) /\ t.owners = Without(s.owners, lost)
      /\ t.unsettleable = s.unsettleable
  BY <1>4
<1>6. /\ DOMAIN t.ids = DOMAIN s.ids \ {h} /\ \A k \in DOMAIN s.ids \ {h} : t.ids[k] = s.ids[k]
      /\ t.ids \in Partial(Hashes, G)
  <2>1. /\ DOMAIN Without(s.ids, {h}) = DOMAIN s.ids \ {h}
        /\ \A k \in DOMAIN s.ids \ {h} : Without(s.ids, {h})[k] = s.ids[k]
    BY WithoutIs
  <2>2. t.ids \in Partial(Hashes, G)
    BY <1>1, <1>5, WithoutTyped
  <2>3. QED
    BY <1>5, <2>1, <2>2
<1>7. /\ DOMAIN t.owners = DOMAIN s.owners \ lost
      /\ \A c \in DOMAIN s.owners \ lost : t.owners[c] = s.owners[c]
      /\ t.owners \in Partial(G, G)
  <2> HIDE DEF lost
  <2>1. /\ DOMAIN Without(s.owners, lost) = DOMAIN s.owners \ lost
        /\ \A c \in DOMAIN s.owners \ lost : Without(s.owners, lost)[c] = s.owners[c]
    BY WithoutIs
  <2>2. t.owners \in Partial(G, G)
    BY <1>1, <1>5, WithoutTyped
  <2>3. QED
    BY <1>5, <2>1, <2>2
<1>8. \A c \in DOMAIN s.owners : c \in lost <=> h \in DOMAIN s.ids /\ s.owners[c] = s.ids[h]
  OBVIOUS
<1>9. t \in ReplaysOf(G)
  BY <1>1, <1>4, <1>5, <1>6, <1>7 DEF ReplaysOf
<1> HIDE DEF lost, e, gone
<1>10. DOMAIN t.owners = {c \in DOMAIN s.owners : ~(h \in DOMAIN s.ids /\ s.owners[c] = s.ids[h])}
  BY <1>7, <1>8
<1>11. QED
  BY <1>5, <1>6, <1>7, <1>9, <1>10

\* Whatever the log holds, what a load concludes speaks of the same hashes and
\* ids.
LEMMA LoadTyped ==
    ASSUME NEW G, NEW known \in Partial(Hashes, G), NEW lines \in Seq(Lines(G))
    PROVE  Load(known, lines) \in ReplaysOf(G)
<1> DEFINE n == Len(lines)
<1>1. n \in Nat /\ \A i \in 1..n : lines[i] \in Lines(G)
  OBVIOUS
<1>2. PICK f : Steps(f, known, lines, n) /\ Load(known, lines) = f[n]
  BY <1>1, LoadIs
<1> HIDE DEF n
<1> DEFINE Bad == {k \in 0..n : f[k] \notin ReplaysOf(G)}
<1>3. SUFFICES ASSUME Bad # {} PROVE FALSE
  <2>1. n \in 0..n
    BY <1>1
  <2>2. QED
    BY <1>2, <1>3, <2>1
<1>4. IsFiniteSet(0..n)
  BY <1>1, FS_Interval
<1>5. Bad \in SUBSET Nat /\ IsFiniteSet(Bad)
  BY <1>1, <1>4, FS_Subset
<1> HIDE DEF Bad
<1>6. PICK k \in Bad : \A x \in Bad : k <= x
  BY <1>3, <1>5, Least
<1>7. k \in 0..n /\ f[k] \notin ReplaysOf(G)
  BY DEF Bad
<1>8. f[k] = IF k = 0 THEN Unread(known) ELSE Replayed(f[k - 1], lines[k])
  BY <1>2, <1>7 DEF Steps
<1>9. k # 0
  BY <1>7, <1>8, UnreadIs
<1>10. k - 1 \in 0..n /\ ~(k <= k - 1) /\ k \in 1..n
  BY <1>1, <1>7, <1>9
<1>11. f[k - 1] \in ReplaysOf(G)
  BY <1>6, <1>10 DEF Bad
<1>12. PICK s : s = f[k - 1]
  OBVIOUS
<1>13. PICK e \in Lines(G) : e = lines[k]
  BY <1>1, <1>10
<1>14. Replayed(s, e) \in ReplaysOf(G)
  <2>1. s \in ReplaysOf(G)
    BY <1>11, <1>12
  <2>2. CASE e \in [kind : {"begin", "end", "torn"}]
    <3>1. e.kind \notin {"committed", "removed"}
      BY <2>2
    <3>2. QED
      BY <2>1, <3>1, ReplayPlain
  <2>3. CASE e \in [kind : {"committed"}, hash : Hashes, id : G, refs : (SUBSET G) \cup {NoRefs}]
    <3>1. e = CommittedLine(e.hash, e.id, e.refs)
      BY <2>3 DEF CommittedLine
    <3>2. e.hash \in Hashes /\ e.id \in G /\ e.refs \in (SUBSET G) \cup {NoRefs}
      BY <2>3
    <3>3. Replayed(s, CommittedLine(e.hash, e.id, e.refs)) \in ReplaysOf(G)
      BY <2>1, <3>2, ReplayCommitted
    <3>4. QED
      BY <3>1, <3>3
  <2>4. CASE e \in [kind : {"removed"}, hashes : {{h} : h \in Hashes}]
    <3>1. PICK h \in Hashes : e = RemovedLine({h})
      BY <2>4 DEF RemovedLine
    <3>2. Replayed(s, RemovedLine({h})) \in ReplaysOf(G)
      BY <2>1, ReplayRemoved
    <3>3. QED
      BY <3>1, <3>2
  <2>5. QED
    BY <2>2, <2>3, <2>4 DEF Lines
<1>15. QED
  BY <1>7, <1>8, <1>9, <1>12, <1>13, <1>14

-----------------------------------------------------------------------------
(* What a step does to the conclusions of a load.                            *)

LEMMA SeenTyped ==
    ASSUME NEW G, FileTypes(G)
    PROVE  Seen \in ReplaysOf(G)
  BY LoadTyped DEF FileTypes, Seen

LEMMA SeenAppend ==
    ASSUME NEW G, log \in Seq(Lines(G)), NEW e \in Lines(G), log' = Append(log, e), snap' = snap
    PROVE  log' \in Seq(Lines(G)) /\ Seen' = Replayed(Seen, e)
<1>1. log' \in Seq(Lines(G))
  OBVIOUS
<1>2. Load(snap, Append(log, e)) = Replayed(Load(snap, log), e)
  BY LoadAppend
<1>3. QED
  BY <1>1, <1>2 DEF Seen

LEMMA SeenPlain ==
    ASSUME NEW G, log \in Seq(Lines(G)), NEW e \in {BeginLine, EndLine, TornLine},
           log' = Append(log, e), snap' = snap
    PROVE  log' \in Seq(Lines(G)) /\ Seen' = Seen
<1>1. e \in Lines(G) /\ e.kind \notin {"committed", "removed"}
  BY LinesAre DEF BeginLine, EndLine, TornLine
<1>2. log' \in Seq(Lines(G)) /\ Seen' = Replayed(Seen, e)
  BY <1>1, SeenAppend
<1>3. QED
  BY <1>1, <1>2, ReplayPlain

LEMMA SeenTorn ==
    ASSUME NEW G, log \in Seq(Lines(G)), UNCHANGED log \/ Append1(TornLine), snap' = snap
    PROVE  log' \in Seq(Lines(G)) /\ Seen' = Seen
<1>1. CASE UNCHANGED log
  BY <1>1 DEF Seen
<1>2. CASE Append1(TornLine)
  BY <1>2, SeenPlain DEF Append1
<1>3. QED
  BY <1>1, <1>2

LEMMA SeenUnread ==
    ASSUME NEW G, log' \in {<<>>, <<BeginLine>>, Skeleton}
    PROVE  log' \in Seq(Lines(G)) /\ Seen' = Unread(snap')
<1>1. <<>> \in Seq(Lines(G)) /\ Load(snap', <<>>) = Unread(snap')
  BY LoadEmpty
<1>2. <<BeginLine>> \in Seq(Lines(G)) /\ Load(snap', <<BeginLine>>) = Unread(snap')
  <2>1. <<BeginLine>> = Append(<<>>, BeginLine) /\ <<BeginLine>> \in Seq(Lines(G))
    BY LinesAre
  <2>2. Load(snap', Append(<<>>, BeginLine)) = Replayed(Load(snap', <<>>), BeginLine)
    <3>1. BeginLine \in Lines(G)
      BY LinesAre
    <3>2. QED
      BY <1>1, <3>1, LoadAppend
  <2>3. QED
    BY <1>1, <2>1, <2>2, ReplayPlain DEF BeginLine
<1>3. Skeleton \in Seq(Lines(G)) /\ Load(snap', Skeleton) = Unread(snap')
  <2>1. Skeleton = Append(<<BeginLine>>, EndLine) /\ Skeleton \in Seq(Lines(G))
    BY LinesAre DEF Skeleton
  <2>2. Load(snap', Append(<<BeginLine>>, EndLine)) = Replayed(Load(snap', <<BeginLine>>), EndLine)
    <3>1. EndLine \in Lines(G)
      BY LinesAre
    <3>2. QED
      BY <1>2, <3>1, LoadAppend
  <2>3. QED
    BY <1>2, <2>1, <2>2, ReplayPlain DEF EndLine
<1>4. QED
  BY <1>1, <1>2, <1>3 DEF Seen

LEMMA SettledTyped ==
    ASSUME NEW G, NEW replay \in ReplaysOf(G), NEW ledger \in Ledger(G)
    PROVE  Settled(replay, ledger) \in Ledger(G)
<1> DEFINE both == Over(replay.owners, ledger)
           s == Settled(replay, ledger)
<1>1. replay.owners \in Ledger(G)
  <2>1. replay.owners \in Partial(G, G) /\ G \subseteq Named(G)
    BY DEF ReplaysOf, Named
  <2>2. QED
    BY <2>1, WiderIs DEF Ledger
<1>2. both \in Ledger(G)
  BY <1>1, OverTyped DEF Ledger
<1> HIDE DEF both
<1>3. DOMAIN both \subseteq G /\ \A c \in DOMAIN both : both[c] \in Named(G)
  BY <1>2, PartialIs DEF Ledger
<1>4. s = [c \in DOMAIN both |-> IF replay.unsettleable /\ both[c] = Unowned
                                THEN Unverifiable ELSE both[c]]
  BY DEF Settled, both
<1> HIDE DEF s
<1>5. s = [c \in DOMAIN s |-> s[c]] /\ DOMAIN s \subseteq G /\ \A c \in DOMAIN s : s[c] \in Named(G)
  BY <1>3, <1>4 DEF Named
<1>6. s \in Ledger(G)
  BY <1>5, PartialIs DEF Ledger
<1>7. QED
  BY <1>6 DEF s

-----------------------------------------------------------------------------
(* Every step keeps the types.                                               *)

\* The session stays while a writer executes a command of it.
WriterHasSession == exec # Idle /\ exec.kind # "end" => session # NoSession

LEMMA SessionsAre ==
    ASSUME NEW G \in SUBSET Ids
    PROVE  NoSession \notin SessionsOf(G)
<1>1. Partial(Hashes, G) \subseteq Partial(Hashes, Ids)
  BY WiderIs
<1>2. Named(G) \subseteq Owners
  BY DEF Named, Owners
<1>3. Ledger(G) \subseteq Partial(Ids, Owners)
  BY <1>2, WiderIs DEF Ledger
<1>4. SessionsOf(G) \subseteq Sessions
  BY <1>1, <1>3 DEF SessionsOf, Sessions
<1>5. QED
  BY <1>4, NoSessionIsNone

LEMMA CommitSession ==
    ASSUME NEW G \in SUBSET Ids, TypesOver(G), WriterHasSession, AppendCommit
    PROVE  session' \in SessionsOf(G)
<1> DEFINE more == Over(All(RefsOf(exec.job.refs), exec.id), session.ledger)
<1>1. exec.job \in Appends(G) /\ exec.id \in G
  BY DEF AppendCommit, At, TypesOver, ExecTypes, AppendExecs, EndExecs, ChunkExecs
<1>2. exec.job.hash \in Hashes /\ exec.job.refs \in (SUBSET G) \cup {NoRefs}
  BY <1>1 DEF Appends
<1>3. RefsOf(exec.job.refs) \subseteq G
  BY <1>2, RefsAre
<1>4. session \in SessionsOf(G)
  BY DEF AppendCommit, At, WriterHasSession, TypesOver, SessionTypes
<1>5. more \in Ledger(G)
  <2>1. exec.id \in Named(G) /\ session.ledger \in Partial(G, Named(G))
    BY <1>1, <1>4 DEF Named, Ledger, SessionsOf
  <2>2. All(RefsOf(exec.job.refs), exec.id) \in Partial(G, Named(G))
    BY <1>3, <2>1, AllTyped
  <2>3. QED
    BY <2>1, <2>2, OverTyped DEF Ledger
<1>6. session' = [session EXCEPT !.known = session.known \cup {exec.job.hash}, !.ledger = more]
  BY DEF AppendCommit
<1> HIDE DEF more
<1>7. QED
  BY <1>2, <1>4, <1>5, <1>6 DEF SessionsOf

LEMMA ChunkSession ==
    ASSUME NEW G \in SUBSET Ids, TypesOver(G), nextId \in Nat, nextId' # nextId => nextId \in G,
           NEW j \in jobs, ChunkTake(j)
    PROVE  session' \in SessionsOf(G)
<1> DEFINE issued == Over(All({j.hash}, nextId), session.issued)
           ledger == Over(All({nextId}, Unowned), session.ledger)
<1>1. j.hash \in Hashes
  BY DEF ChunkTake, TypesOver, JobTypes, Appends, OtherJobs
<1>2. session \in SessionsOf(G)
  BY DEF ChunkTake, Take, TypesOver, SessionTypes
<1>3. CASE UNCHANGED session
  BY <1>2, <1>3
<1>4. CASE nextId' = nextId + 1 /\ session' = [session EXCEPT !.issued = issued, !.ledger = ledger]
  <2>1. /\ nextId \in G /\ Unowned \in Named(G) /\ session.issued \in Partial(Hashes, G)
        /\ session.ledger \in Partial(G, Named(G))
    BY <1>2, <1>4 DEF Named, Ledger, SessionsOf
  <2>2. All({j.hash}, nextId) \in Partial(Hashes, G) /\ All({nextId}, Unowned) \in Partial(G, Named(G))
    BY <1>1, <2>1, AllTyped
  <2>3. issued \in Partial(Hashes, G) /\ ledger \in Ledger(G)
    BY <2>1, <2>2, OverTyped DEF Ledger
  <2> HIDE DEF issued, ledger
  <2>4. QED
    BY <1>2, <1>4, <2>3 DEF SessionsOf
<1>5. QED
  BY <1>3, <1>4 DEF ChunkTake

\* What the front end asks of the writer: a record lists chunks of its file.
Asked(j) ==
    j.kind = "append" => \A c \in RefsOf(j.refs) : c \in DOMAIN chunks /\ chunks[c] = j.hash

\* The steps of import_begin.
BeginStep ==
    \/ BeginCheck \/ BeginLoad \/ BeginCut \/ BeginSnapshot \/ BeginInstall
\* The steps of the collection.
GcStep ==
    \/ GcCheck \/ GcSettle \/ GcLoad \/ GcDelete \/ GcSave
\* The steps of a writer that give out no id.
WriterStep ==
    \/ (\E j \in jobs : AppendTake(j)) \/ (\E j \in jobs : RemovedTake(j))
    \/ (\E j \in jobs : EndTake(j)) \/ AppendCommit \/ AppendClose \/ ChunkSave
    \/ EndEntry \/ EndCompact \/ EndSnapshot
\* The other calls, and a crash.
CallStep ==
    \/ (\E j \in Appends(Given) \cup OtherJobs : Asked(j) /\ Submit(j))
    \/ (\E j \in jobs : Refuse(j)) \/ (\E h \in Hashes : Forget(h))
    \/ (\E r \in DOMAIN metas : Delete(r)) \/ ForceClose \/ DevReset \/ Crash
\* The steps that may give out an id.
NewStep ==
    \/ AppendAdd \/ (\E j \in jobs : ChunkTake(j))

LEMMA TypesBegin ==
    ASSUME NEW G \in SUBSET Ids, TypesOver(G), WriterHasSession,
           BeginStep
    PROVE  TypesOver(G)'
<1>1. ASSUME BeginCheck PROVE TypesOver(G)'
  <2>1. FileTypes(G)' /\ VaultTypes(G)' /\ SessionTypes(G)' /\ JobTypes(G)' /\ ExecTypes(G)' /\ GcTypes(G)' /\ HistoryTypes(G)'
    BY <1>1 DEF TypesOver, BeginCheck, disk, vault, budget, history, FileTypes, VaultTypes, SessionTypes, JobTypes, ExecTypes, GcTypes, HistoryTypes
  <2>2. BeginTypes(G)'
    BY <1>1 DEF BeginCheck, BeginTypes
  <2>3. QED
    BY <2>1, <2>2 DEF TypesOver
<1>2. ASSUME BeginLoad PROVE TypesOver(G)'
  <2>1. VaultTypes(G)' /\ SessionTypes(G)' /\ JobTypes(G)' /\ ExecTypes(G)' /\ GcTypes(G)' /\ HistoryTypes(G)'
    BY <1>2 DEF TypesOver, BeginLoad, disk, vault, budget, history, VaultTypes, SessionTypes, JobTypes, ExecTypes, GcTypes, HistoryTypes
  <2>2. Seen \in ReplaysOf(G) /\ Settled(Seen, file) \in Ledger(G)
    BY SeenTyped, SettledTyped DEF TypesOver, FileTypes
  <2>3. FileTypes(G)'
    BY <1>2, <2>2 DEF BeginLoad, TypesOver, FileTypes, Seen
  <2>4. BeginTypes(G)'
    BY <1>2, <2>2 DEF BeginLoad, BeginTypes, Seen
  <2>5. QED
    BY <2>1, <2>2, <2>3, <2>4 DEF TypesOver
<1>3. ASSUME BeginCut PROVE TypesOver(G)'
  <2>1. VaultTypes(G)' /\ SessionTypes(G)' /\ JobTypes(G)' /\ ExecTypes(G)' /\ GcTypes(G)' /\ HistoryTypes(G)'
    BY <1>3 DEF TypesOver, BeginCut, disk, vault, budget, history, VaultTypes, SessionTypes, JobTypes, ExecTypes, GcTypes, HistoryTypes
  <2>2. log' \in Seq(Lines(G)) /\ Seen' = Unread(snap')
    BY <1>3, SeenUnread DEF BeginCut
  <2>3. snap' = snap /\ file' = file /\ snap \in Partial(Hashes, G) /\ file \in Ledger(G)
    BY <1>3 DEF BeginCut, TypesOver, FileTypes
  <2>4. FileTypes(G)'
    BY <2>2, <2>3 DEF FileTypes
  <2>5. BeginTypes(G)'
    BY <1>3 DEF BeginCut, TypesOver, BeginTypes
  <2>6. QED
    BY <2>1, <2>2, <2>3, <2>4, <2>5 DEF TypesOver
<1>4. ASSUME BeginSnapshot PROVE TypesOver(G)'
  <2>1. VaultTypes(G)' /\ SessionTypes(G)' /\ JobTypes(G)' /\ ExecTypes(G)' /\ GcTypes(G)'
    BY <1>4 DEF TypesOver, BeginSnapshot, disk, vault, budget, history, VaultTypes, SessionTypes, JobTypes, ExecTypes, GcTypes
  <2>2. log' = log /\ log \in Seq(Lines(G)) /\ file' = file /\ file \in Ledger(G)
    BY <1>4 DEF BeginSnapshot, TypesOver, FileTypes
  <2>3. snap' \in Partial(Hashes, G)
    BY <1>4 DEF BeginSnapshot, TypesOver, FileTypes, BeginTypes, ReplaysOf
  <2>4. FileTypes(G)'
    BY <2>2, <2>3 DEF FileTypes
  <2>5. BeginTypes(G)'
    BY <1>4 DEF BeginSnapshot, TypesOver, BeginTypes
  <2>6. HistoryTypes(G)'
    BY <1>4 DEF BeginSnapshot, TypesOver, HistoryTypes
  <2>7. QED
    BY <2>1, <2>2, <2>3, <2>4, <2>5, <2>6 DEF TypesOver
<1>5. ASSUME BeginInstall PROVE TypesOver(G)'
  <2>1. FileTypes(G)' /\ VaultTypes(G)' /\ JobTypes(G)' /\ ExecTypes(G)' /\ GcTypes(G)' /\ HistoryTypes(G)'
    BY <1>5 DEF TypesOver, BeginInstall, disk, vault, budget, history, FileTypes, VaultTypes, JobTypes, ExecTypes, GcTypes, HistoryTypes
  <2>2. DOMAIN begin.replay.ids \subseteq Hashes /\ begin.ledger \in Ledger(G)
    <3>1. begin.replay.ids \in Partial(Hashes, G) /\ begin.ledger \in Ledger(G)
      BY <1>5 DEF BeginInstall, TypesOver, BeginTypes, ReplaysOf
    <3>2. QED
      BY <3>1, PartialIs
  <2>3. Empty \in Partial(Hashes, G)
    BY EmptyTyped
  <2>4. SessionTypes(G)'
    BY <1>5, <2>2, <2>3 DEF BeginInstall, SessionTypes, SessionsOf
  <2>5. BeginTypes(G)'
    BY <1>5 DEF BeginInstall, BeginTypes
  <2>6. QED
    BY <2>1, <2>2, <2>3, <2>4, <2>5 DEF TypesOver
<1>6. QED
  BY <1>1, <1>2, <1>3, <1>4, <1>5 DEF BeginStep

LEMMA TypesGc ==
    ASSUME NEW G \in SUBSET Ids, TypesOver(G), WriterHasSession,
           GcStep
    PROVE  TypesOver(G)'
<1>1. ASSUME GcCheck PROVE TypesOver(G)'
  <2>1. FileTypes(G)' /\ VaultTypes(G)' /\ SessionTypes(G)' /\ JobTypes(G)' /\ ExecTypes(G)' /\ BeginTypes(G)' /\ HistoryTypes(G)'
    BY <1>1 DEF TypesOver, GcCheck, disk, vault, budget, history, FileTypes, VaultTypes, SessionTypes, JobTypes, ExecTypes, BeginTypes, HistoryTypes
  <2>2. GcTypes(G)'
    BY <1>1 DEF GcCheck, GcTypes
  <2>3. QED
    BY <2>1, <2>2 DEF TypesOver
<1>2. ASSUME GcSettle PROVE TypesOver(G)'
  <2>1. VaultTypes(G)' /\ SessionTypes(G)' /\ JobTypes(G)' /\ ExecTypes(G)' /\ BeginTypes(G)' /\ HistoryTypes(G)'
    BY <1>2 DEF TypesOver, GcSettle, disk, vault, budget, history, VaultTypes, SessionTypes, JobTypes, ExecTypes, BeginTypes, HistoryTypes
  <2>2. Seen \in ReplaysOf(G) /\ Settled(Seen, file) \in Ledger(G)
    BY SeenTyped, SettledTyped DEF TypesOver, FileTypes
  <2>3. FileTypes(G)'
    BY <1>2, <2>2 DEF GcSettle, TypesOver, FileTypes, Seen
  <2>4. GcTypes(G)'
    BY <1>2 DEF GcSettle, GcTypes
  <2>5. QED
    BY <2>1, <2>2, <2>3, <2>4 DEF TypesOver
<1>3. ASSUME GcLoad PROVE TypesOver(G)'
  <2>1. FileTypes(G)' /\ VaultTypes(G)' /\ SessionTypes(G)' /\ JobTypes(G)' /\ ExecTypes(G)' /\ BeginTypes(G)' /\ HistoryTypes(G)'
    BY <1>3 DEF TypesOver, GcLoad, disk, vault, budget, history, FileTypes, VaultTypes, SessionTypes, JobTypes, ExecTypes, BeginTypes, HistoryTypes
  <2>2. GcTypes(G)'
    BY <1>3 DEF GcLoad, TypesOver, FileTypes, GcTypes
  <2>3. QED
    BY <2>1, <2>2 DEF TypesOver
<1>4. ASSUME GcDelete PROVE TypesOver(G)'
  <2>1. FileTypes(G)' /\ SessionTypes(G)' /\ JobTypes(G)' /\ ExecTypes(G)' /\ BeginTypes(G)'
    BY <1>4 DEF TypesOver, GcDelete, disk, vault, budget, history, FileTypes, SessionTypes, JobTypes, ExecTypes, BeginTypes
  <2>2. metas' = metas /\ chunks' \in {chunks, Without(chunks, Garbage(gc.ledger))}
    BY <1>4 DEF GcDelete
  <2>3. chunks' \in Partial(G, Hashes) /\ DOMAIN chunks' \subseteq DOMAIN chunks
    <3>1. DOMAIN Without(chunks, Garbage(gc.ledger)) = DOMAIN chunks \ Garbage(gc.ledger)
      BY WithoutIs
    <3>2. chunks \in Partial(G, Hashes)
      BY DEF TypesOver, VaultTypes
    <3>3. Without(chunks, Garbage(gc.ledger)) \in Partial(G, Hashes)
      BY <3>2, WithoutTyped
    <3>4. QED
      BY <2>2, <3>1, <3>2, <3>3
  <2>4. VaultTypes(G)'
    BY <2>2, <2>3 DEF TypesOver, VaultTypes
  <2>5. Garbage(gc.ledger) \subseteq G
    <3>1. gc.ledger \in Ledger(G)
      BY <1>4 DEF GcDelete, TypesOver, GcTypes
    <3>2. DOMAIN gc.ledger \subseteq G
      BY <3>1, PartialIs DEF Ledger
    <3>3. QED
      BY <3>2 DEF Garbage
  <2>6. HistoryTypes(G)'
    BY <1>4, <2>5 DEF GcDelete, TypesOver, HistoryTypes
  <2>7. GcTypes(G)'
    BY <1>4 DEF GcDelete, TypesOver, GcTypes
  <2>8. QED
    BY <2>1, <2>2, <2>3, <2>4, <2>5, <2>6, <2>7 DEF TypesOver
<1>5. ASSUME GcSave PROVE TypesOver(G)'
  <2>1. VaultTypes(G)' /\ SessionTypes(G)' /\ JobTypes(G)' /\ ExecTypes(G)' /\ BeginTypes(G)' /\ HistoryTypes(G)'
    BY <1>5 DEF TypesOver, GcSave, disk, vault, budget, history, VaultTypes, SessionTypes, JobTypes, ExecTypes, BeginTypes, HistoryTypes
  <2>2. file' \in Ledger(G)
    <3>1. gc.ledger \in Ledger(G) /\ file \in Ledger(G)
      BY <1>5 DEF GcSave, TypesOver, GcTypes, FileTypes
    <3>2. Without(gc.ledger, Garbage(gc.ledger)) \in Ledger(G)
      BY <3>1, WithoutTyped DEF Ledger
    <3>3. QED
      BY <1>5, <3>1, <3>2 DEF GcSave
  <2>3. FileTypes(G)'
    BY <1>5, <2>2 DEF GcSave, TypesOver, FileTypes
  <2>4. GcTypes(G)'
    BY <1>5 DEF GcSave, GcTypes
  <2>5. QED
    BY <2>1, <2>2, <2>3, <2>4 DEF TypesOver
<1>6. QED
  BY <1>1, <1>2, <1>3, <1>4, <1>5 DEF GcStep

LEMMA TypesWriter ==
    ASSUME NEW G \in SUBSET Ids, TypesOver(G), WriterHasSession,
           WriterStep
    PROVE  TypesOver(G)'
<1>1. ASSUME NEW j \in jobs, AppendTake(j) PROVE TypesOver(G)'
  <2>1. FileTypes(G)' /\ VaultTypes(G)' /\ SessionTypes(G)' /\ BeginTypes(G)' /\ GcTypes(G)' /\ HistoryTypes(G)'
    BY <1>1 DEF TypesOver, AppendTake, Take, disk, vault, budget, history, FileTypes, VaultTypes, SessionTypes, BeginTypes, GcTypes, HistoryTypes
  <2>2. JobTypes(G)'
    BY <1>1 DEF AppendTake, Take, TypesOver, JobTypes
  <2>3. j \in Appends(G)
    BY <1>1 DEF AppendTake, TypesOver, JobTypes, OtherJobs
  <2>4. ExecTypes(G)'
    <3>1. PICK a \in {"add", "close"} : exec' = [kind |-> "append", job |-> j, at |-> a]
      BY <1>1 DEF AppendTake
    <3>2. QED
      BY <2>3, <3>1 DEF ExecTypes, AppendExecs
  <2>5. QED
    BY <2>1, <2>2, <2>3, <2>4 DEF TypesOver
<1>2. ASSUME NEW j \in jobs, RemovedTake(j) PROVE TypesOver(G)'
  <2>1. VaultTypes(G)' /\ ExecTypes(G)' /\ BeginTypes(G)' /\ GcTypes(G)'
    BY <1>2 DEF TypesOver, RemovedTake, Take, disk, vault, budget, history, VaultTypes, ExecTypes, BeginTypes, GcTypes
  <2>2. j.hash \in Hashes
    BY <1>2 DEF RemovedTake, TypesOver, JobTypes, Appends, OtherJobs
  <2>3. JobTypes(G)'
    BY <1>2 DEF RemovedTake, Take, TypesOver, JobTypes
  <2>4. log' \in Seq(Lines(G))
    <3>1. log \in Seq(Lines(G))
      BY DEF TypesOver, FileTypes
    <3>2. CASE Append1(RemovedLine({j.hash}))
      <4>1. RemovedLine({j.hash}) \in Lines(G)
        BY <2>2, LinesAre
      <4>2. QED
        BY <1>2, <3>1, <3>2, <4>1, SeenAppend DEF Append1, RemovedTake
    <3>3. CASE AppendFails
      BY <1>2, <3>1, <3>3, SeenTorn DEF AppendFails, RemovedTake
    <3>4. QED
      BY <1>2, <3>2, <3>3 DEF RemovedTake
  <2>5. FileTypes(G)'
    BY <1>2, <2>4 DEF RemovedTake, TypesOver, FileTypes
  <2>6. SessionTypes(G)'
    BY <1>2 DEF RemovedTake, Take, TypesOver, SessionTypes, SessionsOf
  <2>7. HistoryTypes(G)'
    BY <1>2, <2>2 DEF RemovedTake, Forgotten, TypesOver, HistoryTypes
  <2>8. QED
    BY <2>1, <2>2, <2>3, <2>4, <2>5, <2>6, <2>7 DEF TypesOver
<1>3. ASSUME NEW j \in jobs, EndTake(j) PROVE TypesOver(G)'
  <2>1. VaultTypes(G)' /\ BeginTypes(G)' /\ GcTypes(G)' /\ HistoryTypes(G)'
    BY <1>3 DEF TypesOver, EndTake, Take, disk, vault, budget, history, VaultTypes, BeginTypes, GcTypes, HistoryTypes
  <2>2. file' \in {file, session.ledger}
    BY <1>3 DEF EndTake
  <2>3. FileTypes(G)'
    BY <1>3, <2>2 DEF EndTake, Take, TypesOver, FileTypes, SessionTypes, SessionsOf
  <2>4. SessionTypes(G)'
    BY <1>3 DEF EndTake, TypesOver, SessionTypes
  <2>5. JobTypes(G)'
    BY <1>3 DEF EndTake, Take, TypesOver, JobTypes
  <2>6. ExecTypes(G)'
    <3>1. exec' \in {exec} \cup {[kind |-> "end", at |-> "line", success |-> b] : b \in BOOLEAN}
      BY <1>3 DEF EndTake
    <3>2. \A b \in BOOLEAN : [kind |-> "end", at |-> "line", success |-> b] \in EndExecs(G)
      BY DEF EndExecs
    <3>3. QED
      BY <3>1, <3>2 DEF TypesOver, ExecTypes
  <2>7. QED
    BY <2>1, <2>2, <2>3, <2>4, <2>5, <2>6 DEF TypesOver
<1>4. ASSUME AppendCommit PROVE TypesOver(G)'
  <2>1. VaultTypes(G)' /\ JobTypes(G)' /\ BeginTypes(G)' /\ GcTypes(G)'
    BY <1>4 DEF TypesOver, AppendCommit, At, disk, vault, budget, history, VaultTypes, JobTypes, BeginTypes, GcTypes
  <2>2. exec.job \in Appends(G) /\ exec.id \in G
    BY <1>4 DEF AppendCommit, At, TypesOver, ExecTypes, AppendExecs, EndExecs, ChunkExecs, Appends, OtherJobs
  <2>3. exec.job.hash \in Hashes /\ exec.job.refs \in (SUBSET G) \cup {NoRefs}
    BY <2>2 DEF Appends
  <2>4. RefsOf(exec.job.refs) \subseteq G
    BY <2>3, RefsAre
  <2>5. log' \in Seq(Lines(G))
    <3> DEFINE e == CommittedLine(exec.job.hash, exec.id, exec.job.refs)
    <3>1. log \in Seq(Lines(G))
      BY DEF TypesOver, FileTypes
    <3>2. CASE Append1(e)
      <4>1. e \in Lines(G)
        BY <2>2, <2>3, LinesAre
      <4>2. log' \in Seq(Lines(G)) /\ Seen' = Replayed(Seen, e)
        <5> HIDE DEF e
        <5>1. QED
          BY <1>4, <3>1, <3>2, <4>1, SeenAppend DEF Append1, AppendCommit
      <4>3. QED
        BY <4>2
    <3>3. CASE AppendFails
      BY <1>4, <3>1, <3>3, SeenTorn DEF AppendFails, AppendCommit
    <3>4. QED
      BY <1>4, <3>2, <3>3 DEF AppendCommit
  <2>6. FileTypes(G)'
    BY <1>4, <2>5 DEF AppendCommit, TypesOver, FileTypes
  <2>7. SessionTypes(G)'
    BY <1>4, CommitSession DEF SessionTypes
  <2>8. ExecTypes(G)'
    BY <1>4 DEF AppendCommit, At, TypesOver, ExecTypes, AppendExecs, EndExecs, ChunkExecs
  <2>9. HistoryTypes(G)'
    BY <1>4, <2>2, <2>3 DEF AppendCommit, TypesOver, HistoryTypes
  <2>10. QED
    BY <2>1, <2>2, <2>3, <2>4, <2>5, <2>6, <2>7, <2>8, <2>9 DEF TypesOver
<1>5. ASSUME AppendClose PROVE TypesOver(G)'
  <2>1. VaultTypes(G)' /\ SessionTypes(G)' /\ JobTypes(G)' /\ BeginTypes(G)' /\ GcTypes(G)' /\ HistoryTypes(G)'
    BY <1>5 DEF TypesOver, AppendClose, At, disk, vault, budget, history, VaultTypes, SessionTypes, JobTypes, BeginTypes, GcTypes, HistoryTypes
  <2>2. file' \in {file, session.ledger} /\ session # NoSession
    BY <1>5 DEF AppendClose, At, WriterHasSession
  <2>3. FileTypes(G)'
    BY <1>5, <2>2 DEF AppendClose, TypesOver, FileTypes, SessionTypes, SessionsOf
  <2>4. ExecTypes(G)'
    BY <1>5 DEF AppendClose, ExecTypes
  <2>5. QED
    BY <2>1, <2>2, <2>3, <2>4 DEF TypesOver
<1>6. ASSUME ChunkSave PROVE TypesOver(G)'
  <2>1. VaultTypes(G)' /\ SessionTypes(G)' /\ JobTypes(G)' /\ BeginTypes(G)' /\ GcTypes(G)' /\ HistoryTypes(G)'
    BY <1>6 DEF TypesOver, ChunkSave, At, disk, vault, budget, history, VaultTypes, SessionTypes, JobTypes, BeginTypes, GcTypes, HistoryTypes
  <2>2. file' \in {file, session.ledger} /\ session # NoSession
    BY <1>6 DEF ChunkSave, At, WriterHasSession
  <2>3. FileTypes(G)'
    BY <1>6, <2>2 DEF ChunkSave, TypesOver, FileTypes, SessionTypes, SessionsOf
  <2>4. ExecTypes(G)'
    BY <1>6 DEF ChunkSave, ExecTypes
  <2>5. QED
    BY <2>1, <2>2, <2>3, <2>4 DEF TypesOver
<1>7. ASSUME EndEntry PROVE TypesOver(G)'
  <2>1. VaultTypes(G)' /\ SessionTypes(G)' /\ JobTypes(G)' /\ BeginTypes(G)' /\ GcTypes(G)' /\ HistoryTypes(G)'
    BY <1>7 DEF TypesOver, EndEntry, At, disk, vault, budget, history, VaultTypes, SessionTypes, JobTypes, BeginTypes, GcTypes, HistoryTypes
  <2>2. log' \in Seq(Lines(G)) /\ Seen' = Seen
    <3>1. log \in Seq(Lines(G)) /\ snap' = snap
      BY <1>7 DEF EndEntry, TypesOver, FileTypes
    <3>2. CASE Append1(EndLine)
      BY <3>1, <3>2, SeenPlain DEF Append1
    <3>3. CASE AppendFails
      BY <3>1, <3>3, SeenTorn DEF AppendFails
    <3>4. QED
      BY <1>7, <3>2, <3>3 DEF EndEntry
  <2>3. FileTypes(G)'
    BY <1>7, <2>2 DEF EndEntry, TypesOver, FileTypes
  <2>4. ExecTypes(G)'
    BY <1>7 DEF EndEntry, ExecTypes, EndExecs
  <2>5. QED
    BY <2>1, <2>2, <2>3, <2>4 DEF TypesOver
<1>8. ASSUME EndCompact PROVE TypesOver(G)'
  <2>1. VaultTypes(G)' /\ SessionTypes(G)' /\ JobTypes(G)' /\ BeginTypes(G)' /\ GcTypes(G)' /\ HistoryTypes(G)'
    BY <1>8 DEF TypesOver, EndCompact, At, disk, vault, budget, history, VaultTypes, SessionTypes, JobTypes, BeginTypes, GcTypes, HistoryTypes
  <2>2. log' \in Seq(Lines(G))
    <3>1. log \in Seq(Lines(G)) /\ Skeleton \in Seq(Lines(G))
      BY LinesAre DEF Skeleton, TypesOver, FileTypes
    <3>2. QED
      BY <1>8, <3>1 DEF EndCompact
  <2>3. FileTypes(G)'
    BY <1>8, <2>2 DEF EndCompact, TypesOver, FileTypes
  <2>4. Seen.ids \in Partial(Hashes, G)
    BY SeenTyped DEF TypesOver, ReplaysOf
  <2>5. ExecTypes(G)'
    BY <1>8, <2>4 DEF EndCompact, ExecTypes, EndExecs, Seen
  <2>6. QED
    BY <2>1, <2>2, <2>3, <2>4, <2>5 DEF TypesOver
<1>9. ASSUME EndSnapshot PROVE TypesOver(G)'
  <2>1. VaultTypes(G)' /\ SessionTypes(G)' /\ JobTypes(G)' /\ BeginTypes(G)' /\ GcTypes(G)'
    BY <1>9 DEF TypesOver, EndSnapshot, At, disk, vault, budget, history, VaultTypes, SessionTypes, JobTypes, BeginTypes, GcTypes
  <2>2. log' = log /\ log \in Seq(Lines(G)) /\ file' = file /\ file \in Ledger(G)
    BY <1>9 DEF EndSnapshot, TypesOver, FileTypes
  <2>3. snap' \in Partial(Hashes, G)
    BY <1>9 DEF EndSnapshot, At, TypesOver, ExecTypes, AppendExecs, EndExecs, ChunkExecs, FileTypes
  <2>4. FileTypes(G)'
    BY <2>2, <2>3 DEF FileTypes
  <2>5. ExecTypes(G)'
    BY <1>9 DEF EndSnapshot, ExecTypes
  <2>6. HistoryTypes(G)'
    BY <1>9 DEF EndSnapshot, TypesOver, HistoryTypes
  <2>7. QED
    BY <2>1, <2>2, <2>3, <2>4, <2>5, <2>6 DEF TypesOver
<1>10. QED
  BY <1>1, <1>2, <1>3, <1>4, <1>5, <1>6, <1>7, <1>8, <1>9 DEF WriterStep

LEMMA TypesCalls ==
    ASSUME NEW G \in SUBSET Ids, TypesOver(G), WriterHasSession,
           G = Given, CallStep
    PROVE  TypesOver(G)'
<1>1. ASSUME NEW j \in Appends(G) \cup OtherJobs, Submit(j) PROVE TypesOver(G)'
  <2>1. FileTypes(G)' /\ VaultTypes(G)' /\ SessionTypes(G)' /\ ExecTypes(G)' /\ BeginTypes(G)' /\ GcTypes(G)' /\ HistoryTypes(G)'
    BY <1>1 DEF TypesOver, Submit, disk, vault, budget, history, FileTypes, VaultTypes, SessionTypes, ExecTypes, BeginTypes, GcTypes, HistoryTypes
  <2>2. JobTypes(G)'
    BY <1>1 DEF Submit, TypesOver, JobTypes
  <2>3. QED
    BY <2>1, <2>2 DEF TypesOver
<1>2. ASSUME NEW j \in jobs, Refuse(j) PROVE TypesOver(G)'
  <2>1. FileTypes(G)' /\ VaultTypes(G)' /\ SessionTypes(G)' /\ ExecTypes(G)' /\ BeginTypes(G)' /\ GcTypes(G)' /\ HistoryTypes(G)'
    BY <1>2 DEF TypesOver, Refuse, disk, vault, budget, history, FileTypes, VaultTypes, SessionTypes, ExecTypes, BeginTypes, GcTypes, HistoryTypes
  <2>2. JobTypes(G)'
    BY <1>2 DEF Refuse, TypesOver, JobTypes
  <2>3. QED
    BY <2>1, <2>2 DEF TypesOver
<1>3. ASSUME NEW h \in Hashes, Forget(h) PROVE TypesOver(G)'
  <2>1. VaultTypes(G)' /\ SessionTypes(G)' /\ JobTypes(G)' /\ ExecTypes(G)' /\ BeginTypes(G)' /\ GcTypes(G)'
    BY <1>3 DEF TypesOver, Forget, disk, vault, budget, history, VaultTypes, SessionTypes, JobTypes, ExecTypes, BeginTypes, GcTypes
  <2>2. log' \in Seq(Lines(G))
    <3>1. log \in Seq(Lines(G))
      BY DEF TypesOver, FileTypes
    <3>2. CASE Append1(RemovedLine({h}))
      <4>1. RemovedLine({h}) \in Lines(G)
        BY LinesAre
      <4>2. QED
        BY <1>3, <3>1, <3>2, <4>1, SeenAppend DEF Append1, Forget
    <3>3. CASE AppendFails
      BY <1>3, <3>1, <3>3, SeenTorn DEF AppendFails, Forget
    <3>4. QED
      BY <1>3, <3>2, <3>3 DEF Forget
  <2>3. FileTypes(G)'
    BY <1>3, <2>2 DEF Forget, TypesOver, FileTypes
  <2>4. HistoryTypes(G)'
    BY <1>3 DEF Forget, Forgotten, TypesOver, HistoryTypes
  <2>5. QED
    BY <2>1, <2>2, <2>3, <2>4 DEF TypesOver
<1>4. ASSUME NEW r \in DOMAIN metas, Delete(r) PROVE TypesOver(G)'
  <2>1. FileTypes(G)' /\ SessionTypes(G)' /\ JobTypes(G)' /\ ExecTypes(G)' /\ BeginTypes(G)' /\ GcTypes(G)'
    BY <1>4 DEF TypesOver, Delete, disk, vault, budget, history, FileTypes, SessionTypes, JobTypes, ExecTypes, BeginTypes, GcTypes
  <2>2. metas \in Partial(G, [hash : Hashes, refs : SUBSET G]) /\ chunks \in Partial(G, Hashes)
    BY DEF TypesOver, VaultTypes
  <2>3. metas' = Without(metas, {r}) /\ chunks' = Without(chunks, metas[r].refs)
    BY <1>4 DEF Delete
  <2>4. metas' \in Partial(G, [hash : Hashes, refs : SUBSET G]) /\ chunks' \in Partial(G, Hashes)
    <3> DEFINE T == [hash : Hashes, refs : SUBSET G]
    <3> HIDE DEF T
    <3>1. metas \in Partial(G, T)
      BY <2>2 DEF T
    <3>2. Without(metas, {r}) \in Partial(G, T) /\ Without(chunks, metas[r].refs) \in Partial(G, Hashes)
      BY <2>2, <3>1, WithoutTyped
    <3>3. QED
      BY <2>3, <3>2 DEF T
  <2>5. DOMAIN metas' \subseteq DOMAIN metas /\ DOMAIN chunks' \subseteq DOMAIN chunks
    <3>1. DOMAIN Without(metas, {r}) = DOMAIN metas \ {r}
      BY WithoutIs
    <3>2. DOMAIN Without(chunks, metas[r].refs) = DOMAIN chunks \ metas[r].refs
      BY WithoutIs
    <3>3. QED
      BY <2>3, <3>1, <3>2
  <2>6. VaultTypes(G)'
    BY <2>4, <2>5 DEF TypesOver, VaultTypes
  <2>7. metas[r].hash \in Hashes
    <3> DEFINE T == [hash : Hashes, refs : SUBSET G]
    <3> HIDE DEF T
    <3>1. metas \in Partial(G, T)
      BY <2>2 DEF T
    <3>2. metas[r] \in T
      BY <3>1, PartialIs
    <3>3. QED
      BY <3>2 DEF T
  <2>8. HistoryTypes(G)'
    BY <1>4, <2>7 DEF Delete, TypesOver, HistoryTypes
  <2>9. QED
    BY <2>1, <2>2, <2>3, <2>4, <2>5, <2>6, <2>7, <2>8 DEF TypesOver
<1>5. ASSUME ForceClose PROVE TypesOver(G)'
  <2>1. FileTypes(G)' /\ VaultTypes(G)' /\ JobTypes(G)' /\ ExecTypes(G)' /\ BeginTypes(G)' /\ GcTypes(G)' /\ HistoryTypes(G)'
    BY <1>5 DEF TypesOver, ForceClose, disk, vault, budget, history, FileTypes, VaultTypes, JobTypes, ExecTypes, BeginTypes, GcTypes, HistoryTypes
  <2>2. SessionTypes(G)'
    BY <1>5 DEF ForceClose, SessionTypes
  <2>3. QED
    BY <2>1, <2>2 DEF TypesOver
<1>6. ASSUME DevReset PROVE TypesOver(G)'
  <2>1. VaultTypes(G)' /\ SessionTypes(G)' /\ JobTypes(G)' /\ ExecTypes(G)' /\ BeginTypes(G)' /\ GcTypes(G)'
    BY <1>6 DEF TypesOver, DevReset, disk, vault, budget, history, VaultTypes, SessionTypes, JobTypes, ExecTypes, BeginTypes, GcTypes
  <2>2. log' \in Seq(Lines(G)) /\ Seen' = Unread(snap')
    BY <1>6, SeenUnread DEF DevReset
  <2>3. snap' \in Partial(Hashes, G) /\ file' \in Ledger(G)
    BY <1>6, EmptyTyped DEF DevReset, TypesOver, FileTypes
  <2>4. FileTypes(G)'
    BY <2>2, <2>3 DEF FileTypes
  <2>5. HistoryTypes(G)'
    BY <1>6 DEF DevReset, TypesOver, HistoryTypes
  <2>6. QED
    BY <2>1, <2>2, <2>3, <2>4, <2>5 DEF TypesOver
<1>7. ASSUME Crash PROVE TypesOver(G)'
  <2>1. VaultTypes(G)'
    BY <1>7 DEF TypesOver, Crash, disk, vault, budget, history, VaultTypes
  <2>2. log' \in Seq(Lines(G)) /\ Seen' = Seen
    BY <1>7, SeenTorn DEF Crash, TypesOver, FileTypes
  <2>3. FileTypes(G)'
    BY <1>7, <2>2 DEF Crash, TypesOver, FileTypes
  <2>4. SessionTypes(G)' /\ JobTypes(G)' /\ ExecTypes(G)' /\ BeginTypes(G)' /\ GcTypes(G)'
    BY <1>7 DEF Crash, SessionTypes, JobTypes, ExecTypes, BeginTypes, GcTypes
  <2>5. HistoryTypes(G)'
    <3>1. At("append", "commit") => exec.job.hash \in Hashes
      BY DEF At, TypesOver, ExecTypes, AppendExecs, EndExecs, ChunkExecs, Appends
    <3>2. QED
      BY <1>7, <3>1 DEF Crash, TypesOver, HistoryTypes
  <2>6. QED
    BY <2>1, <2>2, <2>3, <2>4, <2>5 DEF TypesOver
<1>8. QED
  BY <1>1, <1>2, <1>3, <1>4, <1>5, <1>6, <1>7 DEF CallStep

LEMMA TypesNew ==
    ASSUME NEW G \in SUBSET Ids, TypesOver(G), WriterHasSession, nextId \in Nat,
           nextId' # nextId => nextId \in G /\ nextId \notin DOMAIN metas \cup DOMAIN chunks,
           NewStep
    PROVE  TypesOver(G)'
<1>1. ASSUME AppendAdd PROVE TypesOver(G)'
  <2>1. FileTypes(G)' /\ SessionTypes(G)' /\ JobTypes(G)' /\ BeginTypes(G)' /\ GcTypes(G)'
    BY <1>1 DEF TypesOver, AppendAdd, At, disk, vault, budget, history, FileTypes, SessionTypes, JobTypes, BeginTypes, GcTypes
  <2>2. exec.job \in Appends(G) /\ exec # Idle /\ exec.kind = "append" /\ exec.at = "add"
    BY <1>1 DEF AppendAdd, At, TypesOver, ExecTypes, AppendExecs, EndExecs, ChunkExecs
  <2>3. exec.job.hash \in Hashes /\ RefsOf(exec.job.refs) \subseteq G
    <3>1. exec.job.hash \in Hashes /\ exec.job.refs \in (SUBSET G) \cup {NoRefs}
      BY <2>2 DEF Appends
    <3>2. QED
      BY <3>1, RefsAre
  <2>4. VaultTypes(G)'
    <3> DEFINE T == [hash : Hashes, refs : SUBSET G]
               new == [hash |-> exec.job.hash, refs |-> RefsOf(exec.job.refs)]
    <3>1. CASE UNCHANGED metas
      BY <1>1, <3>1 DEF AppendAdd, TypesOver, VaultTypes
    <3>2. CASE metas' = Over(All({nextId}, new), metas) /\ nextId' = nextId + 1
      <4>1. nextId' # nextId
        BY <3>2
      <4>2. new \in T
        BY <2>3
      <4> HIDE DEF T, new
      <4>3. metas \in Partial(G, T) /\ chunks' = chunks
        BY <1>1 DEF AppendAdd, TypesOver, VaultTypes, T
      <4>4. All({nextId}, new) \in Partial(G, T)
        BY <4>1, <4>2, AllTyped
      <4>5. metas' \in Partial(G, T)
        BY <3>2, <4>3, <4>4, OverTyped
      <4>6. DOMAIN All({nextId}, new) = {nextId}
        BY AllIs
      <4>7. DOMAIN Over(All({nextId}, new), metas) = DOMAIN All({nextId}, new) \cup DOMAIN metas
        BY OverIs
      <4>8. DOMAIN metas' = {nextId} \cup DOMAIN metas
        BY <3>2, <4>6, <4>7
      <4>9. QED
        BY <4>1, <4>3, <4>5, <4>8 DEF TypesOver, VaultTypes, T
    <3>3. QED
      BY <1>1, <3>1, <3>2 DEF AppendAdd
  <2>5. ExecTypes(G)'
    <3>1. \/ exec' = [kind |-> "append", job |-> exec.job, at |-> "commit", id |-> nextId] /\ nextId' = nextId + 1
          \/ exec' = [exec EXCEPT !.at = "close"]
      BY <1>1 DEF AppendAdd
    <3>2. CASE exec' = [kind |-> "append", job |-> exec.job, at |-> "commit", id |-> nextId] /\ nextId' = nextId + 1
      <4>1. nextId \in G
        BY <3>2
      <4>2. QED
        BY <2>2, <3>2, <4>1 DEF ExecTypes, AppendExecs
    <3>3. CASE exec' = [exec EXCEPT !.at = "close"]
      BY <2>2, <3>3 DEF TypesOver, ExecTypes, AppendExecs, EndExecs, ChunkExecs
    <3>4. QED
      BY <3>1, <3>2, <3>3
  <2>6. HistoryTypes(G)'
    BY <1>1, <2>3 DEF AppendAdd, TypesOver, HistoryTypes
  <2>7. QED
    BY <2>1, <2>2, <2>3, <2>4, <2>5, <2>6 DEF TypesOver
<1>2. ASSUME NEW j \in jobs, ChunkTake(j) PROVE TypesOver(G)'
  <2>1. FileTypes(G)' /\ BeginTypes(G)' /\ GcTypes(G)' /\ HistoryTypes(G)'
    BY <1>2 DEF TypesOver, ChunkTake, Take, disk, vault, budget, history, FileTypes, BeginTypes, GcTypes, HistoryTypes
  <2>2. j.hash \in Hashes
    BY <1>2 DEF ChunkTake, TypesOver, JobTypes, Appends, OtherJobs
  <2>3. JobTypes(G)'
    BY <1>2 DEF ChunkTake, Take, TypesOver, JobTypes
  <2>4. ExecTypes(G)'
    BY <1>2 DEF ChunkTake, ExecTypes, ChunkExecs
  <2>5. VaultTypes(G)'
    <3>1. CASE UNCHANGED chunks
      BY <1>2, <3>1 DEF ChunkTake, TypesOver, VaultTypes
    <3>2. CASE chunks' = Over(All({nextId}, j.hash), chunks) /\ nextId' = nextId + 1
      <4>1. nextId' # nextId
        BY <3>2
      <4>3. chunks \in Partial(G, Hashes) /\ metas' = metas
        BY <1>2 DEF ChunkTake, TypesOver, VaultTypes
      <4>4. All({nextId}, j.hash) \in Partial(G, Hashes)
        BY <4>1, <2>2, AllTyped
      <4>5. chunks' \in Partial(G, Hashes)
        BY <3>2, <4>3, <4>4, OverTyped
      <4>6. DOMAIN All({nextId}, j.hash) = {nextId}
        BY AllIs
      <4>7. DOMAIN Over(All({nextId}, j.hash), chunks) = DOMAIN All({nextId}, j.hash) \cup DOMAIN chunks
        BY OverIs
      <4>8. DOMAIN chunks' = {nextId} \cup DOMAIN chunks
        BY <3>2, <4>6, <4>7
      <4>9. QED
        BY <4>1, <4>3, <4>5, <4>8 DEF TypesOver, VaultTypes
    <3>3. QED
      BY <1>2, <3>1, <3>2 DEF ChunkTake
  <2>6. SessionTypes(G)'
    BY <1>2, ChunkSession DEF TypesOver, SessionTypes
  <2>7. QED
    BY <2>1, <2>2, <2>3, <2>4, <2>5, <2>6 DEF TypesOver
<1>3. QED
  BY <1>1, <1>2 DEF NewStep

\* There is no other step.
LEMMA StepKinds ==
    ASSUME TypesOver(Given), Next
    PROVE  BeginStep \/ GcStep \/ WriterStep \/ CallStep \/ NewStep
<1>1. ASSUME NEW h \in Hashes, SubmitChunk(h) \/ SubmitForget(h) PROVE CallStep
  <2>1. PICK j \in [kind : {"chunk", "removed"}, hash : Hashes] : Submit(j)
    BY <1>1 DEF SubmitChunk, SubmitForget
  <2>2. j \in Appends(Given) \cup OtherJobs /\ Asked(j)
    BY DEF OtherJobs, Asked
  <2>3. QED
    BY <2>1, <2>2 DEF CallStep
<1>2. ASSUME NEW h \in Hashes, SubmitRecord(h) PROVE CallStep
  <2>1. PICK refs \in {{}, NoRefs} \cup {{c} : c \in {d \in DOMAIN chunks : chunks[d] = h}} :
            Submit([kind |-> "append", hash |-> h, refs |-> refs])
    BY <1>2 DEF SubmitRecord
  <2>2. PICK j : j = [kind |-> "append", hash |-> h, refs |-> refs]
    OBVIOUS
  <2>3. DOMAIN chunks \subseteq Given
    BY PartialIs DEF TypesOver, VaultTypes
  <2>4. refs \in (SUBSET Given) \cup {NoRefs}
    BY <2>1, <2>3
  <2>5. j \in Appends(Given)
    BY <2>2, <2>4 DEF Appends
  <2>6. \A c \in RefsOf(refs) : c \in DOMAIN chunks /\ chunks[c] = h
    BY <2>1 DEF RefsOf
  <2>7. Asked(j)
    BY <2>2, <2>6 DEF Asked
  <2>8. QED
    BY <2>1, <2>2, <2>5, <2>7 DEF CallStep
<1>3. ASSUME NEW b \in BOOLEAN, SubmitEnd(b) PROVE CallStep
  <2>1. PICK j \in [kind : {"end"}, success : BOOLEAN] : Submit(j)
    BY <1>3 DEF SubmitEnd
  <2>2. j \in Appends(Given) \cup OtherJobs /\ Asked(j)
    BY DEF OtherJobs, Asked
  <2>3. QED
    BY <2>1, <2>2 DEF CallStep
<1>4. ASSUME NEW h \in Hashes, Forget(h) PROVE CallStep
  BY <1>4 DEF CallStep
<1>5. ASSUME NEW j \in jobs, Refuse(j) \/ AppendTake(j) \/ ChunkTake(j) \/ RemovedTake(j) \/ EndTake(j)
      PROVE  CallStep \/ WriterStep \/ NewStep
  BY <1>5 DEF CallStep, WriterStep, NewStep
<1>6. ASSUME NEW r \in DOMAIN metas, Delete(r) PROVE CallStep
  BY <1>6 DEF CallStep
<1>7. ASSUME BeginCheck \/ BeginLoad \/ BeginCut \/ BeginSnapshot \/ BeginInstall PROVE BeginStep
  BY <1>7 DEF BeginStep
<1>8. ASSUME GcCheck \/ GcSettle \/ GcLoad \/ GcDelete \/ GcSave PROVE GcStep
  BY <1>8 DEF GcStep
<1>9. ASSUME AppendAdd PROVE NewStep
  BY <1>9 DEF NewStep
<1>10. ASSUME AppendCommit \/ AppendClose \/ ChunkSave \/ EndEntry \/ EndCompact \/ EndSnapshot PROVE WriterStep
  BY <1>10 DEF WriterStep
<1>11. ASSUME ForceClose \/ DevReset \/ Crash PROVE CallStep
  BY <1>11 DEF CallStep
<1>12. QED
  BY <1>1, <1>2, <1>3, <1>4, <1>5, <1>6, <1>7, <1>8, <1>9, <1>10, <1>11 DEF Next

\* Only the two steps that give out an id change which is next.
LEMMA NextIdStays ==
    ASSUME BeginStep \/ GcStep \/ WriterStep \/ CallStep
    PROVE  nextId' = nextId
<1>1. CASE BeginStep
  BY <1>1 DEF BeginStep, BeginCheck, BeginLoad, BeginCut, BeginSnapshot, BeginInstall, vault
<1>2. CASE GcStep
  BY <1>2 DEF GcStep, GcCheck, GcSettle, GcLoad, GcDelete, GcSave, vault
<1>3. CASE WriterStep
  BY <1>3 DEF WriterStep, AppendTake, RemovedTake, EndTake, AppendCommit, AppendClose, ChunkSave,
              EndEntry, EndCompact, EndSnapshot, vault
<1>4. CASE CallStep
  BY <1>4 DEF CallStep, Submit, Refuse, Forget, Delete, ForceClose, DevReset, Crash, vault
<1>5. QED
  BY <1>1, <1>2, <1>3, <1>4

LEMMA NewIdIs ==
    ASSUME NewStep, nextId \in Nat
    PROVE  nextId' = nextId \/ (nextId \in Ids /\ nextId' = nextId + 1)
  BY DEF NewStep, AppendAdd, ChunkTake

LEMMA WriterInit ==
    Init => WriterHasSession
  BY DEF Init, WriterHasSession

LEMMA WriterNext ==
    ASSUME Types, WriterHasSession, [Next]_vars
    PROVE  WriterHasSession'
<1>0. TypesOver(Given)
  BY DEF Types
<1>1. CASE UNCHANGED vars
  BY <1>1 DEF vars, WriterHasSession
<1>2. CASE BeginStep
  BY <1>2 DEF BeginStep, BeginCheck, BeginLoad, BeginCut, BeginSnapshot, BeginInstall, WriterHasSession
<1>3. CASE GcStep
  BY <1>3 DEF GcStep, GcCheck, GcSettle, GcLoad, GcDelete, GcSave, WriterHasSession
<1>4. CASE CallStep
  BY <1>4 DEF CallStep, Submit, Refuse, Forget, Delete, ForceClose, DevReset, Crash, WriterHasSession
<1>5. CASE WriterStep
  <2>1. ASSUME NEW j \in jobs, AppendTake(j) PROVE WriterHasSession'
    BY <2>1 DEF AppendTake, Take, WriterHasSession
  <2>2. ASSUME NEW j \in jobs, RemovedTake(j) PROVE WriterHasSession'
    BY <2>2 DEF RemovedTake, Take, WriterHasSession
  <2>3. ASSUME NEW j \in jobs, EndTake(j) PROVE WriterHasSession'
    BY <2>3 DEF EndTake, Take, WriterHasSession
  <2>4. ASSUME AppendCommit PROVE WriterHasSession'
    <3>1. Given \in SUBSET Ids
      BY GivenIs
    <3>2. PICK G \in SUBSET Ids : G = Given
      BY <3>1
    <3>3. session' \in SessionsOf(G)
      BY <1>0, <2>4, <3>2, CommitSession
    <3>4. QED
      BY <3>3, SessionsAre DEF WriterHasSession
  <2>5. ASSUME AppendClose \/ ChunkSave PROVE WriterHasSession'
    BY <2>5 DEF AppendClose, ChunkSave, WriterHasSession
  <2>6. ASSUME EndEntry \/ EndCompact \/ EndSnapshot PROVE WriterHasSession'
    BY <2>6 DEF EndEntry, EndCompact, EndSnapshot, At, WriterHasSession
  <2>7. QED
    BY <1>5, <2>1, <2>2, <2>3, <2>4, <2>5, <2>6 DEF WriterStep
<1>6. CASE NewStep
  <2>1. CASE AppendAdd
    BY <2>1 DEF AppendAdd, At, WriterHasSession
  <2>2. ASSUME NEW j \in jobs, ChunkTake(j) PROVE WriterHasSession'
    <3>1. CASE UNCHANGED session
      BY <2>2, <3>1 DEF ChunkTake, Take, WriterHasSession
    <3>2. CASE nextId' = nextId + 1 /\ nextId \in Ids
      <4>1. PICK G \in SUBSET Ids : G = Given \cup {nextId}
        BY <3>2, GivenIs
      <4>2. TypesOver(G)
        BY <1>0, <4>1, GivenIs, TypesWider
      <4>3. session' \in SessionsOf(G)
        BY <2>2, <3>2, <4>1, <4>2, ChunkSession DEF Types
      <4>4. QED
        BY <4>3, SessionsAre DEF WriterHasSession
    <3>3. QED
      BY <2>2, <3>1, <3>2 DEF ChunkTake
  <2>3. QED
    BY <1>6, <2>1, <2>2 DEF NewStep
<1>7. QED
  BY <1>0, <1>1, <1>2, <1>3, <1>4, <1>5, <1>6, StepKinds

\* A command is added to a queue that is not full, or taken from it.
LEMMA JobsStep ==
    ASSUME TypesOver(Given), Next
    PROVE  \/ jobs' \in {jobs, {}}
           \/ \E j \in jobs : jobs' = jobs \ {j}
           \/ Cardinality(jobs) < MaxJobs /\ \E j : j \notin jobs /\ jobs' = jobs \cup {j}
<1>1. CASE BeginStep
  BY <1>1 DEF BeginStep, BeginCheck, BeginLoad, BeginCut, BeginSnapshot, BeginInstall
<1>2. CASE GcStep
  BY <1>2 DEF GcStep, GcCheck, GcSettle, GcLoad, GcDelete, GcSave
<1>3. CASE WriterStep
  BY <1>3 DEF WriterStep, Take, AppendTake, RemovedTake, EndTake, AppendCommit, AppendClose, ChunkSave,
              EndEntry, EndCompact, EndSnapshot
<1>4. CASE CallStep
  <2>1. ASSUME NEW j, Submit(j)
        PROVE  Cardinality(jobs) < MaxJobs /\ j \notin jobs /\ jobs' = jobs \cup {j}
    BY <2>1 DEF Submit
  <2>2. ASSUME NEW j \in jobs, Refuse(j) PROVE jobs' = jobs \ {j}
    BY <2>2 DEF Refuse
  <2>3. ASSUME NEW h, Forget(h) PROVE jobs' = jobs
    BY <2>3 DEF Forget
  <2>4. ASSUME NEW r, Delete(r) PROVE jobs' = jobs
    BY <2>4 DEF Delete
  <2>5. ASSUME ForceClose \/ DevReset \/ Crash PROVE jobs' \in {jobs, {}}
    BY <2>5 DEF ForceClose, DevReset, Crash
  <2>6. QED
    BY <1>4, <2>1, <2>2, <2>3, <2>4, <2>5 DEF CallStep
<1>5. CASE NewStep
  BY <1>5 DEF NewStep, AppendAdd, ChunkTake, Take
<1>6. QED
  BY <1>1, <1>2, <1>3, <1>4, <1>5, StepKinds

LEMMA FewJobsNext ==
    ASSUME TypesOver(Given), FewJobs, Next
    PROVE  FewJobs'
<1>1. IsFiniteSet(jobs) /\ Cardinality(jobs) \in Nat /\ Cardinality(jobs) <= MaxJobs /\ MaxJobs \in Nat
  BY FS_CardinalityType, ImportAssumption DEF FewJobs
<1>2. IsFiniteSet({}) /\ Cardinality({}) = 0
  BY FS_EmptySet
<1>3. ASSUME NEW j \in jobs PROVE IsFiniteSet(jobs \ {j}) /\ Cardinality(jobs \ {j}) = Cardinality(jobs) - 1
  BY <1>1, FS_RemoveElement
<1>4. ASSUME NEW j, j \notin jobs
      PROVE  IsFiniteSet(jobs \cup {j}) /\ Cardinality(jobs \cup {j}) = Cardinality(jobs) + 1
  BY <1>1, <1>4, FS_AddElement
<1>5. CASE jobs' \in {jobs, {}}
  BY <1>1, <1>2, <1>5 DEF FewJobs
<1>6. ASSUME NEW j \in jobs, jobs' = jobs \ {j} PROVE FewJobs'
  BY <1>1, <1>3, <1>6 DEF FewJobs
<1>7. ASSUME Cardinality(jobs) < MaxJobs, NEW j, j \notin jobs, jobs' = jobs \cup {j} PROVE FewJobs'
  BY <1>1, <1>4, <1>7 DEF FewJobs
<1>8. QED
  BY <1>5, <1>6, <1>7, JobsStep

LEMMA TypesInit ==
    ASSUME Init
    PROVE  Types
<1>1. nextId \in 1..(MaxId + 1)
  <2>1. nextId = 1 \/ nextId = 3
    BY DEF Init
  <2>2. QED
    BY <2>1, ImportAssumption
<1>2. FewJobs
  BY FS_EmptySet, ImportAssumption DEF Init, FewJobs
<1>3. SessionTypes(Given) /\ JobTypes(Given) /\ ExecTypes(Given) /\ BeginTypes(Given) /\ GcTypes(Given)
  BY DEF Init, SessionTypes, JobTypes, ExecTypes, BeginTypes, GcTypes
<1>4. snap \in Partial(Hashes, Given)
  BY EmptyTyped DEF Init
<1>5. CASE log = <<>> /\ metas = Empty /\ chunks = Empty /\ nextId = 1
           /\ file = Empty /\ claimed = {} /\ promised = {}
  <2>1. FileTypes(Given)
    <3>1. log \in Seq(Lines(Given))
      BY <1>5
    <3>2. file \in Ledger(Given)
      BY <1>5, EmptyTyped DEF Ledger
    <3>3. QED
      BY <1>4, <3>1, <3>2 DEF FileTypes
  <2>2. VaultTypes(Given)
    <3> DEFINE T == [hash : Hashes, refs : SUBSET Given]
    <3> HIDE DEF T
    <3>1. metas \in Partial(Given, T)
      BY <1>5, EmptyTyped
    <3>2. chunks \in Partial(Given, Hashes)
      BY <1>5, EmptyTyped
    <3>3. QED
      BY <1>5, <3>1, <3>2, EmptyIs DEF VaultTypes, T
  <2>3. HistoryTypes(Given)
    BY <1>5 DEF Init, HistoryTypes
  <2>4. QED
    BY <1>1, <1>2, <1>3, <2>1, <2>2, <2>3 DEF Types, TypesOver
<1>6. ASSUME NEW h \in Hashes,
             log = <<BeginLine, CommittedLine(h, 2, NoRefs)>>,
             metas = All({2}, [hash |-> h, refs |-> {1}]), chunks = All({1}, h), nextId = 3,
             file = All({1}, Unowned), claimed = {2}, promised = {h}
      PROVE  Types
  <2>1. Given = {1, 2}
    BY <1>6 DEF Given
  <2>2. FileTypes(Given)
    <3>1. BeginLine \in Lines(Given) /\ CommittedLine(h, 2, NoRefs) \in Lines(Given)
      BY <2>1 DEF Lines, BeginLine, CommittedLine
    <3>2. log \in Seq(Lines(Given))
      BY <1>6, <3>1
    <3>3. {1} \subseteq Given /\ Unowned \in Named(Given)
      BY <2>1 DEF Named
    <3>4. file \in Ledger(Given)
      BY <1>6, <3>3, AllTyped DEF Ledger
    <3>5. QED
      BY <1>4, <3>2, <3>4 DEF FileTypes
  <2>3. VaultTypes(Given)
    <3> DEFINE T == [hash : Hashes, refs : SUBSET Given]
               new == [hash |-> h, refs |-> {1}]
    <3>1. new \in T /\ {2} \subseteq Given /\ {1} \subseteq Given
      BY <2>1
    <3> HIDE DEF T, new
    <3>2. metas \in Partial(Given, T)
      <4>1. All({2}, new) \in Partial(Given, T)
        BY <3>1, AllTyped
      <4>2. QED
        BY <1>6, <4>1 DEF new
    <3>3. chunks \in Partial(Given, Hashes)
      BY <1>6, <3>1, AllTyped
    <3>4. DOMAIN metas = {2} /\ DOMAIN chunks = {1}
      BY <1>6 DEF All
    <3>5. QED
      BY <3>2, <3>3, <3>4 DEF VaultTypes, T
  <2>4. HistoryTypes(Given)
    BY <1>6, <2>1 DEF Init, HistoryTypes
  <2>5. QED
    BY <1>1, <1>2, <1>3, <2>2, <2>3, <2>4 DEF Types, TypesOver
<1>7. QED
  BY <1>5, <1>6 DEF Init

LEMMA TypesNext ==
    ASSUME Types, WriterHasSession, [Next]_vars
    PROVE  Types'
<1>0. TypesOver(Given) /\ FewJobs /\ nextId \in 1..(MaxId + 1) /\ Given \in SUBSET Ids /\ nextId \in Nat
  BY GivenIs, ImportAssumption DEF Types
<1>1. CASE UNCHANGED vars
  BY <1>0, <1>1 DEF vars, disk, vault, budget, history, Types, TypesOver, Given, FewJobs,
                    FileTypes, VaultTypes, SessionTypes, JobTypes, ExecTypes, BeginTypes, GcTypes, HistoryTypes
<1>2. CASE Next
  <2>1. FewJobs'
    BY <1>0, <1>2, FewJobsNext
  <2>2. CASE BeginStep \/ GcStep \/ WriterStep \/ CallStep
    <3>1. nextId' = nextId /\ (Given)' = Given
      BY <2>2, NextIdStays DEF Given
    <3>2. PICK G \in SUBSET Ids : G = Given
      BY <1>0
    <3>3. TypesOver(G)'
      BY <1>0, <2>2, <3>2, TypesBegin, TypesGc, TypesWriter, TypesCalls
    <3>4. TypesOver(Given)'
      BY <3>1, <3>2, <3>3
    <3>5. QED
      BY <1>0, <2>1, <3>1, <3>4 DEF Types
  <2>3. CASE NewStep
    <3>1. nextId' = nextId \/ (nextId \in Ids /\ nextId' = nextId + 1)
      BY <1>0, <2>3, NewIdIs
    <3>2. nextId' \in 1..(MaxId + 1)
      BY <1>0, <3>1, ImportAssumption DEF Ids
    <3>3. PICK G \in SUBSET Ids : G = 1..(nextId' - 1)
      BY <1>0, <3>1, ImportAssumption DEF Given, Ids
    <3>4. Given \subseteq G /\ (nextId' # nextId => nextId \in G)
      BY <1>0, <3>1, <3>3 DEF Given
    <3>5. nextId \notin DOMAIN metas \cup DOMAIN chunks
      <4>1. nextId \notin Given
        BY GivenIs
      <4>2. DOMAIN metas \subseteq Given
        <5> DEFINE T == [hash : Hashes, refs : SUBSET Given]
        <5> HIDE DEF T
        <5>1. metas \in Partial(Given, T)
          BY <1>0 DEF TypesOver, VaultTypes, T
        <5>2. QED
          BY <5>1, PartialIs
      <4>3. DOMAIN chunks \subseteq Given
        BY <1>0, PartialIs DEF TypesOver, VaultTypes
      <4>4. QED
        BY <4>1, <4>2, <4>3
    <3>6. TypesOver(G)
      BY <1>0, <3>4, TypesWider
    <3>7. TypesOver(G)'
      BY <1>0, <2>3, <3>4, <3>5, <3>6, TypesNew
    <3>8. (Given)' = G
      BY <3>3 DEF Given
    <3>9. QED
      BY <2>1, <3>2, <3>7, <3>8 DEF Types
  <2>4. QED
    BY <1>0, <1>2, <2>2, <2>3, StepKinds
<1>3. QED
  BY <1>1, <1>2

LEMMA TypesSuffice ==
    ASSUME Types
    PROVE  TypeOK
<1>1. TypesOver(Given) /\ Given \subseteq Ids
  BY GivenIs DEF Types
<1>2. PICK G \in SUBSET Ids : G = Given
  BY <1>1
<1>3. TypesOver(G)
  BY <1>1, <1>2
<1>4. Named(G) \subseteq Owners
  BY DEF Named, Owners
<1>5. DOMAIN file \subseteq Ids /\ \A c \in DOMAIN file : file[c] \in Owners
  <2>1. file \in Partial(G, Named(G))
    BY <1>3 DEF TypesOver, FileTypes, Ledger
  <2>2. DOMAIN file \subseteq G /\ \A c \in DOMAIN file : file[c] \in Named(G)
    BY <2>1, PartialIs
  <2>3. QED
    BY <1>4, <2>2
<1>6. DOMAIN snap \subseteq Hashes
  BY <1>3, PartialIs DEF TypesOver, FileTypes
<1>7. DOMAIN metas \subseteq Ids /\ \A r \in DOMAIN metas : metas[r].hash \in Hashes /\ metas[r].refs \subseteq Ids
  <2> DEFINE T == [hash : Hashes, refs : SUBSET G]
  <2> HIDE DEF T
  <2>1. metas \in Partial(G, T)
    BY <1>3 DEF TypesOver, VaultTypes, T
  <2>2. DOMAIN metas \subseteq G /\ \A r \in DOMAIN metas : metas[r] \in T
    BY <2>1, PartialIs
  <2>3. QED
    BY <2>2 DEF T
<1>8. DOMAIN chunks \subseteq Ids
  BY <1>3, PartialIs DEF TypesOver, VaultTypes
<1>9. DOMAIN metas \cap DOMAIN chunks = {}
  BY <1>3 DEF TypesOver, VaultTypes
<1>10. jobs \subseteq Job
  <2>1. (SUBSET G) \cup {NoRefs} \subseteq Refs
    BY DEF Refs
  <2>2. Appends(G) \subseteq Job
    BY <2>1 DEF Appends, Job
  <2>3. OtherJobs \subseteq Job
    BY DEF OtherJobs, Job
  <2>4. QED
    BY <1>3, <2>2, <2>3 DEF TypesOver, JobTypes
<1>11. ASSUME session # NoSession
       PROVE  /\ session.known \subseteq Hashes /\ DOMAIN session.issued \subseteq Hashes
              /\ DOMAIN session.ledger \subseteq Ids
  <2>1. /\ session.known \subseteq Hashes /\ session.issued \in Partial(Hashes, G)
        /\ session.ledger \in Partial(G, Named(G))
    BY <1>3, <1>11 DEF TypesOver, SessionTypes, SessionsOf, Ledger
  <2>2. DOMAIN session.issued \subseteq Hashes /\ DOMAIN session.ledger \subseteq G
    BY <2>1, PartialIs
  <2>3. QED
    BY <2>1, <2>2
<1>12. QED
  BY <1>5, <1>6, <1>7, <1>8, <1>9, <1>10, <1>11 DEF TypeOK, Types, FewJobs

\* The files, the container and everything in memory speak of the hashes there
\* are and of ids the container has given out, and no id is that of a record
\* and of a chunk at once, whatever calls run beside each other.
THEOREM TypeCorrect == Spec => []TypeOK
<1>1. Init => Types /\ WriterHasSession
  BY TypesInit, WriterInit
<1>2. Types /\ WriterHasSession /\ [Next]_vars => (Types /\ WriterHasSession)'
  BY TypesNext, WriterNext
<1>3. Types => TypeOK
  BY TypesSuffice
<1>4. QED
  BY <1>1, <1>2, <1>3, PTL DEF Spec

-----------------------------------------------------------------------------
(* What the files promise, when import_begin, the collection and             *)
(* forget_hashes wait for each other.                                        *)

Alone == ~CallsOverlap

\* No import begins and no collection runs beside a session or a writer.
Separate ==
    /\ begin # Idle => session = NoSession /\ exec = Idle /\ gc = Idle
    /\ gc # Idle => session = NoSession /\ exec = Idle

\* While the snapshot is behind it, the log is the one that was cut.
CutLog ==
    /\ begin # Idle /\ begin.at \in {"snapshot", "install"} => log = <<BeginLine>>
    /\ begin # Idle /\ begin.at = "install" => snap = begin.replay.ids
    /\ At("end", "snapshot") => log = Skeleton

Order == WriterHasSession /\ Separate /\ CutLog

LEMMA OrderInit ==
    Init => Order
<1>1. Init => Separate /\ CutLog
  BY DEF Init, Separate, CutLog, At
<1>2. QED
  BY <1>1, WriterInit DEF Order

LEMMA OrderBegin ==
    ASSUME Alone, Types, Order, BeginStep
    PROVE  Separate' /\ CutLog'
<1>1. CASE BeginCheck
  BY <1>1 DEF BeginCheck, Quiet, NoActiveSession, Alone, Order, WriterHasSession, Separate, CutLog, At,
              disk, history
<1>2. CASE BeginLoad
  BY <1>2 DEF BeginLoad, Order, WriterHasSession, Separate, CutLog, At, disk, history
<1>3. CASE BeginCut
  BY <1>3 DEF BeginCut, Order, WriterHasSession, Separate, CutLog, At, disk, history
<1>4. CASE BeginSnapshot
  <2>1. CASE begin' = Idle
    BY <1>4, <2>1 DEF BeginSnapshot, Order, WriterHasSession, Separate, CutLog, At, disk, history
  <2>2. CASE snap' = begin.replay.ids /\ begin' = [begin EXCEPT !.at = "install"]
    <3>1. begin \in [at : {"cut", "snapshot", "install"}, replay : ReplaysOf(Given), ledger : Ledger(Given)]
      BY <1>4 DEF BeginSnapshot, Types, TypesOver, BeginTypes
    <3>2. begin'.at = "install" /\ begin'.replay = begin.replay
      BY <2>2, <3>1
    <3>3. QED
      BY <1>4, <2>2, <3>2 DEF BeginSnapshot, Order, WriterHasSession, Separate, CutLog, At, disk, history
  <2>3. QED
    BY <1>4, <2>1, <2>2 DEF BeginSnapshot
<1>5. CASE BeginInstall
  BY <1>5 DEF BeginInstall, Order, WriterHasSession, Separate, CutLog, At, disk, history
<1>6. QED
  BY <1>1, <1>2, <1>3, <1>4, <1>5 DEF BeginStep

LEMMA OrderGc ==
    ASSUME Alone, Types, Order, GcStep
    PROVE  Separate' /\ CutLog'
<1>1. UNCHANGED <<log, snap, session, exec, begin>>
  BY DEF GcStep, GcCheck, GcSettle, GcLoad, GcDelete, GcSave, disk
<1>2. CutLog'
  BY <1>1 DEF Order, CutLog, At
<1>3. Separate'
  <2>1. begin = Idle /\ session = NoSession /\ exec = Idle
    <3>1. CASE GcCheck
      BY <3>1 DEF GcCheck, Quiet, NoActiveSession, Alone
    <3>2. CASE gc # Idle
      BY <3>2 DEF Order, Separate
    <3>3. QED
      BY <3>1, <3>2 DEF GcStep, GcSettle, GcLoad, GcDelete, GcSave
  <2>2. QED
    BY <1>1, <2>1 DEF Separate
<1>4. QED
  BY <1>2, <1>3

LEMMA OrderWriter ==
    ASSUME Alone, Types, Order, WriterStep \/ NewStep
    PROVE  Separate' /\ CutLog'
<1>1. UNCHANGED <<begin, gc, snap>> \/ EndSnapshot
  BY DEF WriterStep, NewStep, AppendTake, RemovedTake, EndTake, AppendCommit, AppendClose, ChunkSave,
         EndEntry, EndCompact, EndSnapshot, AppendAdd, ChunkTake, disk
<1>2. UNCHANGED <<begin, gc>>
  BY <1>1 DEF EndSnapshot
<1>3. begin = Idle /\ gc = Idle
  <2>1. session # NoSession \/ exec # Idle
    BY DEF WriterStep, NewStep, AppendTake, RemovedTake, EndTake, AppendCommit, AppendClose, ChunkSave,
           EndEntry, EndCompact, EndSnapshot, AppendAdd, ChunkTake, Take, At
  <2>2. QED
    BY <2>1 DEF Order, Separate
<1>4. Separate'
  BY <1>2, <1>3 DEF Separate
<1>5. CutLog'
  <2>1. CASE EndCompact
    BY <1>2, <1>3, <2>1 DEF EndCompact, CutLog, At
  <2>2. CASE exec' = Idle
    BY <1>2, <1>3, <2>2 DEF CutLog, At
  <2>3. ASSUME NEW j \in jobs, AppendTake(j) \/ EndTake(j) \/ ChunkTake(j) \/ RemovedTake(j)
        PROVE  ~(At("end", "snapshot")')
    <3>1. exec = Idle
      BY <2>3 DEF AppendTake, EndTake, ChunkTake, RemovedTake, Take
    <3>2. CASE AppendTake(j)
      BY <3>2 DEF AppendTake, At
    <3>3. CASE EndTake(j)
      BY <3>1, <3>3 DEF EndTake, At
    <3>4. CASE ChunkTake(j)
      BY <3>4 DEF ChunkTake, At
    <3>5. CASE RemovedTake(j)
      BY <3>1, <3>5 DEF RemovedTake, At
    <3>6. QED
      BY <2>3, <3>2, <3>3, <3>4, <3>5
  <2>4. CASE EndEntry
    BY <2>4, <1>2, <1>3 DEF EndEntry, CutLog, At
  <2>5. CASE AppendAdd \/ AppendCommit
    <3>1. exec \in AppendExecs(Given)
      BY <2>5 DEF AppendAdd, AppendCommit, At, Types, TypesOver, ExecTypes, EndExecs, ChunkExecs
    <3>2. exec'.kind = "append"
      BY <2>5, <3>1 DEF AppendAdd, AppendCommit, AppendExecs
    <3>3. QED
      BY <1>2, <1>3, <3>2 DEF CutLog, At
  <2>6. CASE AppendClose \/ ChunkSave \/ EndSnapshot
    BY <2>2, <2>6 DEF AppendClose, ChunkSave, EndSnapshot
  <2>7. CASE ~(At("end", "snapshot")')
    BY <1>2, <1>3, <2>7 DEF CutLog
  <2>8. QED
    BY <2>1, <2>3, <2>4, <2>5, <2>6, <2>7 DEF WriterStep, NewStep
<1>6. QED
  BY <1>4, <1>5

LEMMA OrderCalls ==
    ASSUME Alone, Types, Order, CallStep
    PROVE  Separate' /\ CutLog'
<1>1. ASSUME NEW j, Submit(j) PROVE Separate' /\ CutLog'
  BY <1>1 DEF Submit, Order, Separate, CutLog, At, disk
<1>2. ASSUME NEW j \in jobs, Refuse(j) PROVE Separate' /\ CutLog'
  BY <1>2 DEF Refuse, Order, Separate, CutLog, At, disk
<1>3. ASSUME NEW h, Forget(h) PROVE Separate' /\ CutLog'
  BY <1>3 DEF Forget, Quiet, Alone, NoActiveSession, Order, Separate, CutLog, At, disk
<1>4. ASSUME NEW r, Delete(r) PROVE Separate' /\ CutLog'
  BY <1>4 DEF Delete, Order, Separate, CutLog, At, disk
<1>5. CASE ForceClose
  BY <1>5 DEF ForceClose, Order, Separate, CutLog, At, disk
<1>6. CASE DevReset
  BY <1>6 DEF DevReset, NoActiveSession, Order, Separate, CutLog, At
<1>7. CASE Crash
  BY <1>7 DEF Crash, Separate, CutLog, At
<1>8. QED
  BY <1>1, <1>2, <1>3, <1>4, <1>5, <1>6, <1>7 DEF CallStep

LEMMA OrderNext ==
    ASSUME Alone, Types, Order, [Next]_vars
    PROVE  Order'
<1>1. WriterHasSession'
  BY WriterNext DEF Order
<1>2. Separate' /\ CutLog'
  <2>1. CASE UNCHANGED vars
    BY <2>1 DEF vars, disk, Order, Separate, CutLog, At
  <2>2. TypesOver(Given)
    BY DEF Types
  <2>3. QED
    BY <2>1, <2>2, StepKinds, OrderBegin, OrderGc, OrderWriter, OrderCalls
<1>3. QED
  BY <1>1, <1>2 DEF Order

-----------------------------------------------------------------------------
(* What a step makes of the conclusions of a load and of the records.        *)

\* A committed line counts a file as stored and its chunks as owned.
Wrote(h, id, refs) ==
    /\ DOMAIN Seen'.ids = DOMAIN Seen.ids \cup {h} /\ Seen'.ids[h] = id
    /\ \A k \in DOMAIN Seen.ids \ {h} : Seen'.ids[k] = Seen.ids[k]
    /\ DOMAIN Seen'.owners = DOMAIN Seen.owners \cup RefsOf(refs)
    /\ \A c \in RefsOf(refs) : Seen'.owners[c] = id
    /\ \A c \in DOMAIN Seen.owners \ RefsOf(refs) : Seen'.owners[c] = Seen.owners[c]
    /\ Seen'.unsettleable <=> Seen.unsettleable \/ refs = NoRefs

\* A tombstone takes the file and the claims of its record out.
Erased(h) ==
    /\ DOMAIN Seen'.ids = DOMAIN Seen.ids \ {h}
    /\ \A k \in DOMAIN Seen.ids \ {h} : Seen'.ids[k] = Seen.ids[k]
    /\ DOMAIN Seen'.owners =
           {c \in DOMAIN Seen.owners : ~(h \in DOMAIN Seen.ids /\ Seen.owners[c] = Seen.ids[h])}
    /\ \A c \in DOMAIN Seen'.owners : Seen'.owners[c] = Seen.owners[c]
    /\ Seen'.unsettleable <=> Seen.unsettleable

LEMMA SeenStays ==
    ASSUME UNCHANGED <<log, snap>>
    PROVE  Seen' = Seen
  BY DEF Seen

LEMMA FilesTyped ==
    ASSUME Types
    PROVE  /\ log \in Seq(Lines(Given)) /\ snap \in Partial(Hashes, Given)
           /\ Seen \in ReplaysOf(Given)
  BY SeenTyped DEF Types, TypesOver, FileTypes

LEMMA CommitIs ==
    ASSUME Types, exec # Idle, exec.kind = "append"
    PROVE  /\ exec.job \in Appends(Given) /\ exec.job.hash \in Hashes
           /\ exec.job.refs \in (SUBSET Given) \cup {NoRefs} /\ RefsOf(exec.job.refs) \subseteq Given
           /\ exec.at \in {"add", "commit", "close"}
           /\ exec.at = "commit" => /\ exec.id \in Given
                                    /\ exec = [kind |-> "append", job |-> exec.job, at |-> "commit", id |-> exec.id]
<1>1. exec \in AppendExecs(Given)
  BY DEF Types, TypesOver, ExecTypes, EndExecs, ChunkExecs
<1>2. exec.job \in Appends(Given) /\ exec.at \in {"add", "commit", "close"}
  BY <1>1 DEF AppendExecs
<1>3. exec.job.hash \in Hashes /\ exec.job.refs \in (SUBSET Given) \cup {NoRefs}
  BY <1>2 DEF Appends
<1>4. RefsOf(exec.job.refs) \subseteq Given
  BY <1>3, RefsAre
<1>5. exec.at = "commit" => /\ exec.id \in Given
                            /\ exec = [kind |-> "append", job |-> exec.job, at |-> "commit", id |-> exec.id]
  BY <1>1 DEF AppendExecs
<1>6. QED
  BY <1>2, <1>3, <1>4, <1>5

LEMMA CommitSeen ==
    ASSUME Types, AppendCommit
    PROVE  \/ /\ Wrote(exec.job.hash, exec.id, exec.job.refs)
              /\ claimed' = IF exec.job.refs = NoRefs THEN claimed ELSE claimed \cup {exec.id}
              /\ promised' = promised \cup {exec.job.hash} /\ excused' = excused
           \/ /\ Seen' = Seen /\ claimed' = claimed /\ promised' = promised
              /\ excused' = excused \cup {exec.job.hash}
<1>1. PICK h, id, refs : h = exec.job.hash /\ id = exec.id /\ refs = exec.job.refs
  OBVIOUS
<1>2. h \in Hashes /\ id \in Given /\ refs \in (SUBSET Given) \cup {NoRefs}
  BY <1>1, CommitIs DEF AppendCommit, At
<1>3. log \in Seq(Lines(Given)) /\ Seen \in ReplaysOf(Given) /\ snap' = snap
  BY FilesTyped DEF AppendCommit
<1>4. PICK e : e = CommittedLine(h, id, refs)
  OBVIOUS
<1>5. e \in Lines(Given)
  BY <1>2, <1>4, LinesAre
<1>6. Append1(e) => Wrote(h, id, refs)
  <2>1. SUFFICES ASSUME Append1(e) PROVE Wrote(h, id, refs)
    OBVIOUS
  <2>2. Seen' = Replayed(Seen, e)
    BY <1>3, <1>5, <2>1, SeenAppend DEF Append1
  <2>3. PICK s, t : s = Seen /\ t = Seen'
    OBVIOUS
  <2>4. s \in ReplaysOf(Given) /\ t = Replayed(s, CommittedLine(h, id, refs))
    BY <1>3, <1>4, <2>2, <2>3
  <2>5. /\ DOMAIN t.ids = DOMAIN s.ids \cup {h} /\ t.ids[h] = id
        /\ \A k \in DOMAIN s.ids \ {h} : t.ids[k] = s.ids[k]
        /\ DOMAIN t.owners = DOMAIN s.owners \cup RefsOf(refs)
        /\ \A c \in RefsOf(refs) : t.owners[c] = id
        /\ \A c \in DOMAIN s.owners \ RefsOf(refs) : t.owners[c] = s.owners[c]
        /\ t.unsettleable <=> s.unsettleable \/ refs = NoRefs
    BY <1>2, <2>4, ReplayCommitted
  <2>6. QED
    BY <2>3, <2>5 DEF Wrote
<1>7. AppendFails => Seen' = Seen
  BY <1>3, SeenTorn DEF AppendFails
<1>8. QED
  BY <1>1, <1>4, <1>6, <1>7 DEF AppendCommit

LEMMA ErasedSeen ==
    ASSUME Types, NEW h \in Hashes, Append1(RemovedLine({h})), snap' = snap
    PROVE  Erased(h)
<1>1. log \in Seq(Lines(Given)) /\ Seen \in ReplaysOf(Given)
  BY FilesTyped
<1>2. PICK e : e = RemovedLine({h})
  OBVIOUS
<1>3. e \in Lines(Given) /\ log' = Append(log, e)
  BY <1>2, LinesAre DEF Append1
<1>4. Seen' = Replayed(Seen, e)
  BY <1>1, <1>3, SeenAppend
<1>5. PICK s, t : s = Seen /\ t = Seen'
  OBVIOUS
<1>6. s \in ReplaysOf(Given) /\ t = Replayed(s, RemovedLine({h}))
  BY <1>1, <1>2, <1>4, <1>5
<1>7. /\ DOMAIN t.ids = DOMAIN s.ids \ {h}
      /\ \A k \in DOMAIN s.ids \ {h} : t.ids[k] = s.ids[k]
      /\ DOMAIN t.owners = {c \in DOMAIN s.owners : ~(h \in DOMAIN s.ids /\ s.owners[c] = s.ids[h])}
      /\ \A c \in DOMAIN t.owners : t.owners[c] = s.owners[c]
      /\ t.unsettleable <=> s.unsettleable
  BY <1>6, ReplayRemoved
<1>8. QED
  BY <1>5, <1>7 DEF Erased

LEMMA RemovedSeen ==
    ASSUME Types, NEW j \in jobs, RemovedTake(j)
    PROVE  /\ j.hash \in Hashes
           /\ \/ /\ Erased(j.hash) /\ Forgotten(j.hash)
                 /\ session' = [session EXCEPT !.known = session.known \ {j.hash}]
                 /\ excused' = IF Stored(j.hash) = {} THEN excused ELSE excused \cup {j.hash}
              \/ Seen' = Seen /\ UNCHANGED <<session, claimed, promised, owed, excused>>
<1>1. j.hash \in Hashes
  BY DEF RemovedTake, Types, TypesOver, JobTypes, Appends, OtherJobs
<1>2. log \in Seq(Lines(Given)) /\ snap' = snap
  BY FilesTyped DEF RemovedTake
<1>3. Append1(RemovedLine({j.hash})) => Erased(j.hash)
  BY <1>1, <1>2, ErasedSeen
<1>4. AppendFails => Seen' = Seen
  BY <1>2, SeenTorn DEF AppendFails
<1>5. QED
  BY <1>1, <1>3, <1>4 DEF RemovedTake

LEMMA ForgetSeen ==
    ASSUME Types, NEW h \in Hashes, Forget(h)
    PROVE  \/ Erased(h) /\ Forgotten(h)
           \/ Seen' = Seen /\ UNCHANGED <<claimed, promised, owed>>
<1>1. log \in Seq(Lines(Given)) /\ snap' = snap
  BY FilesTyped DEF Forget
<1>2. Append1(RemovedLine({h})) => Erased(h)
  BY <1>1, ErasedSeen
<1>3. AppendFails => Seen' = Seen
  BY <1>1, SeenTorn DEF AppendFails
<1>4. QED
  BY <1>2, <1>3 DEF Forget

\* A cut log leaves the hashes of the snapshot and no claims.
LEMMA CutSeen ==
    ASSUME Types', log' \in {<<>>, <<BeginLine>>, Skeleton}
    PROVE  /\ Seen'.ids = snap' /\ DOMAIN Seen'.owners = {} /\ Seen'.unsettleable = FALSE
<1>1. Seen' = Unread(snap')
  BY SeenUnread
<1>2. QED
  BY <1>1, EmptyIs DEF Unread

LEMMA MetasTyped ==
    ASSUME Types
    PROVE  /\ DOMAIN metas \subseteq Given /\ DOMAIN chunks \subseteq Given
           /\ \A r \in DOMAIN metas : metas[r].hash \in Hashes /\ metas[r].refs \subseteq Given
           /\ \A c \in DOMAIN chunks : chunks[c] \in Hashes
           /\ DOMAIN metas \cap DOMAIN chunks = {} /\ nextId \notin DOMAIN metas \cup DOMAIN chunks
<1> DEFINE T == [hash : Hashes, refs : SUBSET Given]
<1> HIDE DEF T
<1>1. metas \in Partial(Given, T) /\ chunks \in Partial(Given, Hashes) /\ DOMAIN metas \cap DOMAIN chunks = {}
  BY DEF Types, TypesOver, VaultTypes, T
<1>2. DOMAIN metas \subseteq Given /\ \A r \in DOMAIN metas : metas[r] \in T
  BY <1>1, PartialIs
<1>3. DOMAIN chunks \subseteq Given /\ \A c \in DOMAIN chunks : chunks[c] \in Hashes
  BY <1>1, PartialIs
<1>4. \A r \in DOMAIN metas : metas[r].hash \in Hashes /\ metas[r].refs \subseteq Given
  BY <1>2 DEF T
<1>5. nextId \notin Given
  BY GivenIs
<1>6. QED
  BY <1>1, <1>2, <1>3, <1>4, <1>5

\* The record is stored under a new id, or not at all.
LEMMA AddedIs ==
    ASSUME Types, AppendAdd
    PROVE  \/ metas' = metas
           \/ /\ DOMAIN metas' = DOMAIN metas \cup {nextId} /\ nextId \notin DOMAIN metas
              /\ metas'[nextId] = [hash |-> exec.job.hash, refs |-> RefsOf(exec.job.refs)]
              /\ \A r \in DOMAIN metas : metas'[r] = metas[r]
<1>1. PICK new : new = [hash |-> exec.job.hash, refs |-> RefsOf(exec.job.refs)]
  OBVIOUS
<1>2. CASE metas' = Over(All({nextId}, new), metas)
  <2>1. DOMAIN All({nextId}, new) = {nextId} /\ All({nextId}, new)[nextId] = new
    BY AllIs
  <2>2. PICK one : one = All({nextId}, new)
    OBVIOUS
  <2>3. /\ DOMAIN Over(one, metas) = DOMAIN one \cup DOMAIN metas
        /\ \A x \in DOMAIN one : Over(one, metas)[x] = one[x]
        /\ \A x \in DOMAIN metas \ DOMAIN one : Over(one, metas)[x] = metas[x]
    BY OverIs
  <2>4. nextId \notin DOMAIN metas
    BY MetasTyped
  <2>5. QED
    BY <1>1, <1>2, <2>1, <2>2, <2>3, <2>4
<1>3. QED
  BY <1>1, <1>2 DEF AppendAdd

LEMMA DeletedIs ==
    ASSUME NEW r \in DOMAIN metas, Delete(r)
    PROVE  /\ DOMAIN metas' = DOMAIN metas \ {r} /\ \A q \in DOMAIN metas' : metas'[q] = metas[q]
           /\ DOMAIN chunks' = DOMAIN chunks \ metas[r].refs /\ \A c \in DOMAIN chunks' : chunks'[c] = chunks[c]
           /\ owed' = owed \cup {metas[r].hash}
<1>1. metas' = Without(metas, {r}) /\ chunks' = Without(chunks, metas[r].refs) /\ owed' = owed \cup {metas[r].hash}
  BY DEF Delete
<1>2. /\ DOMAIN Without(metas, {r}) = DOMAIN metas \ {r}
      /\ \A x \in DOMAIN metas \ {r} : Without(metas, {r})[x] = metas[x]
  BY WithoutIs
<1>3. PICK S : S = metas[r].refs
  OBVIOUS
<1>4. /\ DOMAIN Without(chunks, S) = DOMAIN chunks \ S
      /\ \A x \in DOMAIN chunks \ S : Without(chunks, S)[x] = chunks[x]
  BY WithoutIs
<1>5. QED
  BY <1>1, <1>2, <1>3, <1>4

-----------------------------------------------------------------------------
(* Which hashes are known.                                                   *)

\* The hashes of the files that are there, and of those still to be forgotten.
Backed == {h \in Hashes : Stored(h) # {} \/ h \in owed}

\* What is promised is known, what is known is there.
Faithful(S) == promised \subseteq S /\ S \subseteq Backed

\* The hashes the files say, those an import that begins has read, those of a
\* snapshot about to be written and those of the session.
Known ==
    /\ ~Recovering => Faithful(DOMAIN Seen.ids)
    /\ begin # Idle /\ begin.at # "load" => Faithful(DOMAIN begin.replay.ids)
    /\ At("end", "snapshot") => Faithful(DOMAIN exec.ids)
    /\ session # NoSession => Faithful(session.known)
    /\ At("append", "commit") => exec.job.hash \in Backed

Hashing == ~gap => Known

LEMMA BackedStays ==
    ASSUME UNCHANGED <<metas, owed>>
    PROVE  Backed' = Backed
  BY DEF Backed, Stored

LEMMA BackedAdd ==
    ASSUME Types, AppendAdd
    PROVE  /\ Backed \subseteq Backed'
           /\ metas' # metas => exec.job.hash \in Backed'
<1>1. owed' = owed /\ exec.job.hash \in Hashes
  BY CommitIs DEF AppendAdd, At
<1>2. CASE metas' = metas
  BY <1>1, <1>2, BackedStays
<1>3. CASE /\ DOMAIN metas' = DOMAIN metas \cup {nextId}
           /\ metas'[nextId] = [hash |-> exec.job.hash, refs |-> RefsOf(exec.job.refs)]
           /\ \A r \in DOMAIN metas : metas'[r] = metas[r]
  <2>1. \A h : Stored(h) \subseteq (Stored(h))'
    BY <1>3 DEF Stored
  <2>2. PICK h \in Hashes : h = exec.job.hash
    BY <1>1
  <2>3. nextId \in (Stored(h))'
    BY <1>3, <2>2 DEF Stored
  <2>4. h \in Backed'
    BY <2>3 DEF Backed
  <2>5. QED
    BY <1>1, <2>1, <2>2, <2>4 DEF Backed
<1>4. QED
  BY <1>2, <1>3, AddedIs

LEMMA BackedDelete ==
    ASSUME Types, NEW r \in DOMAIN metas, Delete(r)
    PROVE  Backed \subseteq Backed'
<1>1. /\ DOMAIN metas' = DOMAIN metas \ {r} /\ \A q \in DOMAIN metas' : metas'[q] = metas[q]
      /\ owed' = owed \cup {metas[r].hash}
  BY DeletedIs
<1>2. ASSUME NEW h \in Hashes, Stored(h) # {}, h \notin owed' PROVE (Stored(h))' # {}
  BY <1>1, <1>2 DEF Stored
<1>3. QED
  BY <1>1, <1>2 DEF Backed

LEMMA BackedForgotten ==
    ASSUME NEW h, Forgotten(h), metas' = metas
    PROVE  Backed \ {h} \subseteq Backed'
  BY DEF Forgotten, Backed, Stored

\* The log of an import that was made by a client without chunk lists.
LEMMA InitSeen ==
    ASSUME Init, NEW h \in Hashes, log = <<BeginLine, CommittedLine(h, 2, NoRefs)>>, nextId = 3
    PROVE  DOMAIN Seen.ids = {h} /\ DOMAIN Seen.owners = {} /\ Seen.unsettleable
<1>1. Types
  BY TypesInit
<1>2. Given = {1, 2} /\ snap = Empty
  BY DEF Given, Init
<1>3. PICK G \in SUBSET Ids : G = Given
  BY <1>1, GivenIs
<1>4. PICK e : e = CommittedLine(h, 2, NoRefs)
  OBVIOUS
<1>5. BeginLine \in Lines(G) /\ e \in Lines(G)
  BY <1>2, <1>3, <1>4 DEF Lines, BeginLine, CommittedLine
<1>6. <<BeginLine>> \in Seq(Lines(G)) /\ log = Append(<<BeginLine>>, e)
  BY <1>4, <1>5
<1>7. Load(snap, log) = Replayed(Load(snap, <<BeginLine>>), e)
  <2>1. PICK first \in Seq(Lines(G)) : first = <<BeginLine>>
    BY <1>6
  <2>2. Load(snap, Append(first, e)) = Replayed(Load(snap, first), e)
    BY <1>5, LoadAppend
  <2>3. QED
    BY <1>6, <2>1, <2>2
<1>8. Load(snap, <<BeginLine>>) = Unread(snap)
  <2>1. PICK none \in Seq(Lines(G)) : none = <<>>
    <3>1. <<>> \in Seq(Lines(G))
      OBVIOUS
    <3>2. QED
      BY <3>1, Zenon
  <2>2. <<BeginLine>> = Append(none, BeginLine)
    BY <2>1
  <2>3. Load(snap, Append(none, BeginLine)) = Replayed(Load(snap, none), BeginLine)
    BY <1>5, LoadAppend
  <2>4. BeginLine.kind \notin {"committed", "removed"}
    BY DEF BeginLine
  <2>5. Replayed(Load(snap, none), BeginLine) = Load(snap, none)
    BY <2>4, ReplayPlain
  <2>6. Load(snap, none) = Unread(snap)
    BY <2>1, LoadEmpty
  <2>7. QED
    BY <2>2, <2>3, <2>5, <2>6
<1>9. snap \in Partial(Hashes, G)
  BY <1>1, <1>3, FilesTyped
<1>10. Unread(snap) \in ReplaysOf(G) /\ Unread(snap).ids = snap /\ DOMAIN Unread(snap).owners = {}
  BY <1>9, UnreadIs
<1>11. PICK s, t : s = Unread(snap) /\ t = Seen
  OBVIOUS
<1>12. t = Replayed(s, CommittedLine(h, 2, NoRefs)) /\ s \in ReplaysOf(G)
  BY <1>4, <1>7, <1>8, <1>10, <1>11 DEF Seen
<1>13. 2 \in G /\ NoRefs \in (SUBSET G) \cup {NoRefs}
  BY <1>2, <1>3
<1>14. /\ DOMAIN t.ids = DOMAIN s.ids \cup {h}
       /\ DOMAIN t.owners = DOMAIN s.owners \cup RefsOf(NoRefs)
       /\ t.unsettleable
  BY <1>12, <1>13, ReplayCommitted
<1>15. QED
  BY <1>2, <1>10, <1>11, <1>14, EmptyIs DEF RefsOf

LEMMA HashingInit ==
    ASSUME Init
    PROVE  Hashing
<1>1. ~Recovering /\ begin = Idle /\ session = NoSession /\ exec = Idle
  BY DEF Init, Recovering, At
<1>2. Types
  BY TypesInit
<1>3. Faithful(DOMAIN Seen.ids)
  <2>1. CASE log = <<>> /\ metas = Empty /\ promised = {}
    <3>1. Seen = Unread(snap) /\ snap = Empty
      BY <2>1, LoadEmpty DEF Seen, Init
    <3>2. DOMAIN Seen.ids = {}
      BY <3>1, EmptyIs DEF Unread
    <3>3. QED
      BY <2>1, <3>2 DEF Faithful
  <2>2. ASSUME NEW h \in Hashes, log = <<BeginLine, CommittedLine(h, 2, NoRefs)>>,
               metas = All({2}, [hash |-> h, refs |-> {1}]), promised = {h}, nextId = 3
        PROVE  Faithful(DOMAIN Seen.ids)
    <3>1. DOMAIN Seen.ids = {h}
      BY <2>2, InitSeen
    <3>2. h \in Backed
      <4>1. DOMAIN metas = {2} /\ metas[2] = [hash |-> h, refs |-> {1}]
        BY <2>2 DEF All
      <4>2. 2 \in Stored(h)
        BY <4>1 DEF Stored
      <4>3. QED
        BY <4>2 DEF Backed
    <3>3. QED
      BY <2>2, <3>1, <3>2 DEF Faithful
  <2>3. QED
    BY <2>1, <2>2 DEF Init
<1>4. QED
  BY <1>1, <1>3 DEF Hashing, Known, At

\* While the log is cut and its snapshot not written, somebody is at work.
LEMMA CutIsSeen ==
    ASSUME Types, Types'
    PROVE  /\ BeginCut => Recovering'
           /\ exec' = [kind |-> "end", at |-> "snapshot", ids |-> Seen.ids] => Recovering'
           /\ \A i \in Ids : exec' = [kind |-> "append", job |-> exec.job, at |-> "commit", id |-> i]
                             /\ exec.job \in Appends(Given) => (At("append", "commit"))'
<1>1. PICK G \in SUBSET Ids : G = Given
  BY GivenIs
<1>2. /\ Partial(Hashes, G) \subseteq Partial(Hashes, Ids) /\ Partial(G, G) \subseteq Partial(Ids, Ids)
      /\ Named(G) \subseteq Owners
  BY WiderIs DEF Named, Owners
<1>3. Ledger(G) \subseteq Partial(Ids, Owners) /\ ReplaysOf(G) \subseteq Replays
  <2>1. Ledger(G) \subseteq Partial(Ids, Owners)
    BY <1>2, WiderIs DEF Ledger
  <2>2. QED
    BY <1>2, <2>1 DEF ReplaysOf, Replays
<1>4. ASSUME BeginCut PROVE Recovering'
  <2>1. begin \in [at : {"cut", "snapshot", "install"}, replay : ReplaysOf(G), ledger : Ledger(G)]
    BY <1>1, <1>4 DEF BeginCut, Types, TypesOver, BeginTypes
  <2>2. begin' \in [at : {"snapshot"}, replay : ReplaysOf(G), ledger : Ledger(G)]
    BY <1>4, <2>1 DEF BeginCut
  <2>3. begin' \in [at : {"snapshot"}, replay : Replays, ledger : Partial(Ids, Owners)]
    BY <1>3, <2>2
  <2>4. begin' # Idle /\ begin'.at = "snapshot"
    BY <2>3, IdleIsNone
  <2>5. QED
    BY <2>4 DEF Recovering
<1>5. ASSUME exec' = [kind |-> "end", at |-> "snapshot", ids |-> Seen.ids] PROVE Recovering'
  <2>1. Seen.ids \in Partial(Hashes, Ids)
    BY <1>1, <1>2, FilesTyped DEF ReplaysOf
  <2>2. exec' \in [kind : {"end"}, at : {"snapshot"}, ids : Partial(Hashes, Ids)]
    BY <1>5, <2>1
  <2>3. exec' # Idle /\ exec'.kind = "end" /\ exec'.at = "snapshot"
    BY <2>2, IdleIsNone
  <2>4. QED
    BY <2>3 DEF Recovering, At
<1>6. ASSUME NEW i \in Ids, exec' = [kind |-> "append", job |-> exec.job, at |-> "commit", id |-> i],
             exec.job \in Appends(Given)
      PROVE  (At("append", "commit"))'
  <2>1. (SUBSET G) \cup {NoRefs} \subseteq Refs
    BY DEF Refs
  <2>2. Appends(G) \subseteq Job
    BY <2>1 DEF Appends, Job
  <2>3. exec' \in [kind : {"append"}, job : Job, at : {"commit"}, id : Ids]
    BY <1>1, <1>6, <2>2
  <2>4. exec' # Idle /\ exec'.kind = "append" /\ exec'.at = "commit"
    BY <2>3, IdleIsNone
  <2>5. QED
    BY <2>4 DEF At
<1>7. QED
  BY <1>4, <1>5, <1>6

LEMMA HashingBegin ==
    ASSUME Types, Types', Order, Hashing, BeginStep
    PROVE  Hashing'
<1>1. /\ UNCHANGED <<metas, owed, promised, exec>> /\ Backed' = Backed
      /\ gap => gap'
  <2>1. UNCHANGED <<metas, owed, promised, exec>> /\ (gap => gap')
    BY DEF BeginStep, BeginCheck, BeginLoad, BeginCut, BeginSnapshot, BeginInstall, vault, history
  <2>2. QED
    BY <2>1, BackedStays
<1>2. SUFFICES ASSUME ~gap', Known PROVE Known'
  BY <1>1 DEF Hashing
<1>3. exec = Idle /\ exec' = Idle
  BY <1>1 DEF BeginStep, BeginCheck, BeginLoad, BeginCut, BeginSnapshot, BeginInstall, NoActiveSession,
              Order, Separate
<1>4. CASE BeginCheck
  <2>1. Seen' = Seen /\ session' = session /\ begin' = [at |-> "load"] /\ begin = Idle
    BY <1>4, SeenStays DEF BeginCheck, disk
  <2>2. QED
    BY <1>1, <1>2, <1>3, <2>1 DEF Known, Recovering, At, Faithful
<1>5. CASE BeginLoad
  <2>1. Seen' = Seen /\ session' = session /\ ~Recovering
    BY <1>3, <1>5, SeenStays DEF BeginLoad, Recovering, At
  <2>2. begin' # Idle => begin'.replay = Seen
    BY <1>5 DEF BeginLoad, Seen
  <2>3. QED
    BY <1>1, <1>2, <1>3, <2>1, <2>2 DEF Known, At, Faithful
<1>6. CASE BeginCut
  <2>1. session' = session /\ Recovering'
    BY <1>6, CutIsSeen DEF BeginCut
  <2>2. begin \in [at : {"cut", "snapshot", "install"}, replay : ReplaysOf(Given), ledger : Ledger(Given)]
    BY <1>6 DEF BeginCut, Types, TypesOver, BeginTypes
  <2>3. begin'.replay = begin.replay /\ begin.at # "load" /\ begin # Idle
    BY <1>6, <2>2 DEF BeginCut
  <2>4. QED
    BY <1>1, <1>2, <1>3, <2>1, <2>3 DEF Known, At, Faithful
<1>7. CASE BeginSnapshot
  <2>1. begin \in [at : {"cut", "snapshot", "install"}, replay : ReplaysOf(Given), ledger : Ledger(Given)]
    BY <1>7 DEF BeginSnapshot, Types, TypesOver, BeginTypes
  <2>2. snap' = begin.replay.ids /\ begin' = [begin EXCEPT !.at = "install"]
    BY <1>2, <1>7 DEF BeginSnapshot
  <2>3. begin'.replay = begin.replay /\ begin.at # "load" /\ begin # Idle /\ session' = session
    BY <1>7, <2>1, <2>2 DEF BeginSnapshot
  <2>4. log' = <<BeginLine>>
    BY <1>7 DEF BeginSnapshot, Order, CutLog
  <2>5. Seen'.ids = begin.replay.ids
    BY <2>2, <2>4, CutSeen
  <2>6. QED
    BY <1>1, <1>2, <1>3, <2>3, <2>5 DEF Known, At, Faithful
<1>8. CASE BeginInstall
  <2>1. Seen' = Seen /\ begin' = Idle /\ session'.known = DOMAIN begin.replay.ids /\ ~Recovering
        /\ begin # Idle /\ begin.at # "load"
    BY <1>3, <1>8, SeenStays DEF BeginInstall, disk, Recovering, At
  <2>2. QED
    BY <1>1, <1>2, <1>3, <2>1 DEF Known, At, Faithful
<1>9. QED
  BY <1>4, <1>5, <1>6, <1>7, <1>8 DEF BeginStep

LEMMA HashingGc ==
    ASSUME Types, Hashing, GcStep
    PROVE  Hashing'
<1>1. UNCHANGED <<log, snap, metas, owed, promised, gap, session, exec, begin>>
  BY DEF GcStep, GcCheck, GcSettle, GcLoad, GcDelete, GcSave, disk, vault, history
<1>2. Seen' = Seen /\ Backed' = Backed
  BY <1>1, SeenStays, BackedStays
<1>3. QED
  BY <1>1, <1>2 DEF Hashing, Known, Recovering, At, Faithful

LEMMA HashingWriter ==
    ASSUME Types, Types', Order, Hashing, WriterStep \/ NewStep
    PROVE  Hashing'
<1>1. begin = Idle /\ begin' = Idle /\ (gap => gap')
  <2>1. session # NoSession \/ exec # Idle
    BY DEF WriterStep, NewStep, AppendTake, RemovedTake, EndTake, AppendCommit, AppendClose, ChunkSave,
           EndEntry, EndCompact, EndSnapshot, AppendAdd, ChunkTake, Take, At
  <2>2. begin' = begin
    BY DEF WriterStep, NewStep, AppendTake, RemovedTake, EndTake, AppendCommit, AppendClose, ChunkSave,
           EndEntry, EndCompact, EndSnapshot, AppendAdd, ChunkTake
  <2>3. gap => gap'
    BY DEF WriterStep, NewStep, AppendTake, RemovedTake, EndTake, AppendCommit, AppendClose, ChunkSave,
           EndEntry, EndCompact, EndSnapshot, AppendAdd, ChunkTake, history
  <2>4. QED
    BY <2>1, <2>2, <2>3 DEF Order, Separate
<1>2. SUFFICES ASSUME ~gap', Known PROVE Known'
  BY <1>1 DEF Hashing
<1>3. ~At("end", "snapshot") => Faithful(DOMAIN Seen.ids)
  BY <1>1, <1>2 DEF Known, Recovering
<1>4. ASSUME NEW j \in jobs, AppendTake(j) PROVE Known'
  <2>1. UNCHANGED <<metas, owed, promised, session>> /\ Seen' = Seen /\ Backed' = Backed
        /\ exec = Idle /\ ~(At("append", "commit"))' /\ ~(At("end", "snapshot"))'
    BY <1>4, SeenStays, BackedStays DEF AppendTake, Take, disk, vault, history, At
  <2>2. QED
    BY <1>1, <1>2, <1>3, <2>1 DEF Known, At, Faithful
<1>5. ASSUME NEW j \in jobs, RemovedTake(j) PROVE Known'
  <2>1. metas' = metas /\ exec = Idle /\ exec' = Idle /\ session # NoSession
    BY <1>5 DEF RemovedTake, Take, vault
  <2>2. CASE Seen' = Seen /\ UNCHANGED <<session, claimed, promised, owed, excused>>
    <3>1. Backed' = Backed
      BY <2>1, <2>2, BackedStays
    <3>2. QED
      BY <1>1, <1>2, <1>3, <2>1, <2>2, <3>1 DEF Known, At, Faithful
  <2>3. CASE /\ Erased(j.hash) /\ Forgotten(j.hash)
             /\ session' = [session EXCEPT !.known = session.known \ {j.hash}]
    <3>1. Backed \ {j.hash} \subseteq Backed'
      BY <2>1, <2>3, BackedForgotten
    <3>2. session \in SessionsOf(Given)
      BY <2>1 DEF Types, TypesOver, SessionTypes
    <3>3. session'.known = session.known \ {j.hash}
      BY <2>3, <3>2 DEF SessionsOf
    <3>4. promised' = promised \ {j.hash} /\ DOMAIN Seen'.ids = DOMAIN Seen.ids \ {j.hash}
      BY <2>3 DEF Forgotten, Erased
    <3>5. QED
      BY <1>1, <1>2, <1>3, <2>1, <3>1, <3>3, <3>4 DEF Known, At, Faithful
  <2>4. QED
    BY <1>5, <2>2, <2>3, RemovedSeen
<1>6. ASSUME NEW j \in jobs, EndTake(j) PROVE Known'
  <2>1. UNCHANGED <<metas, owed, promised>> /\ Seen' = Seen /\ Backed' = Backed
        /\ exec = Idle /\ ~(At("append", "commit"))' /\ ~(At("end", "snapshot"))'
        /\ session' \in {session, NoSession}
    BY <1>6, SeenStays, BackedStays DEF EndTake, Take, disk, vault, history, At
  <2>2. QED
    BY <1>1, <1>2, <1>3, <2>1 DEF Known, At, Faithful
<1>7. CASE AppendCommit
  <2>1. /\ UNCHANGED <<metas, owed>> /\ Backed' = Backed /\ ~(At("append", "commit"))' /\ ~(At("end", "snapshot"))'
        /\ exec.job.hash \in Backed /\ At("append", "commit")
    <3>1. exec.kind = "append" /\ exec.at = "commit" /\ At("append", "commit")
      BY <1>7 DEF AppendCommit, At
    <3>2. exec' = [kind |-> "append", job |-> exec.job, at |-> "close", id |-> exec.id]
      BY <1>7, <3>1, CommitIs DEF AppendCommit, At
    <3>3. QED
      BY <1>2, <1>7, <3>1, <3>2, BackedStays DEF AppendCommit, vault, Known, At
  <2>2. Faithful(session.known) /\ session'.known = session.known \cup {exec.job.hash}
    <3>1. session # NoSession
      BY <1>7 DEF AppendCommit, At, Order, WriterHasSession
    <3>2. session \in SessionsOf(Given)
      BY <3>1 DEF Types, TypesOver, SessionTypes
    <3>3. QED
      BY <1>2, <1>7, <3>1, <3>2 DEF AppendCommit, SessionsOf, Known
  <2>3. Faithful(DOMAIN Seen.ids)
    BY <1>3, <2>1 DEF At
  <2>4. CASE Wrote(exec.job.hash, exec.id, exec.job.refs) /\ promised' = promised \cup {exec.job.hash}
    <3>1. DOMAIN Seen'.ids = DOMAIN Seen.ids \cup {exec.job.hash}
      BY <2>4 DEF Wrote
    <3>2. QED
      BY <1>1, <2>1, <2>2, <2>3, <2>4, <3>1 DEF Known, Faithful
  <2>5. CASE Seen' = Seen /\ promised' = promised
    BY <1>1, <2>1, <2>2, <2>3, <2>5 DEF Known, Faithful
  <2>6. QED
    BY <1>7, <2>4, <2>5, CommitSeen
<1>8. CASE AppendClose \/ ChunkSave
  <2>1. UNCHANGED <<metas, owed, promised, session>> /\ Seen' = Seen /\ Backed' = Backed
        /\ exec' = Idle /\ ~At("end", "snapshot")
    BY <1>8, SeenStays, BackedStays DEF AppendClose, ChunkSave, disk, vault, history, At
  <2>2. QED
    BY <1>1, <1>2, <1>3, <2>1 DEF Known, At, Faithful
<1>9. CASE EndEntry
  <2>1. UNCHANGED <<metas, owed, promised, session>> /\ Backed' = Backed /\ ~(At("append", "commit"))'
        /\ ~(At("end", "snapshot"))' /\ ~At("end", "snapshot") /\ log \in Seq(Lines(Given)) /\ snap' = snap
    BY <1>9, FilesTyped, BackedStays DEF EndEntry, vault, history, At
  <2>2. Append1(EndLine) => Seen' = Seen
    BY <2>1, SeenPlain DEF Append1
  <2>3. AppendFails => Seen' = Seen
    BY <2>1, SeenTorn DEF AppendFails
  <2>4. Seen' = Seen
    BY <1>9, <2>2, <2>3 DEF EndEntry
  <2>5. QED
    BY <1>1, <1>2, <1>3, <2>1, <2>4 DEF Known, At, Faithful
<1>10. CASE EndCompact
  <2>1. UNCHANGED <<metas, owed, promised, session>> /\ Backed' = Backed /\ ~At("end", "snapshot")
        /\ ~(At("append", "commit"))'
    BY <1>10, BackedStays DEF EndCompact, vault, history, At
  <2>2. CASE exec' = Idle /\ log' = log
    <3>1. Seen' = Seen
      BY <1>10, <2>2, SeenStays DEF EndCompact
    <3>2. QED
      BY <1>1, <1>2, <1>3, <2>1, <2>2, <3>1 DEF Known, At, Faithful
  <2>3. CASE exec' = [kind |-> "end", at |-> "snapshot", ids |-> Seen.ids]
    <3>1. Recovering' /\ exec'.ids = Seen.ids
      BY <2>3, CutIsSeen
    <3>2. QED
      BY <1>1, <1>2, <1>3, <2>1, <3>1 DEF Known, Faithful
  <2>4. QED
    BY <1>10, <2>2, <2>3 DEF EndCompact, Seen
<1>11. CASE EndSnapshot
  <2>1. UNCHANGED <<metas, owed, promised, session, log>> /\ Backed' = Backed /\ exec' = Idle
        /\ snap' = exec.ids /\ At("end", "snapshot")
    BY <1>2, <1>11, BackedStays DEF EndSnapshot, vault
  <2>2. log' = Skeleton
    BY <2>1 DEF Order, CutLog
  <2>3. Seen'.ids = exec.ids
    BY <2>1, <2>2, CutSeen
  <2>4. QED
    BY <1>1, <1>2, <2>1, <2>3 DEF Known, At, Faithful
<1>12. CASE AppendAdd
  <2>1. UNCHANGED <<owed, promised, session>> /\ Seen' = Seen /\ Backed \subseteq Backed'
        /\ ~At("end", "snapshot") /\ exec.kind = "append" /\ exec # Idle
    BY <1>12, SeenStays, BackedAdd DEF AppendAdd, disk, At
  <2>2. \/ exec' = [exec EXCEPT !.at = "close"]
        \/ /\ exec' = [kind |-> "append", job |-> exec.job, at |-> "commit", id |-> nextId]
           /\ metas' = Over(All({nextId}, [hash |-> exec.job.hash, refs |-> RefsOf(exec.job.refs)]), metas)
    BY <1>12 DEF AppendAdd
  <2>3. CASE exec' = [exec EXCEPT !.at = "close"]
    <3>1. exec'.kind = "append" /\ exec'.at = "close"
      <4>1. exec \in AppendExecs(Given)
        BY <2>1 DEF Types, TypesOver, ExecTypes, EndExecs, ChunkExecs
      <4>2. QED
        BY <2>3, <4>1 DEF AppendExecs
    <3>2. QED
      BY <1>1, <1>2, <1>3, <2>1, <3>1 DEF Known, At, Faithful
  <2>4. CASE /\ exec' = [kind |-> "append", job |-> exec.job, at |-> "commit", id |-> nextId]
             /\ metas' = Over(All({nextId}, [hash |-> exec.job.hash, refs |-> RefsOf(exec.job.refs)]), metas)
    <3>1. nextId \in DOMAIN metas' /\ nextId \notin DOMAIN metas
      <4>1. PICK one : one = All({nextId}, [hash |-> exec.job.hash, refs |-> RefsOf(exec.job.refs)])
        OBVIOUS
      <4>2. DOMAIN one = {nextId}
        BY <4>1, AllIs
      <4>3. DOMAIN Over(one, metas) = DOMAIN one \cup DOMAIN metas
        BY OverIs
      <4>4. QED
        BY <2>4, <4>1, <4>2, <4>3, MetasTyped
    <3>2. exec'.job.hash \in Backed' /\ exec'.kind = "append"
      BY <1>12, <2>4, <3>1, BackedAdd
    <3>3. QED
      BY <1>1, <1>2, <1>3, <2>1, <3>2 DEF Known, At, Faithful
  <2>5. QED
    BY <2>2, <2>3, <2>4
<1>13. ASSUME NEW j \in jobs, ChunkTake(j) PROVE Known'
  <2>1. UNCHANGED <<metas, owed, promised>> /\ Seen' = Seen /\ Backed' = Backed
        /\ exec = Idle /\ ~(At("append", "commit"))' /\ ~(At("end", "snapshot"))'
    BY <1>13, SeenStays, BackedStays DEF ChunkTake, Take, disk, vault, history, At
  <2>2. session # NoSession /\ session'.known = session.known
    <3>1. session # NoSession /\ session \in SessionsOf(Given)
      BY <1>13 DEF ChunkTake, Take, Types, TypesOver, SessionTypes
    <3>2. QED
      BY <1>13, <3>1 DEF ChunkTake, SessionsOf
  <2>3. QED
    BY <1>1, <1>2, <1>3, <2>1, <2>2 DEF Known, At, Faithful
<1>14. QED
  BY <1>4, <1>5, <1>6, <1>7, <1>8, <1>9, <1>10, <1>11, <1>12, <1>13 DEF WriterStep, NewStep

LEMMA HashingCalls ==
    ASSUME Alone, Types, Types', Order, Hashing, CallStep
    PROVE  Hashing'
<1>1. gap => gap'
  BY DEF CallStep, Submit, Refuse, Forget, Delete, ForceClose, DevReset, Crash, history
<1>2. SUFFICES ASSUME ~gap', Known PROVE Known'
  BY <1>1 DEF Hashing
<1>3. ASSUME UNCHANGED <<metas, owed, promised, exec, begin, log, snap>>, session' \in {session, NoSession}
      PROVE  Known'
  <2>1. Seen' = Seen /\ Backed' = Backed
    BY <1>3, SeenStays, BackedStays
  <2>2. QED
    BY <1>2, <1>3, <2>1 DEF Known, Recovering, At, Faithful
<1>4. ASSUME NEW j, Submit(j) PROVE Known'
  BY <1>3, <1>4 DEF Submit, disk, vault, history
<1>5. ASSUME NEW j \in jobs, Refuse(j) PROVE Known'
  BY <1>3, <1>5 DEF Refuse, disk, vault, history
<1>6. CASE ForceClose
  BY <1>3, <1>6 DEF ForceClose, disk, vault, history
<1>7. ASSUME NEW h \in Hashes, Forget(h) PROVE Known'
  <2>1. metas' = metas /\ UNCHANGED <<exec, begin, session>> /\ session = NoSession /\ exec = Idle /\ begin = Idle
    BY <1>7 DEF Forget, Quiet, Alone, NoActiveSession, vault
  <2>2. Faithful(DOMAIN Seen.ids)
    BY <1>2, <2>1 DEF Known, Recovering, At
  <2>3. CASE Seen' = Seen /\ UNCHANGED <<claimed, promised, owed>>
    <3>1. Backed' = Backed
      BY <2>1, <2>3, BackedStays
    <3>2. QED
      BY <2>1, <2>2, <2>3, <3>1 DEF Known, At, Faithful
  <2>4. CASE Erased(h) /\ Forgotten(h)
    <3>1. Backed \ {h} \subseteq Backed'
      BY <2>1, <2>4, BackedForgotten
    <3>2. promised' = promised \ {h} /\ DOMAIN Seen'.ids = DOMAIN Seen.ids \ {h}
      BY <2>4 DEF Forgotten, Erased
    <3>3. QED
      BY <2>1, <2>2, <3>1, <3>2 DEF Known, At, Faithful
  <2>5. QED
    BY <1>7, <2>3, <2>4, ForgetSeen
<1>8. ASSUME NEW r \in DOMAIN metas, Delete(r) PROVE Known'
  <2>1. UNCHANGED <<promised, exec, begin, session>> /\ Seen' = Seen /\ Backed \subseteq Backed'
    BY <1>8, SeenStays, BackedDelete DEF Delete, disk
  <2>2. QED
    BY <1>2, <2>1 DEF Known, Recovering, At, Faithful
<1>9. CASE DevReset
  <2>1. UNCHANGED <<exec, begin, session>> /\ session = NoSession /\ exec = Idle /\ begin = Idle
        /\ promised' = {} /\ snap' = Empty /\ log' = <<>>
    BY <1>9 DEF DevReset, NoActiveSession
  <2>2. DOMAIN Seen'.ids = {}
    BY <2>1, CutSeen, EmptyIs
  <2>3. QED
    BY <2>1, <2>2 DEF Known, At, Faithful
<1>10. CASE Crash
  <2>1. UNCHANGED <<metas, owed, promised, snap>> /\ session' = NoSession /\ exec' = Idle /\ begin' = Idle
    BY <1>10 DEF Crash, vault
  <2>2. Seen' = Seen /\ Backed' = Backed
    BY <1>10, <2>1, FilesTyped, SeenTorn, BackedStays DEF Crash
  <2>3. ~Recovering
    BY <1>2, <1>10 DEF Crash, Recovering
  <2>4. QED
    BY <1>2, <2>1, <2>2, <2>3 DEF Known, At, Faithful
<1>11. QED
  BY <1>4, <1>5, <1>6, <1>7, <1>8, <1>9, <1>10 DEF CallStep

LEMMA HashingNext ==
    ASSUME Alone, Types, Types', Order, Hashing, [Next]_vars
    PROVE  Hashing'
<1>1. CASE UNCHANGED vars
  <2>1. UNCHANGED <<log, snap, metas, owed, promised, gap, session, exec, begin>>
    BY <1>1 DEF vars, disk, vault, history
  <2>2. Seen' = Seen /\ Backed' = Backed
    BY <2>1, SeenStays, BackedStays
  <2>3. QED
    BY <2>1, <2>2 DEF Hashing, Known, Recovering, At, Faithful
<1>2. TypesOver(Given)
  BY DEF Types
<1>3. QED
  BY <1>1, <1>2, StepKinds, HashingBegin, HashingGc, HashingWriter, HashingCalls

\* What the files say at any moment.
FilesInv == Types /\ Order

LEMMA FilesNext ==
    ASSUME Alone, FilesInv, [Next]_vars
    PROVE  FilesInv'
<1>1. Types /\ Order /\ WriterHasSession
  BY DEF FilesInv, Order
<1>2. Types' /\ Order'
  BY <1>1, TypesNext, OrderNext
<1>3. QED
  BY <1>2 DEF FilesInv

LEMMA FilesHold ==
    ASSUME Alone
    PROVE  Spec => [](FilesInv /\ Hashing)
<1>1. Init => FilesInv /\ Hashing
  BY TypesInit, OrderInit, HashingInit DEF FilesInv
<1>2. FilesInv /\ Hashing /\ [Next]_vars => (FilesInv /\ Hashing)'
  <2>1. SUFFICES ASSUME FilesInv, Hashing, [Next]_vars PROVE FilesInv' /\ Hashing'
    OBVIOUS
  <2>2. FilesInv'
    BY <2>1, FilesNext
  <2>3. Types /\ Types' /\ Order
    BY <2>1, <2>2 DEF FilesInv
  <2>4. QED
    BY <2>1, <2>2, <2>3, HashingNext
<1>3. QED
  BY <1>1, <1>2, PTL DEF Spec

\* A file an import skips is there, or its deletion is still to be noted in the
\* log; only a log that was cut and whose snapshot was never written may say
\* otherwise.
THEOREM SkippedStored == ASSUME Alone PROVE Spec => []SkippedIsStored
<1>1. FilesInv /\ Hashing => SkippedIsStored
  BY DEF FilesInv, Hashing, Known, SkippedIsStored, Faithful, Backed, Seen
<1>2. QED
  BY <1>1, FilesHold, PTL

\* A hash whose line was forced to the disk is known to every later import
\* until it is forgotten.
THEOREM PromisesKept == ASSUME Alone PROVE Spec => []PromiseKept
<1>1. FilesInv /\ Hashing => PromiseKept
  BY DEF FilesInv, Hashing, Known, PromiseKept, Faithful, Seen
<1>2. QED
  BY <1>1, FilesHold, PTL

-----------------------------------------------------------------------------
(* No file twice.                                                            *)

Adding(h) == At("append", "add") /\ exec.job.hash = h
Committing(h) == At("append", "commit") /\ exec.job.hash = h

\* A hash with a record is known or becomes known, and a writer that adds one
\* found it unknown.
Once(h) ==
    /\ \A r, q \in Stored(h) : r = q
    /\ h \in owed => Stored(h) = {}
    /\ Stored(h) # {} \/ h \in owed => h \in promised \/ Committing(h)
    /\ Adding(h) => Stored(h) = {} /\ h \notin owed

Single == ~gap => \A h \in Hashes \ excused : Once(h)

LEMMA OnceStays ==
    ASSUME UNCHANGED <<metas, owed, promised>>, NEW h, Once(h),
           (Adding(h))' => Adding(h), Committing(h) => (Committing(h))'
    PROVE  (Once(h))'
  BY DEF Once, Stored

LEMMA SingleInit ==
    ASSUME Init
    PROVE  Single
<1>1. exec = Idle /\ owed = {}
  BY DEF Init
<1>2. CASE metas = Empty
  <2>1. \A h : Stored(h) = {}
    BY <1>2, EmptyIs DEF Stored
  <2>2. QED
    BY <1>1, <2>1 DEF Single, Once, Adding, At
<1>3. ASSUME NEW k \in Hashes, metas = All({2}, [hash |-> k, refs |-> {1}]), promised = {k} PROVE Single
  <2>1. DOMAIN metas = {2} /\ metas[2] = [hash |-> k, refs |-> {1}]
    BY <1>3 DEF All
  <2>2. \A h : Stored(h) \subseteq {2} /\ (Stored(h) # {} => h = k)
    BY <2>1 DEF Stored
  <2>3. QED
    BY <1>1, <1>3, <2>2 DEF Single, Once, Adding, At
<1>4. QED
  BY <1>2, <1>3 DEF Init

LEMMA SingleBegin ==
    ASSUME Single, BeginStep \/ GcStep
    PROVE  Single'
<1>1. UNCHANGED <<metas, owed, promised, excused, exec>> /\ (gap => gap')
  BY DEF BeginStep, BeginCheck, BeginLoad, BeginCut, BeginSnapshot, BeginInstall,
         GcStep, GcCheck, GcSettle, GcLoad, GcDelete, GcSave, vault, history
<1>2. ASSUME NEW h, Once(h) PROVE (Once(h))'
  BY <1>1, <1>2, OnceStays DEF Adding, Committing, At
<1>3. QED
  BY <1>1, <1>2 DEF Single

LEMMA SingleAdd ==
    ASSUME Types, Types', Single, AppendAdd
    PROVE  Single'
<1>1. gap' = gap /\ UNCHANGED <<owed, promised>> /\ At("append", "add")
  BY DEF AppendAdd
<1>2. exec.job \in Appends(Given) /\ exec \in AppendExecs(Given)
  BY <1>1, CommitIs DEF At, Types, TypesOver, ExecTypes, EndExecs, ChunkExecs
<1>3. SUFFICES ASSUME NEW h \in Hashes \ excused', h \notin excused => Once(h)
               PROVE  (Once(h))'
  BY <1>1 DEF Single
<1>4. h \notin excused /\ Once(h)
  BY <1>3 DEF AppendAdd
<1>5. CASE h # exec.job.hash
  <2>1. (Stored(h))' = Stored(h)
    <3>1. CASE metas' = metas
      BY <3>1 DEF Stored
    <3>2. CASE /\ DOMAIN metas' = DOMAIN metas \cup {nextId} /\ nextId \notin DOMAIN metas
               /\ metas'[nextId] = [hash |-> exec.job.hash, refs |-> RefsOf(exec.job.refs)]
               /\ \A r \in DOMAIN metas : metas'[r] = metas[r]
      BY <1>5, <3>2 DEF Stored
    <3>3. QED
      BY <3>1, <3>2, AddedIs
  <2>2. exec'.job = exec.job
    BY <1>2 DEF AppendAdd, AppendExecs
  <2>3. QED
    BY <1>1, <1>4, <1>5, <2>1, <2>2 DEF Once, Adding, Committing, At
<1>6. CASE h = exec.job.hash
  <2>1. Stored(h) = {} /\ h \notin owed
    BY <1>1, <1>4, <1>6 DEF Once, Adding
  <2>2. CASE metas' = metas /\ exec' = [exec EXCEPT !.at = "close"]
    <3>1. exec'.at = "close"
      BY <1>2, <2>2 DEF AppendExecs
    <3>2. (Stored(h))' = {} /\ ~(Adding(h))'
      BY <2>1, <2>2, <3>1 DEF Stored, Adding, At
    <3>3. QED
      BY <1>1, <2>1, <3>2 DEF Once
  <2>3. CASE /\ exec' = [kind |-> "append", job |-> exec.job, at |-> "commit", id |-> nextId]
             /\ nextId \in Ids
    <3>1. (At("append", "commit"))' /\ exec'.job = exec.job /\ exec'.at = "commit"
      BY <1>2, <2>3, CutIsSeen
    <3>2. (Committing(h))' /\ ~(Adding(h))'
      BY <1>6, <3>1 DEF Committing, Adding, At
    <3>3. (Stored(h))' \subseteq {nextId}
      <4>1. CASE metas' = metas
        BY <2>1, <4>1 DEF Stored
      <4>2. CASE /\ DOMAIN metas' = DOMAIN metas \cup {nextId} /\ nextId \notin DOMAIN metas
                 /\ \A r \in DOMAIN metas : metas'[r] = metas[r]
        BY <2>1, <4>2 DEF Stored
      <4>3. QED
        BY <4>1, <4>2, AddedIs
    <3>4. QED
      BY <1>1, <2>1, <3>2, <3>3 DEF Once
  <2>4. QED
    BY <1>3, <1>6, <2>2, <2>3 DEF AppendAdd
<1>7. QED
  BY <1>5, <1>6

LEMMA SingleWriter ==
    ASSUME Types, Types', Order, Hashing, Single, WriterStep \/ (\E j \in jobs : ChunkTake(j))
    PROVE  Single'
<1>1. metas' = metas
  BY DEF WriterStep, AppendTake, RemovedTake, EndTake, AppendCommit, AppendClose, ChunkSave,
         EndEntry, EndCompact, EndSnapshot, ChunkTake, vault
<1>2. gap => gap'
  BY DEF WriterStep, AppendTake, RemovedTake, EndTake, AppendCommit, AppendClose, ChunkSave,
         EndEntry, EndCompact, EndSnapshot, ChunkTake, history
<1>3. SUFFICES ASSUME ~gap', ~gap, NEW h \in Hashes \ excused', h \notin excused => Once(h)
               PROVE  (Once(h))'
  BY <1>2 DEF Single
<1>4. ASSUME NEW j \in jobs, AppendTake(j) PROVE (Once(h))'
  <2>1. UNCHANGED <<owed, promised, excused>> /\ exec = Idle /\ session # NoSession
    BY <1>4 DEF AppendTake, Take, history
  <2>2. Once(h) /\ ~Committing(h) /\ ~(Committing(h))'
    BY <1>3, <1>4, <2>1 DEF Committing, At, AppendTake
  <2>3. ASSUME (Adding(h))' PROVE Stored(h) = {} /\ h \notin owed
    <3>1. h \notin session.known
      BY <1>4, <2>3 DEF Adding, At, AppendTake
    <3>2. promised \subseteq session.known
      BY <1>3, <2>1 DEF Hashing, Known, Faithful
    <3>3. QED
      BY <2>2, <3>1, <3>2 DEF Once
  <2>4. QED
    BY <1>1, <2>1, <2>2, <2>3 DEF Once, Stored
<1>5. ASSUME NEW j \in jobs, RemovedTake(j) PROVE (Once(h))'
  <2>1. exec = Idle /\ exec' = Idle
    BY <1>5 DEF RemovedTake, Take
  <2>2. CASE UNCHANGED <<session, claimed, promised, owed, excused>>
    BY <1>1, <1>3, <2>1, <2>2, OnceStays DEF Adding, Committing, At
  <2>3. CASE /\ Forgotten(j.hash)
             /\ excused' = IF Stored(j.hash) = {} THEN excused ELSE excused \cup {j.hash}
    <3>1. Once(h)
      BY <1>3, <2>3
    <3>2. CASE h = j.hash
      <4>1. Stored(h) = {} /\ h \notin owed'
        BY <1>3, <2>3, <3>2 DEF Forgotten
      <4>2. QED
        BY <1>1, <2>1, <4>1 DEF Once, Stored, Adding, At
    <3>3. CASE h # j.hash
      BY <1>1, <2>1, <2>3, <3>1, <3>3 DEF Once, Stored, Adding, Committing, At, Forgotten
    <3>4. QED
      BY <3>2, <3>3
  <2>4. QED
    BY <1>5, <2>2, <2>3, RemovedSeen
<1>6. CASE AppendCommit
  <2>1. owed' = owed /\ At("append", "commit")
    BY <1>6 DEF AppendCommit
  <2>2. exec' = [kind |-> "append", job |-> exec.job, at |-> "close", id |-> exec.id]
    BY <1>6, <2>1, CommitIs DEF AppendCommit, At
  <2>3. ~(Adding(h))' /\ ~Adding(h)
    BY <2>1, <2>2 DEF Adding, At
  <2>4. CASE promised' = promised \cup {exec.job.hash} /\ excused' = excused
    BY <1>1, <1>3, <2>1, <2>3, <2>4 DEF Once, Stored, Committing
  <2>5. CASE promised' = promised /\ excused' = excused \cup {exec.job.hash}
    BY <1>1, <1>3, <2>1, <2>3, <2>5 DEF Once, Stored, Committing
  <2>6. QED
    BY <1>6, <2>4, <2>5, CommitSeen
<1>7. ASSUME UNCHANGED <<owed, promised, excused>>, ~At("append", "commit"), ~(At("append", "add"))'
      PROVE  (Once(h))'
  BY <1>1, <1>3, <1>7, OnceStays DEF Adding, Committing
<1>8. ASSUME NEW j \in jobs, EndTake(j) PROVE (Once(h))'
  BY <1>7, <1>8 DEF EndTake, Take, history, At
<1>9. ASSUME NEW j \in jobs, ChunkTake(j) PROVE (Once(h))'
  BY <1>7, <1>9 DEF ChunkTake, Take, history, At
<1>10. CASE AppendClose \/ ChunkSave
  BY <1>7, <1>10 DEF AppendClose, ChunkSave, history, At
<1>11. CASE EndEntry
  BY <1>7, <1>11 DEF EndEntry, history, At
<1>12. CASE EndCompact
  BY <1>7, <1>12 DEF EndCompact, history, At
<1>13. CASE EndSnapshot
  BY <1>7, <1>13 DEF EndSnapshot, history, At
<1>14. QED
  BY <1>4, <1>5, <1>6, <1>8, <1>9, <1>10, <1>11, <1>12, <1>13 DEF WriterStep

LEMMA SingleCalls ==
    ASSUME Alone, Types, Order, Single, CallStep
    PROVE  Single'
<1>1. gap => gap'
  BY DEF CallStep, Submit, Refuse, Forget, Delete, ForceClose, DevReset, Crash, history
<1>2. SUFFICES ASSUME ~gap, NEW h \in Hashes \ excused', h \notin excused => Once(h)
               PROVE  (Once(h))'
  BY <1>1 DEF Single
<1>3. ASSUME UNCHANGED <<metas, owed, promised, excused, exec>> PROVE (Once(h))'
  BY <1>2, <1>3, OnceStays DEF Adding, Committing, At
<1>4. ASSUME NEW j, Submit(j) PROVE (Once(h))'
  BY <1>3, <1>4 DEF Submit, vault, history
<1>5. ASSUME NEW j \in jobs, Refuse(j) PROVE (Once(h))'
  BY <1>3, <1>5 DEF Refuse, vault, history
<1>6. CASE ForceClose
  BY <1>3, <1>6 DEF ForceClose, vault, history
<1>7. ASSUME NEW k \in Hashes, Forget(k) PROVE (Once(h))'
  <2>1. metas' = metas /\ excused' = excused /\ exec = Idle /\ exec' = Idle /\ k \in owed /\ Once(h)
    BY <1>2, <1>7 DEF Forget, NoActiveSession, vault
  <2>2. CASE UNCHANGED <<claimed, promised, owed>>
    BY <1>3, <2>1, <2>2
  <2>3. CASE Forgotten(k)
    <3>1. CASE h = k
      BY <2>1, <2>3, <3>1 DEF Once, Stored, Adding, At, Forgotten
    <3>2. CASE h # k
      BY <2>1, <2>3, <3>2 DEF Once, Stored, Adding, Committing, At, Forgotten
    <3>3. QED
      BY <3>1, <3>2
  <2>4. QED
    BY <1>7, <2>2, <2>3 DEF Forget
<1>8. ASSUME NEW r \in DOMAIN metas, Delete(r) PROVE (Once(h))'
  <2>1. UNCHANGED <<promised, excused, exec>> /\ Once(h)
    BY <1>2, <1>8 DEF Delete
  <2>2. /\ DOMAIN metas' = DOMAIN metas \ {r} /\ \A q \in DOMAIN metas' : metas'[q] = metas[q]
        /\ owed' = owed \cup {metas[r].hash}
    BY <1>8, DeletedIs
  <2>3. (Stored(h))' = Stored(h) \ {r} /\ (h = metas[r].hash => r \in Stored(h))
    BY <2>2 DEF Stored
  <2>4. (Adding(h))' = Adding(h) /\ (Committing(h))' = Committing(h)
    BY <2>1 DEF Adding, Committing, At
  <2>5. CASE h = metas[r].hash
    <3>1. Stored(h) = {r}
      BY <2>1, <2>3, <2>5 DEF Once
    <3>2. (Stored(h))' = {} /\ ~Adding(h) /\ (h \in promised \/ Committing(h))
      BY <2>1, <2>3, <3>1 DEF Once
    <3>3. QED
      BY <2>1, <2>4, <3>2 DEF Once
  <2>6. CASE h # metas[r].hash
    BY <2>1, <2>2, <2>3, <2>4, <2>6 DEF Once
  <2>7. QED
    BY <2>5, <2>6
<1>9. CASE DevReset
  <2>1. UNCHANGED <<metas, owed>> /\ exec = Idle /\ exec' = Idle /\ h \notin promised /\ Once(h)
    BY <1>2, <1>9 DEF DevReset, NoActiveSession, vault
  <2>2. Stored(h) = {} /\ h \notin owed
    BY <2>1 DEF Once, Committing, At
  <2>3. QED
    BY <2>1, <2>2 DEF Once, Stored, Adding, At
<1>10. CASE Crash
  <2>1. UNCHANGED <<metas, owed, promised>> /\ exec' = Idle /\ Once(h) /\ ~Committing(h)
    BY <1>2, <1>10 DEF Crash, vault, Committing
  <2>2. QED
    BY <2>1, OnceStays DEF Adding, At
<1>11. QED
  BY <1>4, <1>5, <1>6, <1>7, <1>8, <1>9, <1>10 DEF CallStep

LEMMA SingleNext ==
    ASSUME Alone, FilesInv, FilesInv', Hashing, Single, [Next]_vars
    PROVE  Single'
<1>1. Types /\ Types' /\ Order /\ TypesOver(Given)
  BY DEF FilesInv, Types
<1>2. CASE UNCHANGED vars
  <2>1. UNCHANGED <<metas, owed, promised, gap, excused, exec>>
    BY <1>2 DEF vars, vault, history
  <2>2. ASSUME NEW h, Once(h) PROVE (Once(h))'
    BY <2>1, <2>2, OnceStays DEF Adding, Committing, At
  <2>3. QED
    BY <2>1, <2>2 DEF Single
<1>3. NewStep => AppendAdd \/ \E j \in jobs : ChunkTake(j)
  BY DEF NewStep
<1>4. QED
  BY <1>1, <1>2, <1>3, StepKinds, SingleBegin, SingleAdd, SingleWriter, SingleCalls

\* A file is stored twice only if an outcome was lost to a crash or a fault, a
\* late tombstone forgot the new record, or the snapshot is missing.
THEOREM NeverTwice == ASSUME Alone PROVE Spec => []StoredOnce
<1>1. Init => Single
  BY SingleInit
<1>2. FilesInv /\ FilesInv' /\ Hashing /\ Single /\ [Next]_vars => Single'
  BY SingleNext
<1>3. Single => StoredOnce
  <2>1. SUFFICES ASSUME Single, ~gap, NEW h \in Hashes \ excused PROVE Cardinality(Stored(h)) <= 1
    BY DEF StoredOnce
  <2>2. \A r, q \in Stored(h) : r = q
    BY <2>1 DEF Single, Once
  <2>3. Stored(h) = {} \/ \E r : Stored(h) = {r}
    BY <2>2
  <2>4. Stored(h) = {} => Cardinality(Stored(h)) = 0
    BY FS_EmptySet
  <2>5. ASSUME NEW r, Stored(h) = {r} PROVE Cardinality(Stored(h)) = 1
    BY <2>5, FS_Singleton
  <2>6. Cardinality(Stored(h)) = 0 \/ Cardinality(Stored(h)) = 1
    BY <2>3, <2>4, <2>5
  <2>7. QED
    <3>1. PICK n : n = Cardinality(Stored(h))
      OBVIOUS
    <3>2. n <= 1
      BY <2>6, <3>1
    <3>3. QED
      BY <3>1, <3>2
<1>4. Spec => [](FilesInv /\ Hashing)
  BY FilesHold
<1>5. QED
  BY <1>1, <1>2, <1>3, <1>4, PTL DEF Spec

-----------------------------------------------------------------------------
(* A chunk belongs to one file, wherever it is mentioned.                    *)

TiedByChunk(c, h) == c \in DOMAIN chunks /\ chunks[c] = h
TiedByRecord(c, h) == \E r \in DOMAIN metas : c \in metas[r].refs /\ metas[r].hash = h
TiedByJob(c, h) == \E j \in jobs : j.kind = "append" /\ j.hash = h /\ c \in RefsOf(j.refs)
TiedByWriter(c, h) ==
    exec # Idle /\ exec.kind = "append" /\ exec.job.hash = h /\ c \in RefsOf(exec.job.refs)
TiedByLog(c, h) ==
    h \in DOMAIN Seen.ids /\ c \in DOMAIN Seen.owners /\ Seen.owners[c] = Seen.ids[h]
Tied(c, h) ==
    \/ TiedByChunk(c, h) \/ TiedByRecord(c, h) \/ TiedByJob(c, h)
    \/ TiedByWriter(c, h) \/ TiedByLog(c, h)

OneTie == \A c \in Ids : \A h, k \in Hashes : Tied(c, h) /\ Tied(c, k) => h = k

\* The id of a record that is about to be noted is new to log and history.
NewId ==
    At("append", "commit") =>
      /\ \A h \in DOMAIN Seen.ids : Seen.ids[h] # exec.id
      /\ \A c \in DOMAIN Seen.owners : Seen.owners[c] # exec.id
      /\ exec.id \notin claimed
      /\ exec.id \in DOMAIN metas =>
           metas[exec.id] = [hash |-> exec.job.hash, refs |-> RefsOf(exec.job.refs)]

LEMMA ChunksShrink ==
    ASSUME BeginStep \/ GcStep \/ WriterStep \/ CallStep \/ AppendAdd
    PROVE  \A c \in DOMAIN chunks' : c \in DOMAIN chunks /\ chunks'[c] = chunks[c]
<1>1. CASE GcDelete
  <2>1. PICK S : S = Garbage(gc.ledger)
    OBVIOUS
  <2>2. DOMAIN Without(chunks, S) = DOMAIN chunks \ S /\ \A c \in DOMAIN chunks \ S : Without(chunks, S)[c] = chunks[c]
    BY WithoutIs
  <2>3. chunks' = chunks \/ chunks' = Without(chunks, S)
    BY <1>1, <2>1 DEF GcDelete
  <2>4. QED
    BY <2>2, <2>3
<1>2. ASSUME NEW r \in DOMAIN metas, Delete(r)
      PROVE  \A c \in DOMAIN chunks' : c \in DOMAIN chunks /\ chunks'[c] = chunks[c]
  BY <1>2, DeletedIs
<1>3. CASE chunks' = chunks
  BY <1>3
<1>4. BeginStep => chunks' = chunks
  BY DEF BeginStep, BeginCheck, BeginLoad, BeginCut, BeginSnapshot, BeginInstall, vault
<1>5. GcStep => chunks' = chunks \/ GcDelete
  BY DEF GcStep, GcCheck, GcSettle, GcLoad, GcSave, vault
<1>6. WriterStep => chunks' = chunks
  BY DEF WriterStep, AppendTake, RemovedTake, EndTake, AppendCommit, AppendClose, ChunkSave,
         EndEntry, EndCompact, EndSnapshot, vault
<1>7. CallStep => chunks' = chunks \/ \E r \in DOMAIN metas : Delete(r)
  BY DEF CallStep, Submit, Refuse, Forget, ForceClose, DevReset, Crash, vault
<1>8. AppendAdd => chunks' = chunks
  BY DEF AppendAdd
<1>9. QED
  BY <1>1, <1>2, <1>3, <1>4, <1>5, <1>6, <1>7, <1>8

LEMMA RecordsShrink ==
    ASSUME BeginStep \/ GcStep \/ WriterStep \/ CallStep \/ \E j \in jobs : ChunkTake(j)
    PROVE  \A r \in DOMAIN metas' : r \in DOMAIN metas /\ metas'[r] = metas[r]
<1>1. ASSUME NEW r \in DOMAIN metas, Delete(r)
      PROVE  \A q \in DOMAIN metas' : q \in DOMAIN metas /\ metas'[q] = metas[q]
  BY <1>1, DeletedIs
<1>2. BeginStep => metas' = metas
  BY DEF BeginStep, BeginCheck, BeginLoad, BeginCut, BeginSnapshot, BeginInstall, vault
<1>3. GcStep => metas' = metas
  BY DEF GcStep, GcCheck, GcSettle, GcLoad, GcDelete, GcSave, vault
<1>4. WriterStep => metas' = metas
  BY DEF WriterStep, AppendTake, RemovedTake, EndTake, AppendCommit, AppendClose, ChunkSave,
         EndEntry, EndCompact, EndSnapshot, vault
<1>5. CallStep => metas' = metas \/ \E r \in DOMAIN metas : Delete(r)
  BY DEF CallStep, Submit, Refuse, Forget, ForceClose, DevReset, Crash, vault
<1>6. (\E j \in jobs : ChunkTake(j)) => metas' = metas
  BY DEF ChunkTake
<1>7. QED
  BY <1>1, <1>2, <1>3, <1>4, <1>5, <1>6

\* A command is executed for its own file; a writer that works goes on with it.
LEMMA WriterKeeps ==
    ASSUME Types, BeginStep \/ GcStep \/ WriterStep \/ CallStep \/ NewStep,
           exec' # Idle, exec'.kind = "append"
    PROVE  \/ \E j \in jobs : j.kind = "append" /\ exec'.job = j /\ AppendTake(j)
           \/ exec # Idle /\ exec.kind = "append" /\ exec'.job = exec.job
<1>1. CASE exec' = exec
  BY <1>1
<1>2. ASSUME NEW j \in jobs, AppendTake(j)
      PROVE  j.kind = "append" /\ exec'.job = j
  BY <1>2 DEF AppendTake
<1>3. CASE AppendCommit \/ AppendAdd
  <2>1. exec \in AppendExecs(Given) /\ exec # Idle /\ exec.kind = "append"
    BY <1>3 DEF AppendCommit, AppendAdd, At, Types, TypesOver, ExecTypes, EndExecs, ChunkExecs
  <2>2. exec'.job = exec.job
    BY <1>3, <2>1 DEF AppendCommit, AppendAdd, AppendExecs
  <2>3. QED
    BY <2>1, <2>2
<1>4. BeginStep => exec' = exec
  BY DEF BeginStep, BeginCheck, BeginLoad, BeginCut, BeginSnapshot, BeginInstall
<1>5. GcStep => exec' = exec
  BY DEF GcStep, GcCheck, GcSettle, GcLoad, GcDelete, GcSave
<1>6. CallStep => exec' = exec
  BY DEF CallStep, Submit, Refuse, Forget, Delete, ForceClose, DevReset, Crash
<1>7. ASSUME NEW j \in jobs, RemovedTake(j) \/ EndTake(j) \/ ChunkTake(j) PROVE exec' = exec
  BY <1>7 DEF RemovedTake, EndTake, ChunkTake
<1>8. ~AppendClose /\ ~ChunkSave /\ ~EndSnapshot /\ ~EndEntry /\ ~EndCompact
  BY DEF AppendClose, ChunkSave, EndSnapshot, EndEntry, EndCompact
<1>9. QED
  BY <1>1, <1>2, <1>3, <1>4, <1>5, <1>6, <1>7, <1>8 DEF WriterStep, NewStep

\* Outside of a committed line, a step leaves the conclusions of a load, cuts
\* them off or erases one file.
LEMMA SeenStep ==
    ASSUME Types, Types', Order, BeginStep \/ GcStep \/ WriterStep \/ CallStep \/ NewStep
    PROVE  \/ Seen' = Seen
           \/ DOMAIN Seen'.owners = {} /\ Seen'.unsettleable = FALSE
           \/ \E h \in Hashes : Erased(h) /\ Forgotten(h)
           \/ AppendCommit
<1>1. CASE UNCHANGED <<log, snap>>
  BY <1>1, SeenStays
<1>2. CASE log' \in {<<>>, <<BeginLine>>, Skeleton}
  BY <1>2, CutSeen
<1>3. CASE BeginStep
  <2>1. CASE BeginSnapshot
    BY <1>2, <2>1 DEF BeginSnapshot, Order, CutLog
  <2>2. CASE BeginCut
    BY <1>2, <2>2 DEF BeginCut
  <2>3. CASE BeginCheck \/ BeginLoad \/ BeginInstall
    BY <1>1, <2>3 DEF BeginCheck, BeginLoad, BeginInstall, disk
  <2>4. QED
    BY <1>3, <2>1, <2>2, <2>3 DEF BeginStep
<1>4. CASE GcStep
  BY <1>1, <1>4 DEF GcStep, GcCheck, GcSettle, GcLoad, GcDelete, GcSave, disk
<1>5. CASE WriterStep
  <2>1. ASSUME NEW j \in jobs, RemovedTake(j) PROVE Seen' = Seen \/ \E h \in Hashes : Erased(h) /\ Forgotten(h)
    BY <2>1, RemovedSeen
  <2>2. ASSUME NEW j \in jobs, AppendTake(j) \/ EndTake(j) PROVE UNCHANGED <<log, snap>>
    BY <2>2 DEF AppendTake, EndTake, disk
  <2>3. CASE AppendClose \/ ChunkSave
    BY <1>1, <2>3 DEF AppendClose, ChunkSave
  <2>4. CASE EndEntry
    <3>1. log \in Seq(Lines(Given)) /\ snap' = snap
      BY <2>4, FilesTyped DEF EndEntry
    <3>2. Append1(EndLine) => Seen' = Seen
      BY <3>1, SeenPlain DEF Append1
    <3>3. AppendFails => Seen' = Seen
      BY <3>1, SeenTorn DEF AppendFails
    <3>4. QED
      BY <2>4, <3>2, <3>3 DEF EndEntry
  <2>5. CASE EndCompact
    BY <1>1, <1>2, <2>5 DEF EndCompact
  <2>6. CASE EndSnapshot
    BY <1>2, <2>6 DEF EndSnapshot, Order, CutLog
  <2>7. QED
    BY <1>1, <1>5, <2>1, <2>2, <2>3, <2>4, <2>5, <2>6 DEF WriterStep
<1>6. CASE CallStep
  <2>1. ASSUME NEW h \in Hashes, Forget(h) PROVE Seen' = Seen \/ (Erased(h) /\ Forgotten(h))
    BY <2>1, ForgetSeen
  <2>2. ASSUME NEW j, Submit(j) \/ Refuse(j) \/ Delete(j) \/ ForceClose PROVE UNCHANGED <<log, snap>>
    BY <2>2 DEF Submit, Refuse, Delete, ForceClose, disk
  <2>3. CASE DevReset
    BY <1>2, <2>3 DEF DevReset
  <2>4. CASE Crash
    BY <2>4, FilesTyped, SeenTorn DEF Crash
  <2>5. QED
    BY <1>1, <1>6, <2>1, <2>2, <2>3, <2>4 DEF CallStep
<1>7. CASE NewStep
  BY <1>1, <1>7 DEF NewStep, AppendAdd, ChunkTake, disk
<1>8. QED
  BY <1>3, <1>4, <1>5, <1>6, <1>7

LEMMA LogTies ==
    ASSUME Types, Types', Order, NewId, BeginStep \/ GcStep \/ WriterStep \/ CallStep \/ NewStep,
           NEW c, NEW h, (TiedByLog(c, h))'
    PROVE  TiedByLog(c, h) \/ TiedByWriter(c, h)
<1>1. CASE Seen' = Seen
  BY <1>1 DEF TiedByLog
<1>2. CASE DOMAIN Seen'.owners = {}
  BY <1>2 DEF TiedByLog
<1>3. ASSUME NEW k \in Hashes, Erased(k) PROVE TiedByLog(c, h)
  BY <1>3 DEF Erased, TiedByLog
<1>4. CASE AppendCommit
  <2>1. PICK k, id, refs : k = exec.job.hash /\ id = exec.id /\ refs = exec.job.refs
    OBVIOUS
  <2>2. At("append", "commit") /\ exec # Idle /\ exec.kind = "append"
    BY <1>4 DEF AppendCommit, At
  <2>3. /\ \A g \in DOMAIN Seen.ids : Seen.ids[g] # id
        /\ \A d \in DOMAIN Seen.owners : Seen.owners[d] # id
    BY <2>1, <2>2 DEF NewId
  <2>4. CASE Wrote(k, id, refs)
    <3>1. CASE c \in RefsOf(refs)
      <4>1. Seen'.ids[h] = id
        BY <2>4, <3>1 DEF Wrote, TiedByLog
      <4>2. h = k
        BY <2>3, <2>4, <4>1 DEF Wrote, TiedByLog
      <4>3. QED
        BY <2>1, <2>2, <3>1, <4>2 DEF TiedByWriter
    <3>2. CASE c \notin RefsOf(refs)
      <4>1. c \in DOMAIN Seen.owners /\ Seen'.owners[c] = Seen.owners[c]
        BY <2>4, <3>2 DEF Wrote, TiedByLog
      <4>2. h # k
        BY <2>3, <2>4, <4>1 DEF Wrote, TiedByLog
      <4>3. QED
        BY <2>4, <4>1, <4>2 DEF Wrote, TiedByLog
    <3>3. QED
      BY <3>1, <3>2
  <2>5. QED
    BY <1>1, <1>4, <2>1, <2>4, CommitSeen
<1>5. QED
  BY <1>1, <1>2, <1>3, <1>4, SeenStep

LEMMA JobTies ==
    ASSUME TypesOver(Given), BeginStep \/ GcStep \/ WriterStep \/ CallStep \/ NewStep,
           NEW j \in jobs', j \notin jobs
    PROVE  Asked(j)
<1>1. BeginStep => jobs' = jobs
  BY DEF BeginStep, BeginCheck, BeginLoad, BeginCut, BeginSnapshot, BeginInstall
<1>2. GcStep => jobs' = jobs
  BY DEF GcStep, GcCheck, GcSettle, GcLoad, GcDelete, GcSave
<1>3. WriterStep => jobs' \subseteq jobs
  BY DEF WriterStep, Take, AppendTake, RemovedTake, EndTake, AppendCommit, AppendClose, ChunkSave,
         EndEntry, EndCompact, EndSnapshot
<1>4. NewStep => jobs' \subseteq jobs
  BY DEF NewStep, AppendAdd, ChunkTake, Take
<1>5. ASSUME NEW i, Asked(i), Submit(i) PROVE Asked(j)
  <2>1. i = j
    BY <1>5 DEF Submit
  <2>2. QED
    BY <1>5, <2>1
<1>6. ASSUME NEW i, Refuse(i) \/ Forget(i) \/ Delete(i) \/ ForceClose \/ DevReset \/ Crash PROVE FALSE
  BY <1>6 DEF Refuse, Forget, Delete, ForceClose, DevReset, Crash
<1>7. QED
  BY <1>1, <1>2, <1>3, <1>4, <1>5, <1>6 DEF CallStep

LEMMA TieNext ==
    ASSUME Types, Types', Order, NewId, OneTie, Next
    PROVE  OneTie'
<1>0. BeginStep \/ GcStep \/ WriterStep \/ CallStep \/ NewStep
  BY StepKinds DEF Types
<1>1. ASSUME NEW c, NEW h, (TiedByJob(c, h))' PROVE Tied(c, h)
  <2>1. PICK j \in jobs' : j.kind = "append" /\ j.hash = h /\ c \in RefsOf(j.refs)
    BY <1>1 DEF TiedByJob
  <2>2. CASE j \in jobs
    BY <2>1, <2>2 DEF Tied, TiedByJob
  <2>3. CASE j \notin jobs
    BY <1>0, <2>1, <2>3, JobTies DEF Types, Asked, Tied, TiedByChunk
  <2>4. QED
    BY <2>2, <2>3
<1>2. ASSUME NEW c, NEW h, (TiedByWriter(c, h))' PROVE Tied(c, h)
  <2>1. exec' # Idle /\ exec'.kind = "append" /\ exec'.job.hash = h /\ c \in RefsOf(exec'.job.refs)
    BY <1>2 DEF TiedByWriter
  <2>2. CASE \E j \in jobs : j.kind = "append" /\ exec'.job = j
    BY <2>1, <2>2 DEF Tied, TiedByJob
  <2>3. CASE exec # Idle /\ exec.kind = "append" /\ exec'.job = exec.job
    BY <2>1, <2>3 DEF Tied, TiedByWriter
  <2>4. QED
    BY <1>0, <2>1, <2>2, <2>3, WriterKeeps
<1>3. ASSUME NEW c, NEW h, (TiedByLog(c, h))' PROVE Tied(c, h)
  BY <1>0, <1>3, LogTies DEF Tied
<1>4. ASSUME NEW c, NEW h, (TiedByRecord(c, h))' PROVE Tied(c, h)
  <2>1. PICK r \in DOMAIN metas' : c \in metas'[r].refs /\ metas'[r].hash = h
    BY <1>4 DEF TiedByRecord
  <2>2. CASE r \in DOMAIN metas /\ metas'[r] = metas[r]
    BY <2>1, <2>2 DEF Tied, TiedByRecord
  <2>3. CASE AppendAdd
    <3>1. CASE metas' = metas
      BY <2>1, <2>2, <3>1
    <3>2. CASE r = nextId /\ metas'[nextId] = [hash |-> exec.job.hash, refs |-> RefsOf(exec.job.refs)]
      BY <2>1, <2>3, <3>2 DEF Tied, TiedByWriter, AppendAdd, At
    <3>3. CASE /\ DOMAIN metas' = DOMAIN metas \cup {nextId}
               /\ metas'[nextId] = [hash |-> exec.job.hash, refs |-> RefsOf(exec.job.refs)]
               /\ \A q \in DOMAIN metas : metas'[q] = metas[q]
      BY <2>1, <2>2, <3>2, <3>3
    <3>4. QED
      BY <2>3, <3>1, <3>3, AddedIs
  <2>4. QED
    BY <1>0, <2>1, <2>2, <2>3, RecordsShrink DEF NewStep
<1>5. CASE \A c, h : (TiedByChunk(c, h))' => TiedByChunk(c, h)
  <2>1. \A c, h : (Tied(c, h))' => Tied(c, h)
    BY <1>1, <1>2, <1>3, <1>4, <1>5 DEF Tied
  <2>2. QED
    BY <2>1 DEF OneTie
<1>6. CASE BeginStep \/ GcStep \/ WriterStep \/ CallStep \/ AppendAdd
  <2>1. \A c, h : (TiedByChunk(c, h))' => TiedByChunk(c, h)
    BY <1>6, ChunksShrink DEF TiedByChunk
  <2>2. QED
    BY <1>5, <2>1
<1>7. ASSUME NEW j \in jobs, ChunkTake(j) PROVE OneTie'
  <2>1. CASE chunks' = chunks
    BY <1>5, <2>1 DEF TiedByChunk
  <2>2. CASE chunks' = Over(All({nextId}, j.hash), chunks)
    <3>1. PICK one : one = All({nextId}, j.hash)
      OBVIOUS
    <3>2. DOMAIN one = {nextId} /\ one[nextId] = j.hash
      BY <3>1, AllIs
    <3>3. /\ DOMAIN Over(one, chunks) = DOMAIN one \cup DOMAIN chunks
          /\ \A x \in DOMAIN one : Over(one, chunks)[x] = one[x]
          /\ \A x \in DOMAIN chunks \ DOMAIN one : Over(one, chunks)[x] = chunks[x]
      BY OverIs
    <3>4. \A c, h : (TiedByChunk(c, h))' => TiedByChunk(c, h) \/ (c = nextId /\ h = j.hash)
      BY <2>2, <3>1, <3>2, <3>3 DEF TiedByChunk
    <3>5. ASSUME NEW h PROVE ~Tied(nextId, h)
      <4>1. nextId \notin Given
        BY GivenIs
      <4>2. ~TiedByChunk(nextId, h) /\ ~TiedByRecord(nextId, h)
        BY <4>1, MetasTyped DEF TiedByChunk, TiedByRecord
      <4>3. ~TiedByLog(nextId, h)
        <5>1. Seen.owners \in Partial(Given, Given)
          BY FilesTyped DEF ReplaysOf
        <5>2. DOMAIN Seen.owners \subseteq Given
          BY <5>1, PartialIs
        <5>3. QED
          BY <4>1, <5>2 DEF TiedByLog
      <4>4. ~TiedByJob(nextId, h)
        <5>1. ASSUME NEW i \in jobs, i.kind = "append" PROVE RefsOf(i.refs) \subseteq Given
          <6>1. i.refs \in (SUBSET Given) \cup {NoRefs}
            BY <5>1 DEF Types, TypesOver, JobTypes, Appends, OtherJobs
          <6>2. QED
            BY <6>1, RefsAre
        <5>2. QED
          BY <4>1, <5>1 DEF TiedByJob
      <4>5. ~TiedByWriter(nextId, h)
        BY <4>1, CommitIs DEF TiedByWriter
      <4>6. QED
        BY <4>2, <4>3, <4>4, <4>5 DEF Tied
    <3>6. \A c, h : (Tied(c, h))' => Tied(c, h) \/ (c = nextId /\ h = j.hash)
      BY <1>1, <1>2, <1>3, <1>4, <3>4 DEF Tied
    <3>7. QED
      BY <3>5, <3>6 DEF OneTie
  <2>3. QED
    BY <1>7, <2>1, <2>2 DEF ChunkTake
<1>8. QED
  BY <1>0, <1>6, <1>7 DEF NewStep

LEMMA NewIdNext ==
    ASSUME Types, Types', Order, NewId, Next
    PROVE  NewId'
<1>0. BeginStep \/ GcStep \/ WriterStep \/ CallStep \/ NewStep
  BY StepKinds DEF Types
<1>1. SUFFICES ASSUME (At("append", "commit"))'
               PROVE  /\ \A h \in DOMAIN Seen'.ids : Seen'.ids[h] # exec'.id
                      /\ \A c \in DOMAIN Seen'.owners : Seen'.owners[c] # exec'.id
                      /\ exec'.id \notin claimed'
                      /\ exec'.id \in DOMAIN metas' =>
                           metas'[exec'.id] = [hash |-> exec'.job.hash, refs |-> RefsOf(exec'.job.refs)]
  BY DEF NewId
<1>2. CASE AppendAdd
  <2>1. exec' = [kind |-> "append", job |-> exec.job, at |-> "commit", id |-> nextId]
        /\ metas' = Over(All({nextId}, [hash |-> exec.job.hash, refs |-> RefsOf(exec.job.refs)]), metas)
    <3>1. exec \in AppendExecs(Given)
      BY <1>2 DEF AppendAdd, At, Types, TypesOver, ExecTypes, EndExecs, ChunkExecs
    <3>2. exec'.at = "commit"
      BY <1>1 DEF At
    <3>3. exec' # [exec EXCEPT !.at = "close"]
      BY <3>1, <3>2 DEF AppendExecs
    <3>4. QED
      BY <1>2, <3>3 DEF AppendAdd
  <2>2. exec'.id = nextId /\ exec'.job = exec.job /\ Seen' = Seen /\ claimed' = claimed
    BY <1>2, <2>1, SeenStays DEF AppendAdd, disk
  <2>3. nextId \notin Given
    BY GivenIs
  <2>4. Seen.ids \in Partial(Hashes, Given) /\ Seen.owners \in Partial(Given, Given)
    BY FilesTyped DEF ReplaysOf
  <2>5. (\A h \in DOMAIN Seen.ids : Seen.ids[h] \in Given) /\ (\A c \in DOMAIN Seen.owners : Seen.owners[c] \in Given)
    BY <2>4, PartialIs
  <2>6. claimed \subseteq Given
    BY DEF Types, TypesOver, HistoryTypes
  <2>7. nextId \in DOMAIN metas' => metas'[nextId] = [hash |-> exec.job.hash, refs |-> RefsOf(exec.job.refs)]
    <3>1. nextId \notin DOMAIN metas
      BY MetasTyped
    <3>2. QED
      BY <1>2, <3>1, AddedIs
  <2>8. QED
    BY <2>2, <2>3, <2>5, <2>6, <2>7
<1>3. CASE ~AppendAdd
  <2>1. exec' = exec /\ (CallStep \/ GcStep)
    <3>1. BeginStep => exec = Idle /\ exec' = exec
      BY DEF BeginStep, BeginCheck, BeginLoad, BeginCut, BeginSnapshot, BeginInstall, NoActiveSession,
             Order, Separate
    <3>2. GcStep => exec' = exec
      BY DEF GcStep, GcCheck, GcSettle, GcLoad, GcDelete, GcSave
    <3>3. CallStep => exec' = exec
      BY <1>1 DEF CallStep, Submit, Refuse, Forget, Delete, ForceClose, DevReset, Crash, At
    <3>4. ASSUME NEW j \in jobs, AppendTake(j) \/ RemovedTake(j) \/ EndTake(j) \/ ChunkTake(j) PROVE FALSE
      <4>1. exec = Idle
        BY <3>4 DEF AppendTake, RemovedTake, EndTake, ChunkTake, Take
      <4>2. QED
        BY <1>1, <3>4, <4>1 DEF AppendTake, RemovedTake, EndTake, ChunkTake, At
    <3>5. ~AppendCommit
      <4>1. SUFFICES ASSUME AppendCommit PROVE FALSE
        OBVIOUS
      <4>2. exec' = [kind |-> "append", job |-> exec.job, at |-> "close", id |-> exec.id]
        BY <4>1, CommitIs DEF AppendCommit, At
      <4>3. QED
        BY <1>1, <4>2 DEF At
    <3>6. ~AppendClose /\ ~ChunkSave /\ ~EndSnapshot
      BY <1>1 DEF AppendClose, ChunkSave, EndSnapshot, At
    <3>7. ~EndEntry /\ ~EndCompact
      BY <1>1 DEF EndEntry, EndCompact, At
    <3>8. exec # Idle \/ ~BeginStep
      BY <1>1, <3>1 DEF At
    <3>9. QED
      BY <1>0, <1>3, <3>1, <3>2, <3>3, <3>4, <3>5, <3>6, <3>7, <1>1 DEF WriterStep, NewStep, At
  <2>2. At("append", "commit") /\ exec # Idle
    BY <1>1, <2>1 DEF At
  <2>3. UNCHANGED <<log, snap, claimed>>
    <3>1. GcStep => UNCHANGED <<log, snap, claimed>>
      BY DEF GcStep, GcCheck, GcSettle, GcLoad, GcDelete, GcSave, disk, history
    <3>2. CallStep => UNCHANGED <<log, snap, claimed>>
      BY <1>1, <2>2 DEF CallStep, Submit, Refuse, Forget, NoActiveSession, Delete, ForceClose, DevReset, Crash,
         disk, history, At
    <3>3. QED
      BY <2>1, <3>1, <3>2
  <2>4. Seen' = Seen
    BY <2>3, SeenStays
  <2>5. \A r \in DOMAIN metas' : r \in DOMAIN metas /\ metas'[r] = metas[r]
    BY <2>1, RecordsShrink
  <2>6. QED
    BY <2>1, <2>2, <2>3, <2>4, <2>5 DEF NewId
<1>4. QED
  BY <1>2, <1>3

-----------------------------------------------------------------------------
(* A claimed chunk is never collected.                                       *)

\* A chunk is no garbage once the ledger has been settled from the log.
Held(c) == Seen.unsettleable \/ c \in DOMAIN Seen.owners \/ c \notin Garbage(file)

\* The ledger on disk has been settled, and the log may be cut or the garbage
\* of the ledger deleted.
Settling ==
    \/ begin # Idle /\ begin.at # "load"
    \/ gc # Idle /\ gc.at # "settle"
    \/ At("end", "line") /\ exec.success
    \/ At("end", "compact") \/ At("end", "snapshot")

Kept(c) ==
    /\ c \notin collected /\ Held(c)
    /\ session # NoSession => c \notin Garbage(session.ledger)
    /\ Settling => c \notin Garbage(file)

Claims == \A r \in claimed \cap DOMAIN metas : \A c \in metas[r].refs : Kept(c)

\* Who goes on from a ledger in memory goes on from the one on the disk.
Ledgers ==
    /\ begin # Idle /\ begin.at # "load" => begin.ledger = file
    /\ gc # Idle /\ gc.at \in {"delete", "save"} => gc.ledger = file

\* No upload of the session has been collected, nor what a record of it lists.
Uploads ==
    /\ session # NoSession => \A h \in DOMAIN session.issued : session.issued[h] \notin collected
    /\ At("append", "add") \/ At("append", "commit") => RefsOf(exec.job.refs) \cap collected = {}

LEMMA WriterAlone ==
    ASSUME Order, WriterStep \/ NewStep
    PROVE  begin = Idle /\ begin' = Idle /\ gc = Idle /\ gc' = Idle
<1>1. session # NoSession \/ exec # Idle
  BY DEF WriterStep, NewStep, AppendTake, RemovedTake, EndTake, AppendCommit, AppendClose, ChunkSave,
         EndEntry, EndCompact, EndSnapshot, AppendAdd, ChunkTake, Take, At
<1>2. begin' = begin /\ gc' = gc
  BY DEF WriterStep, NewStep, AppendTake, RemovedTake, EndTake, AppendCommit, AppendClose, ChunkSave,
         EndEntry, EndCompact, EndSnapshot, AppendAdd, ChunkTake
<1>3. QED
  BY <1>1, <1>2 DEF Order, Separate

LEMMA CollectedGrows ==
    ASSUME BeginStep \/ WriterStep \/ CallStep \/ NewStep
    PROVE  collected' = collected
<1>1. BeginStep => collected' = collected
  BY DEF BeginStep, BeginCheck, BeginLoad, BeginCut, BeginSnapshot, BeginInstall, history
<1>2. WriterStep => collected' = collected
  BY DEF WriterStep, AppendTake, RemovedTake, EndTake, AppendCommit, AppendClose, ChunkSave,
         EndEntry, EndCompact, EndSnapshot, history
<1>3. CallStep => collected' = collected
  BY DEF CallStep, Submit, Refuse, Forget, Delete, ForceClose, DevReset, Crash, history
<1>4. NewStep => collected' = collected
  BY DEF NewStep, AppendAdd, ChunkTake, history
<1>5. QED
  BY <1>1, <1>2, <1>3, <1>4

LEMMA LedgersNext ==
    ASSUME Alone, Types, Order, Ledgers, Next
    PROVE  Ledgers'
<1>0. BeginStep \/ GcStep \/ WriterStep \/ CallStep \/ NewStep
  BY StepKinds DEF Types
<1>1. CASE WriterStep \/ NewStep
  BY <1>1, WriterAlone DEF Ledgers
<1>2. CASE BeginStep
  <2>1. gc = Idle /\ gc' = Idle
    BY <1>2 DEF BeginStep, BeginCheck, BeginLoad, BeginCut, BeginSnapshot, BeginInstall, Quiet, Alone,
                Order, Separate
  <2>2. CASE BeginLoad
    BY <2>1, <2>2 DEF BeginLoad, Ledgers
  <2>3. CASE BeginCut \/ BeginSnapshot
    <3>1. begin \in [at : {"cut", "snapshot", "install"}, replay : ReplaysOf(Given), ledger : Ledger(Given)]
      BY <2>3 DEF BeginCut, BeginSnapshot, Types, TypesOver, BeginTypes
    <3>2. begin # Idle /\ begin.at # "load" /\ file' = file /\ (begin' = Idle \/ begin'.ledger = begin.ledger)
      BY <2>3, <3>1 DEF BeginCut, BeginSnapshot
    <3>3. QED
      BY <2>1, <3>2 DEF Ledgers
  <2>4. CASE BeginCheck \/ BeginInstall
    BY <2>1, <2>4 DEF BeginCheck, BeginInstall, Ledgers
  <2>5. QED
    BY <1>2, <2>2, <2>3, <2>4 DEF BeginStep
<1>3. CASE GcStep
  <2>1. begin = Idle /\ begin' = Idle
    BY <1>3 DEF GcStep, GcCheck, GcSettle, GcLoad, GcDelete, GcSave, Quiet, Alone, Order, Separate
  <2>2. CASE GcDelete
    <3>1. gc \in [at : {"delete", "save"}, ledger : Ledger(Given)]
      BY <2>2 DEF GcDelete, Types, TypesOver, GcTypes
    <3>2. file' = file /\ gc # Idle /\ gc.at = "delete" /\ (gc' = Idle \/ gc'.ledger = gc.ledger)
      BY <2>2, <3>1 DEF GcDelete, disk
    <3>3. QED
      BY <2>1, <3>2 DEF Ledgers
  <2>3. CASE GcCheck \/ GcSettle \/ GcSave
    BY <2>1, <2>3 DEF GcCheck, GcSettle, GcSave, Ledgers
  <2>4. CASE GcLoad
    BY <2>1, <2>4 DEF GcLoad, disk, Ledgers
  <2>5. QED
    BY <1>3, <2>2, <2>3, <2>4 DEF GcStep
<1>4. CASE CallStep
  <2>1. CASE Crash
    BY <2>1 DEF Crash, Ledgers
  <2>2. CASE ~Crash
    <3>1. UNCHANGED <<file, begin, gc>>
      BY <1>4, <2>2 DEF CallStep, Submit, Refuse, Forget, Delete, ForceClose, DevReset, disk
    <3>2. QED
      BY <3>1 DEF Ledgers
  <2>3. QED
    BY <2>1, <2>2
<1>5. QED
  BY <1>0, <1>1, <1>2, <1>3, <1>4

LEMMA UploadsNext ==
    ASSUME Alone, Types, Types', Order, Order', Uploads, Next
    PROVE  Uploads'
<1>0. BeginStep \/ GcStep \/ WriterStep \/ CallStep \/ NewStep
  BY StepKinds DEF Types
<1>1. CASE GcStep
  <2>1. session' = NoSession /\ exec' = Idle
    <3>1. UNCHANGED <<session, exec>>
      BY <1>1 DEF GcStep, GcCheck, GcSettle, GcLoad, GcDelete, GcSave
    <3>2. session = NoSession /\ exec = Idle
      BY <1>1 DEF GcStep, GcCheck, GcSettle, GcLoad, GcDelete, GcSave, NoActiveSession, Order, Separate
    <3>3. QED
      BY <3>1, <3>2
  <2>2. QED
    BY <2>1 DEF Uploads, At
<1>2. CASE BeginStep
  <2>1. collected' = collected /\ exec' = exec
    BY <1>2, CollectedGrows DEF BeginStep, BeginCheck, BeginLoad, BeginCut, BeginSnapshot, BeginInstall
  <2>2. CASE session' = session
    BY <2>1, <2>2 DEF Uploads, At
  <2>3. CASE BeginInstall
    <3>1. session'.issued = Empty
      BY <2>3 DEF BeginInstall
    <3>2. DOMAIN session'.issued = {}
      BY <3>1, EmptyIs
    <3>3. QED
      BY <2>1, <3>2 DEF Uploads, At
  <2>4. QED
    BY <1>2, <2>2, <2>3 DEF BeginStep, BeginCheck, BeginLoad, BeginCut, BeginSnapshot
<1>3. CASE CallStep
  <2>1. collected' = collected /\ session' \in {session, NoSession} /\ exec' \in {exec, Idle}
    BY <1>3, CollectedGrows DEF CallStep, Submit, Refuse, Forget, Delete, ForceClose, DevReset, Crash
  <2>2. QED
    BY <2>1 DEF Uploads, At
<1>4. CASE WriterStep \/ NewStep
  <2>1. collected' = collected
    BY <1>4, CollectedGrows
  <2>2. session' # NoSession => session # NoSession
    BY <1>4 DEF WriterStep, NewStep, AppendTake, RemovedTake, EndTake, AppendCommit, AppendClose, ChunkSave,
                EndEntry, EndCompact, EndSnapshot, AppendAdd, ChunkTake, Take, At, Order, WriterHasSession
  <2>3. session' # NoSession => \A h \in DOMAIN session'.issued : session'.issued[h] \notin collected
    <3>1. SUFFICES ASSUME session # NoSession, session' # NoSession
                   PROVE  \A h \in DOMAIN session'.issued : session'.issued[h] \notin collected
      BY <2>2
    <3>2. session \in SessionsOf(Given)
      BY <3>1 DEF Types, TypesOver, SessionTypes
    <3>3. CASE session'.issued = session.issued
      BY <3>1, <3>3 DEF Uploads
    <3>4. ASSUME NEW j \in jobs, ChunkTake(j)
          PROVE  \A h \in DOMAIN session'.issued : session'.issued[h] \notin collected
      <4>1. CASE session' = session
        BY <3>3, <4>1
      <4>2. CASE session' = [session EXCEPT !.issued = Over(All({j.hash}, nextId), session.issued),
                                            !.ledger = Over(All({nextId}, Unowned), session.ledger)]
        <5>1. PICK one, old : one = All({j.hash}, nextId) /\ old = session.issued
          OBVIOUS
        <5>2. session'.issued = Over(one, old)
          BY <3>2, <4>2, <5>1 DEF SessionsOf
        <5>3. DOMAIN one = {j.hash} /\ one[j.hash] = nextId
          BY <5>1, AllIs
        <5>4. /\ DOMAIN Over(one, old) = DOMAIN one \cup DOMAIN old
              /\ \A x \in DOMAIN one : Over(one, old)[x] = one[x]
              /\ \A x \in DOMAIN old \ DOMAIN one : Over(one, old)[x] = old[x]
          BY OverIs
        <5>5. nextId \notin collected
          BY GivenIs DEF Types, TypesOver, HistoryTypes
        <5>6. \A h \in DOMAIN old : old[h] \notin collected
          BY <3>1, <5>1 DEF Uploads
        <5>7. QED
          BY <5>2, <5>3, <5>4, <5>5, <5>6
      <4>3. QED
        BY <3>4, <4>1, <4>2 DEF ChunkTake
    <3>5. CASE AppendCommit
      BY <3>2, <3>3, <3>5 DEF AppendCommit, SessionsOf
    <3>6. ASSUME NEW j \in jobs, RemovedTake(j) PROVE session'.issued = session.issued
      BY <3>2, <3>6 DEF RemovedTake, SessionsOf
    <3>7. ASSUME NEW j \in jobs, AppendTake(j) \/ EndTake(j) PROVE session'.issued = session.issued
      BY <3>1, <3>7 DEF AppendTake, EndTake
    <3>8. AppendAdd \/ AppendClose \/ ChunkSave \/ EndEntry \/ EndCompact \/ EndSnapshot => session' = session
      BY DEF AppendAdd, AppendClose, ChunkSave, EndEntry, EndCompact, EndSnapshot
    <3>9. QED
      BY <1>4, <3>3, <3>4, <3>5, <3>6, <3>7, <3>8 DEF WriterStep, NewStep
  <2>4. ASSUME (At("append", "add"))' \/ (At("append", "commit"))'
        PROVE  RefsOf(exec'.job.refs) \cap collected = {}
    <3>1. exec' # Idle /\ exec'.kind = "append" /\ exec'.at \in {"add", "commit"}
      BY <2>4 DEF At
    <3>2. ASSUME NEW j \in jobs, AppendTake(j) PROVE RefsOf(exec'.job.refs) \cap collected = {}
      <4>1. exec'.job = j /\ session # NoSession
            /\ RefsOf(j.refs) \subseteq {session.issued[h] : h \in DOMAIN session.issued}
        BY <3>1, <3>2 DEF AppendTake, Take
      <4>2. QED
        BY <4>1 DEF Uploads
    <3>3. CASE exec # Idle /\ exec.kind = "append" /\ exec'.job = exec.job
      <4>1. exec.at \in {"add", "commit"}
        <5>1. exec.at \in {"add", "commit", "close"}
          BY <3>3, CommitIs
        <5>2. CASE exec.at = "close"
          <6>1. exec' = exec \/ exec' = Idle
            BY <1>4, <3>3, <5>2 DEF WriterStep, NewStep, AppendTake, RemovedTake, EndTake, AppendCommit,
                  AppendClose, ChunkSave, EndEntry, EndCompact, EndSnapshot, AppendAdd, ChunkTake, Take, At
          <6>2. QED
            BY <3>1, <5>2, <6>1
        <5>3. QED
          BY <5>1, <5>2
      <4>2. QED
        BY <3>3, <4>1 DEF Uploads, At
    <3>4. QED
      BY <1>4, <3>1, <3>2, <3>3, WriterKeeps
  <2>5. QED
    BY <2>1, <2>3, <2>4 DEF Uploads
<1>5. QED
  BY <1>0, <1>1, <1>2, <1>3, <1>4

\* What the log claims, or cannot prove to be free, is no garbage afterwards.
LEMMA SettledClean ==
    ASSUME Types, NEW c, Held(c)
    PROVE  c \notin Garbage(Settled(Seen, file))
<1>1. Seen.owners \in Partial(Given, Given) /\ Seen.unsettleable \in BOOLEAN
  BY FilesTyped DEF ReplaysOf
<1>2. \A d \in DOMAIN Seen.owners : Seen.owners[d] \in Given
  BY <1>1, PartialIs
<1>3. 0 \notin Given
  BY GivenIs
<1>4. PICK owners, ledger, u : owners = Seen.owners /\ ledger = file /\ u = Seen.unsettleable
  OBVIOUS
<1>5. /\ DOMAIN Over(owners, ledger) = DOMAIN owners \cup DOMAIN ledger
      /\ \A x \in DOMAIN owners : Over(owners, ledger)[x] = owners[x]
      /\ \A x \in DOMAIN ledger \ DOMAIN owners : Over(owners, ledger)[x] = ledger[x]
  BY OverIs
<1>6. PICK both : both = Over(owners, ledger)
  OBVIOUS
<1>7. Settled(Seen, file) = [d \in DOMAIN both |-> IF u /\ both[d] = Unowned THEN Unverifiable ELSE both[d]]
  BY <1>4, <1>6 DEF Settled
<1>8. u \/ c \in DOMAIN owners \/ ~(c \in DOMAIN ledger /\ ledger[c] = 0)
  BY <1>4 DEF Held, Garbage, Unowned
<1>9. c \in DOMAIN both /\ both[c] = 0 => u
  BY <1>2, <1>3, <1>4, <1>5, <1>6, <1>8
<1>10. QED
  BY <1>7, <1>9 DEF Garbage, Unowned, Unverifiable

LEMMA ClaimsStay ==
    ASSUME Types, Claims, claimed' \subseteq claimed,
           \A r \in DOMAIN metas' : r \in DOMAIN metas /\ metas'[r] = metas[r],
           \A c \in Given : Kept(c) => (Kept(c))'
    PROVE  Claims'
<1>1. \A r \in DOMAIN metas : metas[r].refs \subseteq Given
  BY MetasTyped
<1>2. QED
  BY <1>1 DEF Claims

LEMMA ClaimsBegin ==
    ASSUME Alone, Types, Types', Order, Ledgers, Claims, BeginStep
    PROVE  Claims'
<1>1. UNCHANGED <<claimed, collected, metas, exec, gc>>
  BY DEF BeginStep, BeginCheck, BeginLoad, BeginCut, BeginSnapshot, BeginInstall, history, vault
<1>2. exec = Idle /\ gc = Idle
  BY DEF BeginStep, BeginCheck, BeginLoad, BeginCut, BeginSnapshot, BeginInstall, Quiet, Alone,
         NoActiveSession, Order, Separate
<1>3. SUFFICES ASSUME NEW c \in Given, Kept(c) PROVE (Kept(c))'
  BY <1>1, ClaimsStay
<1>4. CASE BeginCheck
  <2>1. Seen' = Seen /\ file' = file /\ session' = session /\ begin' = [at |-> "load"]
    BY <1>4, SeenStays DEF BeginCheck, disk
  <2>2. QED
    BY <1>1, <1>2, <1>3, <2>1 DEF Kept, Held, Settling, At
<1>5. CASE BeginLoad
  <2>1. Seen' = Seen /\ session' = session
    BY <1>5, SeenStays DEF BeginLoad
  <2>2. CASE file' = file /\ begin' = Idle
    BY <1>1, <1>2, <1>3, <2>1, <2>2 DEF Kept, Held, Settling, At
  <2>3. CASE file' = Settled(Seen, file)
    <3>1. c \notin Garbage(file')
      BY <1>3, <2>3, SettledClean DEF Kept
    <3>2. QED
      BY <1>1, <1>3, <2>1, <3>1 DEF Kept, Held, Garbage
  <2>4. QED
    BY <1>5, <2>2, <2>3 DEF BeginLoad, Seen
<1>6. CASE BeginCut \/ BeginSnapshot
  <2>1. file' = file /\ session' = session /\ begin # Idle /\ begin.at # "load"
    BY <1>6 DEF BeginCut, BeginSnapshot
  <2>2. c \notin Garbage(file) /\ c \notin Garbage(file')
    BY <1>3, <2>1 DEF Kept, Settling, Garbage
  <2>3. QED
    BY <1>1, <1>3, <2>1, <2>2 DEF Kept, Held, Garbage
<1>7. CASE BeginInstall
  <2>1. begin # Idle /\ begin.at # "load" /\ file' = file /\ session'.ledger = begin.ledger
    BY <1>7 DEF BeginInstall, disk
  <2>2. begin.ledger = file
    BY <2>1 DEF Ledgers
  <2>3. c \notin Garbage(file) /\ c \notin Garbage(file') /\ c \notin Garbage(session'.ledger)
    BY <1>3, <2>1, <2>2 DEF Kept, Settling, Garbage
  <2>4. QED
    BY <1>1, <1>3, <2>3 DEF Kept, Held, Garbage
<1>8. QED
  BY <1>4, <1>5, <1>6, <1>7 DEF BeginStep

LEMMA ClaimsGc ==
    ASSUME Alone, Types, Types', Order, Ledgers, Claims, GcStep
    PROVE  Claims'
<1>1. UNCHANGED <<claimed, metas, exec, begin, session, log, snap>> /\ Seen' = Seen
  <2>1. UNCHANGED <<claimed, metas, exec, begin, session, log, snap>>
    BY DEF GcStep, GcCheck, GcSettle, GcLoad, GcDelete, GcSave, history, vault, disk
  <2>2. QED
    BY <2>1, SeenStays
<1>2. exec = Idle /\ begin = Idle /\ session = NoSession
  BY DEF GcStep, GcCheck, GcSettle, GcLoad, GcDelete, GcSave, Quiet, Alone, NoActiveSession, Order, Separate
<1>3. SUFFICES ASSUME NEW c \in Given, Kept(c) PROVE (Kept(c))'
  BY <1>1, ClaimsStay
<1>4. CASE GcCheck
  <2>1. file' = file /\ collected' = collected /\ gc' = [at |-> "settle"]
    BY <1>4 DEF GcCheck, disk, history
  <2>2. QED
    BY <1>1, <1>2, <1>3, <2>1 DEF Kept, Held, Settling, At
<1>5. CASE GcSettle
  <2>1. collected' = collected
    BY <1>5 DEF GcSettle, history
  <2>2. CASE file' = file /\ gc' = Idle
    BY <1>1, <1>2, <1>3, <2>1, <2>2 DEF Kept, Held, Settling, At
  <2>3. CASE file' = Settled(Seen, file)
    <3>1. c \notin Garbage(file')
      BY <1>3, <2>3, SettledClean DEF Kept
    <3>2. QED
      BY <1>1, <1>2, <1>3, <2>1, <3>1 DEF Kept, Held, Garbage
  <2>4. QED
    BY <1>5, <2>2, <2>3 DEF GcSettle, Seen
<1>6. CASE GcLoad \/ GcDelete \/ GcSave
  <2>1. c \notin Garbage(file)
    BY <1>3, <1>6 DEF GcLoad, GcDelete, GcSave, Kept, Settling
  <2>2. c \notin Garbage(file')
    <3>1. CASE file' = file
      BY <2>1, <3>1 DEF Garbage
    <3>2. CASE file' = Without(gc.ledger, Garbage(gc.ledger))
      <4>1. PICK S, f : S = Garbage(gc.ledger) /\ f = gc.ledger
        OBVIOUS
      <4>2. DOMAIN Without(f, S) = DOMAIN f \ S /\ \A x \in DOMAIN f \ S : Without(f, S)[x] = f[x]
        BY WithoutIs
      <4>3. \A x \in DOMAIN f \ S : f[x] # Unowned
        BY <4>1 DEF Garbage
      <4>4. QED
        BY <3>2, <4>1, <4>2, <4>3 DEF Garbage
    <3>3. QED
      BY <1>6, <3>1, <3>2 DEF GcLoad, GcDelete, GcSave, disk
  <2>3. c \notin collected'
    <3>1. CASE GcDelete
      <4>1. gc.ledger = file
        BY <3>1 DEF GcDelete, Ledgers
      <4>2. QED
        BY <1>3, <2>1, <3>1, <4>1 DEF GcDelete, Kept
    <3>2. CASE GcLoad \/ GcSave
      BY <1>3, <3>2 DEF GcLoad, GcSave, Kept, history
    <3>3. QED
      BY <1>6, <3>1, <3>2
  <2>4. QED
    BY <1>1, <1>2, <2>2, <2>3 DEF Kept, Held, Garbage
<1>7. QED
  BY <1>4, <1>5, <1>6 DEF GcStep

\* A tombstone takes no claim of another file away.
LEMMA HeldErased ==
    ASSUME Types, OneTie, NEW h \in Hashes, Erased(h), file' = file,
           NEW r \in DOMAIN metas, r \notin Stored(h), NEW c \in metas[r].refs, Held(c)
    PROVE  (Held(c))'
<1>1. c \in Ids /\ metas[r].hash \in Hashes /\ metas[r].hash # h
  BY MetasTyped, GivenIs DEF Stored
<1>2. Tied(c, metas[r].hash)
  BY DEF Tied, TiedByRecord
<1>3. CASE c \in DOMAIN Seen.owners
  <2>1. ~(h \in DOMAIN Seen.ids /\ Seen.owners[c] = Seen.ids[h])
    <3>1. ~TiedByLog(c, h)
      BY <1>1, <1>2 DEF OneTie, Tied
    <3>2. QED
      BY <1>3, <3>1 DEF TiedByLog
  <2>2. c \in DOMAIN Seen'.owners
    BY <1>3, <2>1 DEF Erased
  <2>3. QED
    BY <2>2 DEF Held
<1>4. CASE Seen.unsettleable \/ c \notin Garbage(file)
  BY <1>4 DEF Held, Erased, Garbage
<1>5. QED
  BY <1>3, <1>4 DEF Held

LEMMA ClaimsCalls ==
    ASSUME Alone, Types, Types', Order, OneTie, Claims, CallStep
    PROVE  Claims'
<1>1. collected' = collected
  BY CollectedGrows
<1>2. \A r \in DOMAIN metas' : r \in DOMAIN metas /\ metas'[r] = metas[r]
  BY RecordsShrink
<1>3. ASSUME UNCHANGED <<log, snap, file, claimed, exec, begin, gc>>, session' \in {session, NoSession}
      PROVE  Claims'
  <2>1. Seen' = Seen
    BY <1>3, SeenStays
  <2>2. ASSUME NEW c \in Given, Kept(c) PROVE (Kept(c))'
    BY <1>1, <1>3, <2>1, <2>2 DEF Kept, Held, Settling, At, Garbage
  <2>3. QED
    BY <1>2, <1>3, <2>2, ClaimsStay
<1>4. ASSUME NEW j, Submit(j) PROVE Claims'
  BY <1>3, <1>4 DEF Submit, disk, history
<1>5. ASSUME NEW j \in jobs, Refuse(j) PROVE Claims'
  BY <1>3, <1>5 DEF Refuse, disk, history
<1>6. CASE ForceClose
  BY <1>3, <1>6 DEF ForceClose, disk, history
<1>7. ASSUME NEW r \in DOMAIN metas, Delete(r) PROVE Claims'
  BY <1>3, <1>7 DEF Delete, disk
<1>8. ASSUME NEW h \in Hashes, Forget(h) PROVE Claims'
  <2>1. UNCHANGED <<metas, file, session, exec, begin, gc>> /\ session = NoSession /\ exec = Idle
        /\ begin = Idle /\ gc = Idle
    BY <1>8 DEF Forget, Quiet, Alone, NoActiveSession, vault
  <2>2. CASE Seen' = Seen /\ claimed' = claimed
    <3>1. ASSUME NEW c \in Given, Kept(c) PROVE (Kept(c))'
      BY <1>1, <2>1, <2>2, <3>1 DEF Kept, Held, Settling, At, Garbage
    <3>2. QED
      BY <1>2, <2>2, <3>1, ClaimsStay
  <2>3. CASE Erased(h) /\ Forgotten(h)
    <3>1. SUFFICES ASSUME NEW r \in claimed' \cap DOMAIN metas', NEW c \in metas'[r].refs PROVE (Kept(c))'
      BY DEF Claims
    <3>2. r \in claimed /\ r \in DOMAIN metas /\ r \notin Stored(h) /\ c \in metas[r].refs
      BY <2>1, <2>3, <3>1 DEF Forgotten
    <3>3. Kept(c)
      BY <3>2 DEF Claims
    <3>4. (Held(c))'
      BY <2>1, <2>3, <3>2, <3>3, HeldErased DEF Kept
    <3>5. QED
      BY <1>1, <2>1, <3>3, <3>4 DEF Kept, Settling, At
  <2>4. QED
    BY <1>8, <2>2, <2>3, ForgetSeen
<1>9. CASE DevReset
  <2>1. UNCHANGED <<metas, file, session, exec, begin, gc>> /\ session = NoSession /\ exec = Idle
        /\ begin = Idle /\ gc = Idle
    BY <1>9 DEF DevReset, NoActiveSession, vault
  <2>2. SUFFICES ASSUME NEW r \in claimed' \cap DOMAIN metas', NEW c \in metas'[r].refs PROVE (Kept(c))'
    BY DEF Claims
  <2>3. r \in claimed /\ r \in DOMAIN metas /\ c \in metas[r].refs /\ c \notin Garbage(file)
    BY <1>9, <2>1, <2>2 DEF DevReset, Garbage
  <2>4. Kept(c) /\ c \notin Garbage(file')
    BY <2>1, <2>3 DEF Claims, Garbage
  <2>5. QED
    BY <1>1, <2>1, <2>4 DEF Kept, Held, Settling, At, Garbage
<1>10. CASE Crash
  <2>1. UNCHANGED <<snap, file, claimed>> /\ session' = NoSession /\ exec' = Idle /\ begin' = Idle /\ gc' = Idle
    BY <1>10 DEF Crash
  <2>2. Seen' = Seen
    BY <1>10, <2>1, FilesTyped, SeenTorn DEF Crash
  <2>3. ASSUME NEW c \in Given, Kept(c) PROVE (Kept(c))'
    BY <1>1, <2>1, <2>2, <2>3 DEF Kept, Held, Settling, At, Garbage
  <2>4. QED
    BY <1>2, <2>1, <2>3, ClaimsStay
<1>11. QED
  BY <1>4, <1>5, <1>6, <1>7, <1>8, <1>9, <1>10 DEF CallStep

\* The id of a record takes its chunks out of the garbage of the session.
LEMMA CommitLedger ==
    ASSUME Types, Order, AppendCommit, NEW c
    PROVE  /\ session # NoSession /\ session' # NoSession
           /\ c \notin Garbage(session.ledger) => c \notin Garbage(session'.ledger)
           /\ c \in RefsOf(exec.job.refs) => c \notin Garbage(session'.ledger)
<1>1. session # NoSession /\ exec.id \in Given
  BY CommitIs DEF AppendCommit, At, Order, WriterHasSession
<1>2. session \in SessionsOf(Given)
  BY <1>1 DEF Types, TypesOver, SessionTypes
<1>3. PICK all, old : all = All(RefsOf(exec.job.refs), exec.id) /\ old = session.ledger
  OBVIOUS
<1>4. DOMAIN all = RefsOf(exec.job.refs) /\ \A x \in DOMAIN all : all[x] = exec.id
  <2>1. PICK S, id : S = RefsOf(exec.job.refs) /\ id = exec.id
    OBVIOUS
  <2>2. DOMAIN All(S, id) = S /\ \A x \in S : All(S, id)[x] = id
    BY AllIs
  <2>3. QED
    BY <1>3, <2>1, <2>2
<1>5. session'.ledger = Over(all, old)
  BY <1>2, <1>3 DEF AppendCommit, SessionsOf
<1>6. /\ DOMAIN Over(all, old) = DOMAIN all \cup DOMAIN old
      /\ \A x \in DOMAIN all : Over(all, old)[x] = all[x]
      /\ \A x \in DOMAIN old \ DOMAIN all : Over(all, old)[x] = old[x]
  BY OverIs
<1>7. exec.id # Unowned
  BY <1>1, GivenIs DEF Unowned
<1>8. session' # NoSession
  <2>1. PICK G \in SUBSET Ids : G = Given
    BY GivenIs
  <2>2. session' \in SessionsOf(G)
    BY <2>1, CommitSession DEF Types, Order
  <2>3. QED
    BY <2>2, SessionsAre
<1>9. QED
  BY <1>1, <1>3, <1>4, <1>5, <1>6, <1>7, <1>8 DEF Garbage

LEMMA ClaimsCommit ==
    ASSUME Types, Types', Order, NewId, Uploads, Claims, AppendCommit
    PROVE  Claims'
<1>1. /\ UNCHANGED <<metas, file, collected, begin, gc>>
      /\ begin' = Idle /\ gc' = Idle /\ At("append", "commit")
  <2>1. begin' = Idle /\ gc' = Idle
    BY WriterAlone DEF WriterStep
  <2>2. QED
    BY <2>1 DEF AppendCommit, vault
<1>2. ~Settling'
  <2>1. exec' = [kind |-> "append", job |-> exec.job, at |-> "close", id |-> exec.id]
    BY <1>1, CommitIs DEF AppendCommit, At
  <2>2. QED
    BY <1>1, <2>1 DEF Settling, At
<1>3. ASSUME NEW r \in claimed \cap DOMAIN metas, NEW c \in metas[r].refs PROVE (Kept(c))'
  <2>1. Kept(c)
    BY <1>3 DEF Claims
  <2>2. session # NoSession /\ c \notin Garbage(session'.ledger)
    BY <2>1, CommitLedger DEF Kept
  <2>3. (Held(c))'
    <3>1. CASE Seen' = Seen
      BY <1>1, <2>1, <3>1 DEF Kept, Held, Garbage
    <3>2. CASE Wrote(exec.job.hash, exec.id, exec.job.refs)
      BY <1>1, <2>1, <3>2 DEF Kept, Held, Garbage, Wrote
    <3>3. QED
      BY <3>1, <3>2, CommitSeen
  <2>4. QED
    BY <1>1, <1>2, <2>1, <2>2, <2>3 DEF Kept
<1>4. CASE claimed' = claimed
  BY <1>1, <1>3, <1>4 DEF Claims
<1>5. CASE /\ Wrote(exec.job.hash, exec.id, exec.job.refs)
           /\ claimed' = claimed \cup {exec.id}
  <2>1. ASSUME exec.id \in DOMAIN metas, NEW c \in metas[exec.id].refs PROVE (Kept(c))'
    <3>1. c \in RefsOf(exec.job.refs)
      BY <1>1, <2>1 DEF NewId
    <3>2. c \notin collected /\ c \notin Garbage(session'.ledger)
      BY <1>1, <3>1, CommitLedger DEF Uploads
    <3>3. (Held(c))'
      BY <1>5, <3>1 DEF Held, Wrote
    <3>4. QED
      BY <1>1, <1>2, <3>2, <3>3 DEF Kept
  <2>2. QED
    BY <1>1, <1>3, <1>5, <2>1 DEF Claims
<1>6. QED
  BY <1>4, <1>5, CommitSeen

LEMMA ClaimsWriter ==
    ASSUME Types, Types', Order, OneTie, NewId, Uploads, Claims, WriterStep \/ NewStep
    PROVE  Claims'
<1>1. begin = Idle /\ begin' = Idle /\ gc = Idle /\ gc' = Idle /\ collected' = collected
  BY WriterAlone, CollectedGrows
<1>2. CASE AppendCommit
  BY <1>2, ClaimsCommit
<1>3. ASSUME NEW j \in jobs, AppendTake(j) PROVE Claims'
  <2>1. UNCHANGED <<claimed, metas, file, session>> /\ Seen' = Seen
        /\ ~(At("end", "line"))' /\ ~(At("end", "compact"))' /\ ~(At("end", "snapshot"))'
    BY <1>3, SeenStays DEF AppendTake, disk, vault, history, At
  <2>2. ASSUME NEW c \in Given, Kept(c) PROVE (Kept(c))'
    BY <1>1, <2>1, <2>2 DEF Kept, Held, Settling, Garbage
  <2>3. QED
    BY <2>1, <2>2, ClaimsStay
<1>4. ASSUME NEW j \in jobs, EndTake(j) PROVE Claims'
  <2>1. UNCHANGED <<claimed, metas>> /\ Seen' = Seen /\ exec = Idle /\ session # NoSession
    BY <1>4, SeenStays DEF EndTake, Take, vault, history
  <2>2. CASE j.success /\ file' = session.ledger /\ session' = NoSession
    <3>1. ASSUME NEW c \in Given, Kept(c) PROVE (Kept(c))'
      BY <1>1, <2>1, <2>2, <3>1 DEF Kept, Held, Garbage
    <3>2. QED
      BY <2>1, <3>1, ClaimsStay
  <2>3. CASE UNCHANGED <<file, exec, session>>
    <3>1. ASSUME NEW c \in Given, Kept(c) PROVE (Kept(c))'
      BY <1>1, <2>1, <2>3, <3>1 DEF Kept, Held, Settling, At, Garbage
    <3>2. QED
      BY <2>1, <3>1, ClaimsStay
  <2>4. CASE /\ exec' = [kind |-> "end", at |-> "line", success |-> FALSE]
             /\ session' = NoSession /\ file' = file
    <3>1. ASSUME NEW c \in Given, Kept(c) PROVE (Kept(c))'
      BY <1>1, <2>1, <2>4, <3>1 DEF Kept, Held, Settling, At, Garbage
    <3>2. QED
      BY <2>1, <3>1, ClaimsStay
  <2>5. QED
    BY <1>4, <2>2, <2>3, <2>4 DEF EndTake
<1>5. ASSUME NEW j \in jobs, RemovedTake(j) PROVE Claims'
  <2>1. UNCHANGED <<metas, file, exec>> /\ exec = Idle /\ session # NoSession
    BY <1>5 DEF RemovedTake, Take, vault
  <2>2. CASE Seen' = Seen /\ UNCHANGED <<session, claimed>>
    <3>1. ASSUME NEW c \in Given, Kept(c) PROVE (Kept(c))'
      BY <1>1, <2>1, <2>2, <3>1 DEF Kept, Held, Settling, At, Garbage
    <3>2. QED
      BY <2>1, <2>2, <3>1, ClaimsStay
  <2>3. CASE /\ Erased(j.hash) /\ Forgotten(j.hash) /\ j.hash \in Hashes
             /\ session' = [session EXCEPT !.known = session.known \ {j.hash}]
    <3>1. PICK h \in Hashes : h = j.hash /\ Erased(h) /\ Forgotten(h)
      BY <2>3
    <3>2. session'.ledger = session.ledger
      <4>1. session \in SessionsOf(Given)
        BY <2>1 DEF Types, TypesOver, SessionTypes
      <4>2. QED
        BY <2>3, <4>1 DEF SessionsOf
    <3>3. SUFFICES ASSUME NEW r \in claimed' \cap DOMAIN metas', NEW c \in metas'[r].refs PROVE (Kept(c))'
      BY DEF Claims
    <3>4. r \in claimed /\ r \in DOMAIN metas /\ r \notin Stored(h) /\ c \in metas[r].refs
      BY <2>1, <3>1, <3>3 DEF Forgotten
    <3>5. Kept(c)
      BY <3>4 DEF Claims
    <3>6. (Held(c))'
      BY <2>1, <3>1, <3>4, <3>5, HeldErased DEF Kept
    <3>7. QED
      BY <1>1, <2>1, <3>2, <3>5, <3>6 DEF Kept, Settling, At
  <2>4. QED
    BY <1>5, <2>2, <2>3, RemovedSeen
<1>6. CASE AppendClose \/ ChunkSave
  <2>1. UNCHANGED <<claimed, metas, session>> /\ Seen' = Seen /\ exec' = Idle
        /\ file' \in {file, session.ledger}
    BY <1>6, SeenStays DEF AppendClose, ChunkSave, vault, history
  <2>2. session # NoSession
    BY <1>6 DEF AppendClose, ChunkSave, At, Order, WriterHasSession
  <2>3. ASSUME NEW c \in Given, Kept(c) PROVE (Kept(c))'
    BY <1>1, <2>1, <2>2, <2>3 DEF Kept, Held, Settling, At, Garbage
  <2>4. QED
    BY <2>1, <2>3, ClaimsStay
<1>7. CASE EndEntry
  <2>1. UNCHANGED <<claimed, metas, session, file, snap>> /\ log \in Seq(Lines(Given)) /\ At("end", "line")
        /\ (exec' = Idle \/ (exec.success /\ exec' = [kind |-> "end", at |-> "compact"]))
    BY <1>7, FilesTyped DEF EndEntry, vault, history
  <2>2. Append1(EndLine) => Seen' = Seen
    BY <2>1, SeenPlain DEF Append1
  <2>3. AppendFails => Seen' = Seen
    BY <2>1, SeenTorn DEF AppendFails
  <2>4. Seen' = Seen
    BY <1>7, <2>2, <2>3 DEF EndEntry
  <2>5. exec' # Idle => Settling
    BY <2>1 DEF Settling
  <2>6. ASSUME NEW c \in Given, Kept(c) PROVE (Kept(c))'
    BY <1>1, <2>1, <2>4, <2>5, <2>6 DEF Kept, Held, Settling, At, Garbage
  <2>7. QED
    BY <2>1, <2>6, ClaimsStay
<1>8. CASE EndCompact \/ EndSnapshot
  <2>1. UNCHANGED <<claimed, metas, session, file>> /\ Settling
    BY <1>8 DEF EndCompact, EndSnapshot, vault, history, Settling
  <2>2. ASSUME NEW c \in Given, Kept(c) PROVE (Kept(c))'
    BY <1>1, <2>1, <2>2 DEF Kept, Held, Garbage
  <2>3. QED
    BY <2>1, <2>2, ClaimsStay
<1>9. CASE AppendAdd
  <2>1. UNCHANGED <<claimed, file, session>> /\ Seen' = Seen /\ exec # Idle /\ exec.kind = "append"
    BY <1>9, SeenStays DEF AppendAdd, disk, At
  <2>2. ~(At("end", "line"))' /\ ~(At("end", "compact"))' /\ ~(At("end", "snapshot"))'
    <3>1. exec \in AppendExecs(Given)
      BY <2>1 DEF Types, TypesOver, ExecTypes, EndExecs, ChunkExecs
    <3>2. exec'.kind = "append"
      BY <1>9, <3>1 DEF AppendAdd, AppendExecs
    <3>3. QED
      BY <3>2 DEF At
  <2>3. ASSUME NEW c, Kept(c) PROVE (Kept(c))'
    BY <1>1, <2>1, <2>2, <2>3 DEF Kept, Held, Settling, Garbage
  <2>4. nextId \notin claimed
    BY GivenIs DEF Types, TypesOver, HistoryTypes
  <2>5. \A r \in claimed' \cap DOMAIN metas' : r \in claimed \cap DOMAIN metas /\ metas'[r] = metas[r]
    BY <1>9, <2>1, <2>4, AddedIs
  <2>6. QED
    BY <2>3, <2>5 DEF Claims
<1>10. ASSUME NEW j \in jobs, ChunkTake(j) PROVE Claims'
  <2>1. UNCHANGED <<claimed, metas, file>> /\ Seen' = Seen /\ session # NoSession
        /\ ~(At("end", "line"))' /\ ~(At("end", "compact"))' /\ ~(At("end", "snapshot"))'
    BY <1>10, SeenStays DEF ChunkTake, Take, disk, history, At
  <2>2. ASSUME NEW c \in Given, c \notin Garbage(session.ledger) PROVE c \notin Garbage(session'.ledger)
    <3>1. session \in SessionsOf(Given)
      BY <2>1 DEF Types, TypesOver, SessionTypes
    <3>2. CASE session' = session
      BY <2>2, <3>2
    <3>3. CASE session' = [session EXCEPT !.issued = Over(All({j.hash}, nextId), session.issued),
                                          !.ledger = Over(All({nextId}, Unowned), session.ledger)]
      <4>1. PICK one, old : one = All({nextId}, Unowned) /\ old = session.ledger
        OBVIOUS
      <4>2. session'.ledger = Over(one, old)
        BY <3>1, <3>3, <4>1 DEF SessionsOf
      <4>3. DOMAIN one = {nextId}
        BY <4>1, AllIs
      <4>4. /\ DOMAIN Over(one, old) = DOMAIN one \cup DOMAIN old
            /\ \A x \in DOMAIN old \ DOMAIN one : Over(one, old)[x] = old[x]
        BY OverIs
      <4>5. c # nextId
        BY GivenIs
      <4>6. QED
        BY <2>2, <4>1, <4>2, <4>3, <4>4, <4>5 DEF Garbage
    <3>4. QED
      BY <1>10, <3>2, <3>3 DEF ChunkTake
  <2>3. ASSUME NEW c \in Given, Kept(c) PROVE (Kept(c))'
    BY <1>1, <2>1, <2>2, <2>3 DEF Kept, Held, Settling, Garbage
  <2>4. QED
    BY <2>1, <2>3, ClaimsStay
<1>11. QED
  BY <1>2, <1>3, <1>4, <1>5, <1>6, <1>7, <1>8, <1>9, <1>10 DEF WriterStep, NewStep

\* What keeps the chunks of a claimed record.
ClaimInv == OneTie /\ NewId /\ Ledgers /\ Uploads /\ Claims

LEMMA ClaimInit ==
    ASSUME Init
    PROVE  ClaimInv
<1>1. /\ collected = {} /\ jobs = {}
      /\ session = NoSession /\ exec = Idle /\ begin = Idle /\ gc = Idle
  BY DEF Init
<1>2. NewId /\ Ledgers /\ Uploads /\ ~Settling
  BY <1>1 DEF NewId, Ledgers, Uploads, Settling, At
<1>3. CASE log = <<>> /\ metas = Empty /\ chunks = Empty /\ claimed = {}
  <2>1. DOMAIN metas = {} /\ DOMAIN chunks = {}
    BY <1>3, EmptyIs
  <2>2. Seen = Unread(snap) /\ snap = Empty
    BY <1>3, LoadEmpty DEF Seen, Init
  <2>3. DOMAIN Seen.ids = {}
    BY <2>2, EmptyIs DEF Unread
  <2>4. OneTie
    BY <1>1, <2>1, <2>3
       DEF OneTie, Tied, TiedByChunk, TiedByRecord, TiedByJob, TiedByWriter, TiedByLog
  <2>5. Claims
    BY <1>3 DEF Claims
  <2>6. QED
    BY <1>2, <2>4, <2>5 DEF ClaimInv
<1>4. ASSUME NEW h \in Hashes, log = <<BeginLine, CommittedLine(h, 2, NoRefs)>>, nextId = 3,
             metas = All({2}, [hash |-> h, refs |-> {1}]), chunks = All({1}, h)
      PROVE  ClaimInv
  <2>1. /\ DOMAIN metas = {2} /\ metas[2].hash = h
        /\ DOMAIN chunks = {1} /\ chunks[1] = h
    BY <1>4 DEF All
  <2>2. DOMAIN Seen.owners = {} /\ Seen.unsettleable
    BY <1>4, InitSeen
  <2>3. ASSUME NEW c, NEW k, Tied(c, k) PROVE k = h
    BY <1>1, <2>1, <2>2, <2>3
       DEF Tied, TiedByChunk, TiedByRecord, TiedByJob, TiedByWriter, TiedByLog
  <2>4. OneTie
    BY <2>3 DEF OneTie
  <2>5. Claims
    BY <1>1, <1>2, <2>2 DEF Claims, Kept, Held
  <2>6. QED
    BY <1>2, <2>4, <2>5 DEF ClaimInv
<1>5. QED
  BY <1>3, <1>4 DEF Init

LEMMA ClaimNext ==
    ASSUME Alone, FilesInv, FilesInv', ClaimInv, [Next]_vars
    PROVE  ClaimInv'
<1>1. /\ Types /\ Types' /\ Order /\ Order'
      /\ OneTie /\ NewId /\ Ledgers /\ Uploads /\ Claims
  BY DEF FilesInv, ClaimInv
<1>2. CASE UNCHANGED vars
  <2>1. UNCHANGED <<log, snap, file, metas, chunks, session, jobs, exec, begin, gc, claimed, collected>>
    BY <1>2 DEF vars, disk, vault, history
  <2>2. Seen' = Seen
    BY <2>1, SeenStays
  <2>3. OneTie'
    BY <1>1, <2>1, <2>2
       DEF OneTie, Tied, TiedByChunk, TiedByRecord, TiedByJob, TiedByWriter, TiedByLog
  <2>4. NewId' /\ Ledgers' /\ Uploads'
    BY <1>1, <2>1, <2>2 DEF NewId, Ledgers, Uploads, At
  <2>5. Claims'
    BY <1>1, <2>1, <2>2 DEF Claims, Kept, Held, Settling, At
  <2>6. QED
    BY <2>3, <2>4, <2>5 DEF ClaimInv
<1>3. CASE Next
  <2>1. BeginStep \/ GcStep \/ WriterStep \/ CallStep \/ NewStep
    BY <1>1, <1>3, StepKinds DEF Types
  <2>2. OneTie'
    BY <1>1, <1>3, TieNext
  <2>3. NewId'
    BY <1>1, <1>3, NewIdNext
  <2>4. Ledgers'
    BY <1>1, <1>3, LedgersNext
  <2>5. Uploads'
    BY <1>1, <1>3, UploadsNext
  <2>6. Claims'
    BY <1>1, <2>1, ClaimsBegin, ClaimsGc, ClaimsCalls, ClaimsWriter
  <2>7. QED
    BY <2>2, <2>3, <2>4, <2>5, <2>6 DEF ClaimInv
<1>4. QED
  BY <1>2, <1>3

\* No chunk of a record whose claim reached the disk is ever collected, whatever
\* crashes, failed writes and lost answers came between container, log and ledger.
THEOREM ClaimsHold == ASSUME Alone PROVE Spec => []ClaimedChunksStay
<1>1. Init => ClaimInv
  BY ClaimInit
<1>2. ClaimInv /\ FilesInv /\ FilesInv' /\ [Next]_vars => ClaimInv'
  BY ClaimNext
<1>3. ClaimInv => ClaimedChunksStay
  BY DEF ClaimInv, Claims, Kept, ClaimedChunksStay
<1>4. Spec => []FilesInv
  BY FilesHold, PTL
<1>5. QED
  BY <1>1, <1>2, <1>3, <1>4, PTL DEF Spec
===============================================================================
