-------------------------- MODULE FileStreamsProofs --------------------------
(* Theorems about FileStreams, for any number of exports, chunks, targets and  *)
(* failures, and any sharing of staging names.                                 *)
EXTENDS FileStreams, TLAPS

(* What an export can be, taken alone: which task goes with which point of the *)
(* exporter, when a session is in the table, and when it may still be torn.    *)
Shape(e) ==
    /\ exp[e].front = "free" => exp[e] = None /\ e > begun
    /\ e > begun => exp[e].front = "free"
    /\ e \in streams => /\ exp[e].task = "none"
                        /\ exp[e].front \in {"open", "append", "failing", "failed"}
    /\ exp[e].front \in {"open", "append"} => e \in streams
    /\ exp[e].front = "create" => exp[e].task = "create"
    /\ exp[e].task = "create" => exp[e].front \in {"create", "failed"} /\ exp[e].chunks = 0
    /\ exp[e].task \in {"create", "sync", "rename", "write", "replace"} =>
          ~exp[e].appending /\ ~exp[e].torn
    /\ exp[e].task \in {"sync", "rename"} =>
          exp[e].chunks = Chunks /\ exp[e].front \in {"finalize", "failing", "failed"}
    /\ exp[e].task \in {"write", "replace"} => exp[e].front \in {"write", "failed"}
    /\ exp[e].task = "replace" => exp[e].chunks = Chunks
    /\ exp[e].front = "write" => exp[e].task \in {"write", "replace"}
    /\ exp[e].front = "finalize" => exp[e].task \in {"sync", "rename", "unlink"}
    /\ exp[e].appending => /\ exp[e].chunks < Chunks
                           /\ exp[e].front \in {"append", "failing", "abort", "failed"}
    /\ exp[e].torn => exp[e].front \in {"failing", "abort", "failed"}
    /\ exp[e].front = "open" => ~exp[e].appending /\ ~exp[e].torn

(* A staging file belongs to an export that created it under its own name. *)
Owned(p) ==
    temp[p] # 0 => /\ temp[p] <= begun
                   /\ Temp(temp[p]) = p
                   /\ exp[temp[p]].task \notin {"create", "write", "replace"}

(* An export nobody works on any more has a reason to have left a staging file. *)
Excused(e) ==
    /\ exp[e].task = "create" /\ exp[e].front # "create" => exp[e].excused
    /\ e \in streams /\ exp[e].front = "failed" => exp[e].excused
    /\ \A p \in Temps : temp[p] = e /\ exp[e].task = "none" /\ e \notin streams
                           => exp[e].excused

Core ==
    /\ ExportsOK
    /\ \A e \in Exports : Shape(e) /\ Excused(e)
    /\ \A p \in Temps : Owned(p)

(* An export at work from whom no sweep took it has the file of its staging     *)
(* name.                                                                       *)
AtWork(e) ==
    e \notin swept =>
        (\/ exp[e].task \in {"sync", "rename", "close", "unlink"}
         \/ e \in streams /\ exp[e].front # "failed"
         => temp[Temp(e)] = e)

(* The export's content is whole and will not change. *)
Done(e, x) ==
    /\ exp[e].target = x /\ exp[e].chunks = Chunks /\ ~exp[e].torn /\ ~exp[e].appending
    /\ exp[e].front \notin {"create", "open", "append"}

(* What a target holds is what its last writer wrote, and is over. *)
OnDisk(x) ==
    by[x] # 0 /\ by[x] \notin swept =>
        by[x] \in Exports /\ by[x] <= begun /\ disk[x] = by[x] /\ Done(by[x], x)

IInv ==
    /\ Core
    /\ \A e \in Exports : AtWork(e)
    /\ \A x \in Targets : OnDisk(x)


-----------------------------------------------------------------------------
Export == [kind : {"stream", "whole"}, target : Targets, front : Fronts,
           task : Works, appending : BOOLEAN, handle : BOOLEAN,
           chunks : 0..Chunks, torn : BOOLEAN, excused : BOOLEAN]

LEMMA NoneIsExport == None \in Export
  BY TempsOfTargets, BoundsAreNat DEF None, Export, Fronts, Works

LEMMA NoneIsIdle ==
    /\ None.kind = "stream" /\ None.front = "free" /\ None.task = "none"
    /\ None.appending = FALSE /\ None.handle = FALSE /\ None.chunks = 0
    /\ None.torn = FALSE /\ None.excused = FALSE
  BY DEF None

LEMMA Idle ==
    ASSUME Core, NEW e \in Exports, e > begun
    PROVE  /\ exp[e].front = "free" /\ exp[e].task = "none" /\ ~exp[e].appending
           /\ exp[e] = None
  BY NoneIsIdle DEF Core, Shape

LEMMA InitInv == Init => IInv
<1> SUFFICES ASSUME Init PROVE IInv
  OBVIOUS
<1>1. \A e \in Exports : exp[e] = None
  BY DEF Init
<1>2. exp \in [Exports -> Export]
  BY NoneIsExport DEF Init
<1>3. ExportsOK
  BY <1>2, BoundsAreNat, TempsOfTargets DEF Init, ExportsOK, Export
<1>4. \A e \in Exports : Shape(e) /\ AtWork(e)
  BY <1>1, BoundsAreNat, NoneIsIdle DEF Init, Shape, AtWork, Exports
<1>4a. \A e \in Exports : Excused(e)
  BY <1>1, BoundsAreNat, NoneIsIdle DEF Init, Excused, Exports
<1>5. \A p \in Temps : Owned(p)
  BY DEF Init, Owned
<1>6. \A x \in Targets : OnDisk(x)
  BY DEF Init, OnDisk
<1>7. QED
  BY <1>3, <1>4, <1>4a, <1>5, <1>6 DEF IInv, Core

(* What is known of an export before a step of it. *)
LEMMA Known ==
    ASSUME Core, NEW e \in Exports
    PROVE  /\ exp[e] \in Export /\ Shape(e) /\ Excused(e) /\ \A p \in Temps : Owned(p)
           /\ e \in Nat /\ e # 0 /\ begun \in Nat
           /\ e > begun => exp[e].front = "free" /\ exp[e].task = "none" /\ ~exp[e].appending
<1>1. exp[e] \in Export /\ begun \in Nat
  BY BoundsAreNat DEF Core, ExportsOK, Export
<1>2. e \in Nat /\ e # 0
  BY BoundsAreNat DEF Exports
<1>3. Shape(e) /\ Excused(e) /\ \A p \in Temps : Owned(p)
  BY DEF Core
<1>4. QED
  BY <1>1, <1>2, <1>3, Idle

(* The table of exports after one of them has changed. *)
LEMMA OneChanges ==
    ASSUME ExportsOK, NEW e \in Exports, NEW j \in Export, Becomes(e, j)
    PROVE  /\ exp' \in [Exports -> Export]
           /\ exp'[e] = j
           /\ \A f \in Exports : f # e => exp'[f] = exp[f]
  BY DEF ExportsOK, Becomes, Export


(* The types of all but the exports. *)
RestOK ==
    /\ begun \in 0..MaxExports
    /\ streams \subseteq Exports
    /\ temp \in [Temps -> 0..MaxExports] /\ old \subseteq Temps
    /\ disk \in [Targets -> 0..MaxExports]
    /\ writing \in 0..MaxExports
    /\ unlocked \in BOOLEAN
    /\ mishaps \in Nat

LEMMA TypeParts == ExportsOK <=> exp \in [Exports -> Export] /\ RestOK
  BY DEF ExportsOK, RestOK, Export

(* What a step of export e leaves to show of the first part of the invariant:  *)
(* the others are as they were, but for a staging file that was removed.       *)
LEMMA Lift ==
    ASSUME Core, ExportsOK', NEW e \in Exports, e <= begun, begun' = begun,
           \A f \in Exports : f # e => exp'[f] = exp[f],
           \A f \in Exports : f # e => (f \in streams' <=> f \in streams),
           \A p \in Temps : temp'[p] \in {0, temp[p], e},
           \A p \in Temps : temp'[p] = e =>
                Temp(e)' = p /\ exp'[e].task \notin {"create", "write", "replace"},
           Shape(e)', Excused(e)'
    PROVE  Core'
<1>1. \A f \in Exports : Shape(f)'
  <2> TAKE f \in Exports
  <2>1. CASE f # e
    BY <2>1 DEF Core, Shape
  <2>2. QED
    BY <2>1
<1>2. \A f \in Exports : Excused(f)'
  <2> TAKE f \in Exports
  <2>1. CASE f # e
    <3>1. Excused(f) /\ f # 0
      BY BoundsAreNat DEF Core, Exports
    <3>2. QED
      BY <2>1, <3>1 DEF Excused
  <2>2. QED
    BY <2>1
<1>3. \A p \in Temps : Owned(p)'
  <2> TAKE p \in Temps
  <2>1. CASE temp'[p] = e
    BY <2>1 DEF Owned
  <2>2. CASE temp'[p] = temp[p] /\ temp[p] # 0 /\ temp[p] # e
    <3>1. temp[p] \in Exports /\ Owned(p)
      BY <2>2, BoundsAreNat DEF Core, ExportsOK, Exports
    <3>2. exp'[temp[p]] = exp[temp[p]]
      BY <2>2, <3>1
    <3>3. QED
      BY <2>2, <3>1, <3>2 DEF Owned, Temp
  <2>3. QED
    BY <2>1, <2>2 DEF Owned
<1>4. QED
  BY <1>1, <1>2, <1>3 DEF Core

(* The same for the second part: a step of export e takes away no staging file *)
(* but its own and those of exports it marks, and replaces a target by its own *)
(* content unless it is marked itself.                                         *)
LEMMA LiftWhole ==
    ASSUME IInv, Core', NEW e \in Exports, e <= begun, begun' = begun,
           \A f \in Exports : f # e => exp'[f] = exp[f],
           \A f \in Exports : f # e => (f \in streams' <=> f \in streams),
           swept \subseteq swept',
           \A p \in Temps : temp'[p] # temp[p] => temp[p] \in {0, e} \/ temp[p] \in swept',
           \A x \in Targets : Done(e, x) => Done(e, x)',
           \A x \in Targets : \/ disk'[x] = disk[x] /\ by'[x] = by[x]
                              \/ by'[x] = e /\ (e \notin swept' => disk'[x] = e /\ Done(e, x)'),
           AtWork(e)'
    PROVE  IInv'
<1>1. \A f \in Exports : AtWork(f)'
  <2> TAKE f \in Exports
  <2>1. CASE f # e
    <3>0a. f # 0
      BY BoundsAreNat DEF Exports
    <3>0. f # 0 /\ exp[f] \in Export
      BY <3>0a, TypeParts DEF IInv, Core
    <3>1. f # 0 /\ Temp(f) \in Temps /\ Temp(f)' = Temp(f)
      BY <2>1, <3>0, TempsOfTargets DEF Export, Temp
    <3>2. AtWork(f)
      BY <3>1 DEF IInv
    <3>4. QED
      BY <2>1, <3>1, <3>2 DEF AtWork
  <2>2. QED
    BY <2>1
<1>3. \A x \in Targets : OnDisk(x)'
  <2> TAKE x \in Targets
  <2>1. CASE by'[x] = e /\ (e \notin swept' => disk'[x] = e /\ Done(e, x)')
    BY <2>1 DEF OnDisk, Done
  <2>2. CASE disk'[x] = disk[x] /\ by'[x] = by[x]
    <3>1. OnDisk(x)
      BY DEF IInv
    <3>2. QED
      BY <2>2, <3>1 DEF OnDisk, Done
  <2>3. QED
    BY <2>1, <2>2
<1>4. QED
  BY <1>1, <1>3 DEF IInv

-----------------------------------------------------------------------------
(* One lemma for each step of an export or of its task.                        *)

LEMMA GiveUpStep ==
    ASSUME Core, NEW e \in Exports, GiveUp(e)
    PROVE  Core' /\ (IInv => IInv')
<1> USE BoundsAreNat, TempsOfTargets DEF Fronts, Works
<1>1. /\ exp[e] \in Export /\ Shape(e) /\ Excused(e) /\ \A p \in Temps : Owned(p)
      /\ e \in Exports /\ e \in Nat /\ e # 0 /\ begun \in Nat /\ RestOK
      /\ e > begun => exp[e].front = "free" /\ exp[e].task = "none" /\ ~exp[e].appending
  BY Known, TypeParts DEF Core
<1> DEFINE j == [exp[e] EXCEPT !.front = "failing"]
<1>a. j \in Export
  BY <1>1 DEF Export
<1>b. Becomes(e, j)
  BY <1>1 DEF GiveUp
<1>c. /\ exp' \in [Exports -> Export] /\ exp'[e] = j
      /\ \A f \in Exports : f # e => exp'[f] = exp[f]
  BY <1>a, <1>b, OneChanges DEF Core
<1>d. /\ exp'[e].kind = exp[e].kind /\ exp'[e].target = exp[e].target
      /\ exp'[e].front = "failing" /\ exp'[e].task = exp[e].task
      /\ exp'[e].appending = exp[e].appending /\ exp'[e].handle = exp[e].handle
      /\ exp'[e].chunks = exp[e].chunks /\ exp'[e].torn = exp[e].torn
      /\ exp'[e].excused = exp[e].excused
  BY <1>1, <1>c DEF Export
<1>e. /\ begun' = begun
      /\ \A f \in Exports : f # e => (f \in streams' <=> f \in streams)
      /\ \A p \in Temps : temp'[p] \in {0, temp[p], e}
  BY <1>1 DEF GiveUp, RestOK
<1>f. RestOK'
  BY <1>1 DEF GiveUp, RestOK, Exports, Mishap
<1>g. ExportsOK'
  BY <1>c, <1>f DEF ExportsOK, RestOK, Export
<1>h. e <= begun
  BY <1>1 DEF GiveUp
<1>i. Shape(e)'
  BY <1>1, <1>d, <1>e, <1>h DEF GiveUp, Shape, Export
<1>j. Excused(e)'
  BY <1>1, <1>d DEF GiveUp, Shape, Excused, Owned, Temp, RestOK
<1>k. \A p \in Temps : temp'[p] = e =>
       Temp(e)' = p /\ exp'[e].task \notin {"create", "write", "replace"}
  BY <1>1, <1>d DEF GiveUp, Owned, Temp, RestOK
<1>l. Core'
  BY <1>c, <1>e, <1>g, <1>h, <1>i, <1>j, <1>k, Lift
<1>m. ASSUME IInv PROVE IInv'
  <2>0. Temp(e) \in Temps
    BY <1>1, TempsOfTargets DEF Temp, Export
  <2>1. AtWork(e) /\ Temp(e) \in Temps /\ swept \subseteq swept'
    BY <1>m, <1>1, <2>0 DEF IInv, GiveUp, history
  <2>2. AtWork(e)'
    BY <1>1, <1>d, <2>1 DEF GiveUp, Shape, AtWork, Temp, RestOK
  <2>3. \A p \in Temps : temp'[p] # temp[p] => temp[p] \in {0, e} \/ temp[p] \in swept'
    BY <1>1, <1>d, <2>1 DEF GiveUp, AtWork, RestOK, Temp
  <2>4. \A x \in Targets : Done(e, x) => Done(e, x)'
    BY <1>1, <1>d DEF GiveUp, Shape, Done
  <2>5. \A x \in Targets :
       \/ disk'[x] = disk[x] /\ by'[x] = by[x]
       \/ by'[x] = e /\ (e \notin swept' => disk'[x] = e /\ Done(e, x)')
    BY <1>1, <1>d, <2>1 DEF history, GiveUp, Shape, AtWork, Done, RestOK
  <2>6. QED
    BY <1>m, <1>c, <1>e, <1>h, <1>l, <2>2, <2>1, <2>3, <2>4, <2>5, LiftWhole
<1>n. QED
  BY <1>l, <1>m

LEMMA CloseHandleStep ==
    ASSUME Core, NEW e \in Exports, CloseHandle(e)
    PROVE  Core' /\ (IInv => IInv')
<1> USE BoundsAreNat, TempsOfTargets DEF Fronts, Works
<1>1. /\ exp[e] \in Export /\ Shape(e) /\ Excused(e) /\ \A p \in Temps : Owned(p)
      /\ e \in Exports /\ e \in Nat /\ e # 0 /\ begun \in Nat /\ RestOK
      /\ e > begun => exp[e].front = "free" /\ exp[e].task = "none" /\ ~exp[e].appending
  BY Known, TypeParts DEF Core
<1> DEFINE j == [exp[e] EXCEPT !.task = "unlink", !.handle = FALSE]
<1>a. j \in Export
  BY <1>1 DEF Export
<1>b. Becomes(e, j)
  BY <1>1 DEF CloseHandle
<1>c. /\ exp' \in [Exports -> Export] /\ exp'[e] = j
      /\ \A f \in Exports : f # e => exp'[f] = exp[f]
  BY <1>a, <1>b, OneChanges DEF Core
<1>d. /\ exp'[e].kind = exp[e].kind /\ exp'[e].target = exp[e].target
      /\ exp'[e].front = exp[e].front /\ exp'[e].task = "unlink"
      /\ exp'[e].appending = exp[e].appending /\ exp'[e].handle = FALSE
      /\ exp'[e].chunks = exp[e].chunks /\ exp'[e].torn = exp[e].torn
      /\ exp'[e].excused = exp[e].excused
  BY <1>1, <1>c DEF Export
<1>e. /\ begun' = begun
      /\ \A f \in Exports : f # e => (f \in streams' <=> f \in streams)
      /\ \A p \in Temps : temp'[p] \in {0, temp[p], e}
  BY <1>1 DEF CloseHandle, RestOK
<1>f. RestOK'
  BY <1>1 DEF CloseHandle, RestOK, Exports, Mishap
<1>g. ExportsOK'
  BY <1>c, <1>f DEF ExportsOK, RestOK, Export
<1>h. e <= begun
  BY <1>1 DEF CloseHandle
<1>i. Shape(e)'
  BY <1>1, <1>d, <1>e, <1>h DEF CloseHandle, Shape, Export
<1>j. Excused(e)'
  BY <1>1, <1>d DEF CloseHandle, Shape, Excused, Owned, Temp, RestOK
<1>k. \A p \in Temps : temp'[p] = e =>
       Temp(e)' = p /\ exp'[e].task \notin {"create", "write", "replace"}
  BY <1>1, <1>d DEF CloseHandle, Owned, Temp, RestOK
<1>l. Core'
  BY <1>c, <1>e, <1>g, <1>h, <1>i, <1>j, <1>k, Lift
<1>m. ASSUME IInv PROVE IInv'
  <2>0. Temp(e) \in Temps
    BY <1>1, TempsOfTargets DEF Temp, Export
  <2>1. AtWork(e) /\ Temp(e) \in Temps /\ swept \subseteq swept'
    BY <1>m, <1>1, <2>0 DEF IInv, CloseHandle, history
  <2>2. AtWork(e)'
    BY <1>1, <1>d, <2>1 DEF CloseHandle, Shape, AtWork, Temp, RestOK
  <2>3. \A p \in Temps : temp'[p] # temp[p] => temp[p] \in {0, e} \/ temp[p] \in swept'
    BY <1>1, <1>d, <2>1 DEF CloseHandle, AtWork, RestOK, Temp
  <2>4. \A x \in Targets : Done(e, x) => Done(e, x)'
    BY <1>1, <1>d DEF CloseHandle, Shape, Done
  <2>5. \A x \in Targets :
       \/ disk'[x] = disk[x] /\ by'[x] = by[x]
       \/ by'[x] = e /\ (e \notin swept' => disk'[x] = e /\ Done(e, x)')
    BY <1>1, <1>d, <2>1 DEF history, CloseHandle, Shape, AtWork, Done, RestOK
  <2>6. QED
    BY <1>m, <1>c, <1>e, <1>h, <1>l, <2>2, <2>1, <2>3, <2>4, <2>5, LiftWhole
<1>n. QED
  BY <1>l, <1>m

LEMMA SyncStep ==
    ASSUME Core, NEW e \in Exports, Sync(e)
    PROVE  Core' /\ (IInv => IInv')
<1> USE BoundsAreNat, TempsOfTargets DEF Fronts, Works
<1>1. /\ exp[e] \in Export /\ Shape(e) /\ Excused(e) /\ \A p \in Temps : Owned(p)
      /\ e \in Exports /\ e \in Nat /\ e # 0 /\ begun \in Nat /\ RestOK
      /\ e > begun => exp[e].front = "free" /\ exp[e].task = "none" /\ ~exp[e].appending
  BY Known, TypeParts DEF Core
<1> DEFINE j == [exp[e] EXCEPT !.task = "rename", !.handle = FALSE]
<1>a. j \in Export
  BY <1>1 DEF Export
<1>b. Becomes(e, j)
  BY <1>1 DEF Sync
<1>c. /\ exp' \in [Exports -> Export] /\ exp'[e] = j
      /\ \A f \in Exports : f # e => exp'[f] = exp[f]
  BY <1>a, <1>b, OneChanges DEF Core
<1>d. /\ exp'[e].kind = exp[e].kind /\ exp'[e].target = exp[e].target
      /\ exp'[e].front = exp[e].front /\ exp'[e].task = "rename"
      /\ exp'[e].appending = exp[e].appending /\ exp'[e].handle = FALSE
      /\ exp'[e].chunks = exp[e].chunks /\ exp'[e].torn = exp[e].torn
      /\ exp'[e].excused = exp[e].excused
  BY <1>1, <1>c DEF Export
<1>e. /\ begun' = begun
      /\ \A f \in Exports : f # e => (f \in streams' <=> f \in streams)
      /\ \A p \in Temps : temp'[p] \in {0, temp[p], e}
  BY <1>1 DEF Sync, RestOK
<1>f. RestOK'
  BY <1>1 DEF Sync, RestOK, Exports, Mishap
<1>g. ExportsOK'
  BY <1>c, <1>f DEF ExportsOK, RestOK, Export
<1>h. e <= begun
  BY <1>1 DEF Sync
<1>i. Shape(e)'
  BY <1>1, <1>d, <1>e, <1>h DEF Sync, Shape, Export
<1>j. Excused(e)'
  BY <1>1, <1>d DEF Sync, Shape, Excused, Owned, Temp, RestOK
<1>k. \A p \in Temps : temp'[p] = e =>
       Temp(e)' = p /\ exp'[e].task \notin {"create", "write", "replace"}
  BY <1>1, <1>d DEF Sync, Owned, Temp, RestOK
<1>l. Core'
  BY <1>c, <1>e, <1>g, <1>h, <1>i, <1>j, <1>k, Lift
<1>m. ASSUME IInv PROVE IInv'
  <2>0. Temp(e) \in Temps
    BY <1>1, TempsOfTargets DEF Temp, Export
  <2>1. AtWork(e) /\ Temp(e) \in Temps /\ swept \subseteq swept'
    BY <1>m, <1>1, <2>0 DEF IInv, Sync, history
  <2>2. AtWork(e)'
    BY <1>1, <1>d, <2>1 DEF Sync, Shape, AtWork, Temp, RestOK
  <2>3. \A p \in Temps : temp'[p] # temp[p] => temp[p] \in {0, e} \/ temp[p] \in swept'
    BY <1>1, <1>d, <2>1 DEF Sync, AtWork, RestOK, Temp
  <2>4. \A x \in Targets : Done(e, x) => Done(e, x)'
    BY <1>1, <1>d DEF Sync, Shape, Done
  <2>5. \A x \in Targets :
       \/ disk'[x] = disk[x] /\ by'[x] = by[x]
       \/ by'[x] = e /\ (e \notin swept' => disk'[x] = e /\ Done(e, x)')
    BY <1>1, <1>d, <2>1 DEF history, Sync, Shape, AtWork, Done, RestOK
  <2>6. QED
    BY <1>m, <1>c, <1>e, <1>h, <1>l, <2>2, <2>1, <2>3, <2>4, <2>5, LiftWhole
<1>n. QED
  BY <1>l, <1>m

LEMMA SyncFailsStep ==
    ASSUME Core, NEW e \in Exports, SyncFails(e)
    PROVE  Core' /\ (IInv => IInv')
<1> USE BoundsAreNat, TempsOfTargets DEF Fronts, Works
<1>1. /\ exp[e] \in Export /\ Shape(e) /\ Excused(e) /\ \A p \in Temps : Owned(p)
      /\ e \in Exports /\ e \in Nat /\ e # 0 /\ begun \in Nat /\ RestOK
      /\ e > begun => exp[e].front = "free" /\ exp[e].task = "none" /\ ~exp[e].appending
  BY Known, TypeParts DEF Core
<1> DEFINE j == [exp[e] EXCEPT !.task = "none",
                               !.handle = FALSE,
                               !.excused = TRUE,
                               !.front = Told(e, "finalize", "failing")]
<1>a. j \in Export
  BY <1>1 DEF Export, Told
<1>b. Becomes(e, j)
  BY <1>1 DEF SyncFails
<1>c. /\ exp' \in [Exports -> Export] /\ exp'[e] = j
      /\ \A f \in Exports : f # e => exp'[f] = exp[f]
  BY <1>a, <1>b, OneChanges DEF Core
<1>d. /\ exp'[e].kind = exp[e].kind /\ exp'[e].target = exp[e].target
      /\ exp'[e].front = Told(e, "finalize", "failing") /\ exp'[e].task = "none"
      /\ exp'[e].appending = exp[e].appending /\ exp'[e].handle = FALSE
      /\ exp'[e].chunks = exp[e].chunks /\ exp'[e].torn = exp[e].torn
      /\ exp'[e].excused = TRUE
  BY <1>1, <1>c DEF Export
<1>e. /\ begun' = begun
      /\ \A f \in Exports : f # e => (f \in streams' <=> f \in streams)
      /\ \A p \in Temps : temp'[p] \in {0, temp[p], e}
  BY <1>1 DEF SyncFails, RestOK
<1>f. RestOK'
  BY <1>1 DEF SyncFails, RestOK, Exports, Mishap
<1>g. ExportsOK'
  BY <1>c, <1>f DEF ExportsOK, RestOK, Export
<1>h. e <= begun
  BY <1>1 DEF SyncFails
<1>i. Shape(e)'
  BY <1>1, <1>d, <1>e, <1>h DEF SyncFails, Shape, Export, Told
<1>j. Excused(e)'
  BY <1>1, <1>d DEF SyncFails, Shape, Excused, Owned, Temp, RestOK, Told
<1>k. \A p \in Temps : temp'[p] = e =>
       Temp(e)' = p /\ exp'[e].task \notin {"create", "write", "replace"}
  BY <1>1, <1>d DEF SyncFails, Owned, Temp, RestOK
<1>l. Core'
  BY <1>c, <1>e, <1>g, <1>h, <1>i, <1>j, <1>k, Lift
<1>m. ASSUME IInv PROVE IInv'
  <2>0. Temp(e) \in Temps
    BY <1>1, TempsOfTargets DEF Temp, Export
  <2>1. AtWork(e) /\ Temp(e) \in Temps /\ swept \subseteq swept'
    BY <1>m, <1>1, <2>0 DEF IInv, SyncFails, history
  <2>2. AtWork(e)'
    BY <1>1, <1>d, <2>1 DEF SyncFails, Shape, AtWork, Temp, RestOK, Told
  <2>3. \A p \in Temps : temp'[p] # temp[p] => temp[p] \in {0, e} \/ temp[p] \in swept'
    BY <1>1, <1>d, <2>1 DEF SyncFails, AtWork, RestOK, Temp
  <2>4. \A x \in Targets : Done(e, x) => Done(e, x)'
    BY <1>1, <1>d DEF SyncFails, Shape, Done, Told
  <2>5. \A x \in Targets :
       \/ disk'[x] = disk[x] /\ by'[x] = by[x]
       \/ by'[x] = e /\ (e \notin swept' => disk'[x] = e /\ Done(e, x)')
    BY <1>1, <1>d, <2>1 DEF history, SyncFails, Shape, AtWork, Done, RestOK, Told
  <2>6. QED
    BY <1>m, <1>c, <1>e, <1>h, <1>l, <2>2, <2>1, <2>3, <2>4, <2>5, LiftWhole
<1>n. QED
  BY <1>l, <1>m

LEMMA RenameFailsStep ==
    ASSUME Core, NEW e \in Exports, RenameFails(e)
    PROVE  Core' /\ (IInv => IInv')
<1> USE BoundsAreNat, TempsOfTargets DEF Fronts, Works
<1>1. /\ exp[e] \in Export /\ Shape(e) /\ Excused(e) /\ \A p \in Temps : Owned(p)
      /\ e \in Exports /\ e \in Nat /\ e # 0 /\ begun \in Nat /\ RestOK
      /\ e > begun => exp[e].front = "free" /\ exp[e].task = "none" /\ ~exp[e].appending
  BY Known, TypeParts DEF Core
<1> DEFINE j == [exp[e] EXCEPT !.task = "unlink"]
<1>a. j \in Export
  BY <1>1 DEF Export
<1>b. Becomes(e, j)
  BY <1>1 DEF RenameFails
<1>c. /\ exp' \in [Exports -> Export] /\ exp'[e] = j
      /\ \A f \in Exports : f # e => exp'[f] = exp[f]
  BY <1>a, <1>b, OneChanges DEF Core
<1>d. /\ exp'[e].kind = exp[e].kind /\ exp'[e].target = exp[e].target
      /\ exp'[e].front = exp[e].front /\ exp'[e].task = "unlink"
      /\ exp'[e].appending = exp[e].appending /\ exp'[e].handle = exp[e].handle
      /\ exp'[e].chunks = exp[e].chunks /\ exp'[e].torn = exp[e].torn
      /\ exp'[e].excused = exp[e].excused
  BY <1>1, <1>c DEF Export
<1>e. /\ begun' = begun
      /\ \A f \in Exports : f # e => (f \in streams' <=> f \in streams)
      /\ \A p \in Temps : temp'[p] \in {0, temp[p], e}
  BY <1>1 DEF RenameFails, RestOK
<1>f. RestOK'
  BY <1>1 DEF RenameFails, RestOK, Exports, Mishap
<1>g. ExportsOK'
  BY <1>c, <1>f DEF ExportsOK, RestOK, Export
<1>h. e <= begun
  BY <1>1 DEF RenameFails
<1>i. Shape(e)'
  BY <1>1, <1>d, <1>e, <1>h DEF RenameFails, Shape, Export
<1>j. Excused(e)'
  BY <1>1, <1>d DEF RenameFails, Shape, Excused, Owned, Temp, RestOK
<1>k. \A p \in Temps : temp'[p] = e =>
       Temp(e)' = p /\ exp'[e].task \notin {"create", "write", "replace"}
  BY <1>1, <1>d DEF RenameFails, Owned, Temp, RestOK
<1>l. Core'
  BY <1>c, <1>e, <1>g, <1>h, <1>i, <1>j, <1>k, Lift
<1>m. ASSUME IInv PROVE IInv'
  <2>0. Temp(e) \in Temps
    BY <1>1, TempsOfTargets DEF Temp, Export
  <2>1. AtWork(e) /\ Temp(e) \in Temps /\ swept \subseteq swept'
    BY <1>m, <1>1, <2>0 DEF IInv, RenameFails, history
  <2>2. AtWork(e)'
    BY <1>1, <1>d, <2>1 DEF RenameFails, Shape, AtWork, Temp, RestOK
  <2>3. \A p \in Temps : temp'[p] # temp[p] => temp[p] \in {0, e} \/ temp[p] \in swept'
    BY <1>1, <1>d, <2>1 DEF RenameFails, AtWork, RestOK, Temp
  <2>4. \A x \in Targets : Done(e, x) => Done(e, x)'
    BY <1>1, <1>d DEF RenameFails, Shape, Done
  <2>5. \A x \in Targets :
       \/ disk'[x] = disk[x] /\ by'[x] = by[x]
       \/ by'[x] = e /\ (e \notin swept' => disk'[x] = e /\ Done(e, x)')
    BY <1>1, <1>d, <2>1 DEF history, RenameFails, Shape, AtWork, Done, RestOK
  <2>6. QED
    BY <1>m, <1>c, <1>e, <1>h, <1>l, <2>2, <2>1, <2>3, <2>4, <2>5, LiftWhole
<1>n. QED
  BY <1>l, <1>m

LEMMA RenameStep ==
    ASSUME Core, SweepOK, NEW e \in Exports, Rename(e)
    PROVE  Core' /\ (IInv => IInv')
<1> USE BoundsAreNat, TempsOfTargets DEF Fronts, Works
<1>1. /\ exp[e] \in Export /\ Shape(e) /\ Excused(e) /\ \A p \in Temps : Owned(p)
      /\ e \in Exports /\ e \in Nat /\ e # 0 /\ begun \in Nat /\ RestOK
      /\ e > begun => exp[e].front = "free" /\ exp[e].task = "none" /\ ~exp[e].appending
  BY Known, TypeParts DEF Core
<1> DEFINE j == [exp[e] EXCEPT !.task = "none", !.front = Told(e, "finalize", "ok")]
<1>a. j \in Export
  BY <1>1 DEF Export, Told
<1>b. Becomes(e, j)
  BY <1>1 DEF Rename
<1>c. /\ exp' \in [Exports -> Export] /\ exp'[e] = j
      /\ \A f \in Exports : f # e => exp'[f] = exp[f]
  BY <1>a, <1>b, OneChanges DEF Core
<1>d. /\ exp'[e].kind = exp[e].kind /\ exp'[e].target = exp[e].target
      /\ exp'[e].front = Told(e, "finalize", "ok") /\ exp'[e].task = "none"
      /\ exp'[e].appending = exp[e].appending /\ exp'[e].handle = exp[e].handle
      /\ exp'[e].chunks = exp[e].chunks /\ exp'[e].torn = exp[e].torn
      /\ exp'[e].excused = exp[e].excused
  BY <1>1, <1>c DEF Export
<1>e. /\ begun' = begun
      /\ \A f \in Exports : f # e => (f \in streams' <=> f \in streams)
      /\ \A p \in Temps : temp'[p] \in {0, temp[p], e}
  BY <1>1 DEF Rename, RestOK
<1>f. RestOK'
  <2>1. Temp(e) \in Temps
    BY <1>1, TempsOfTargets DEF Temp, Export
  <2>2. temp' \in [Temps -> 0..MaxExports] /\ old' \subseteq Temps
    BY <1>1, <2>1 DEF Rename, RestOK, Exports
  <2>3. disk' \in [Targets -> 0..MaxExports]
    BY <1>1, <2>1 DEF Rename, RestOK, Export
  <2>4. /\ begun' \in 0..MaxExports /\ streams' \subseteq Exports
        /\ writing' \in 0..MaxExports /\ unlocked' \in BOOLEAN /\ mishaps' \in Nat
    BY <1>1 DEF Rename, RestOK, Exports, Mishap
  <2>5. QED
    BY <2>2, <2>3, <2>4 DEF RestOK
<1>g. ExportsOK'
  BY <1>c, <1>f DEF ExportsOK, RestOK, Export
<1>h. e <= begun
  BY <1>1 DEF Rename
<1>i. Shape(e)'
  BY <1>1, <1>d, <1>e, <1>h DEF Rename, Shape, Export, Told
<1>j. Excused(e)'
  BY <1>1, <1>d DEF Rename, Shape, Excused, Owned, Temp, RestOK, Told
<1>k. \A p \in Temps : temp'[p] = e =>
       Temp(e)' = p /\ exp'[e].task \notin {"create", "write", "replace"}
  BY <1>1, <1>d DEF Rename, Owned, Temp, RestOK
<1>l. Core'
  BY <1>c, <1>e, <1>g, <1>h, <1>i, <1>j, <1>k, Lift
<1>m. ASSUME IInv PROVE IInv'
  <2>0. Temp(e) \in Temps
    BY <1>1, TempsOfTargets DEF Temp, Export
  <2>1. AtWork(e) /\ Temp(e) \in Temps /\ swept \subseteq swept'
    BY <1>m, <1>1, <2>0 DEF IInv, Rename, Takes
  <2>2. AtWork(e)'
    BY <1>1, <1>d, <2>1 DEF Rename, Shape, AtWork, Temp, RestOK, Told
  <2>3. \A p \in Temps : temp'[p] # temp[p] => temp[p] \in {0, e} \/ temp[p] \in swept'
    BY <1>1, <1>d, <2>1 DEF Rename, AtWork, RestOK, Temp, Takes
  <2>4. \A x \in Targets : Done(e, x) => Done(e, x)'
    BY <1>1, <1>d DEF Rename, Shape, Done, Told
  <2>5. \A x \in Targets :
       \/ disk'[x] = disk[x] /\ by'[x] = by[x]
       \/ by'[x] = e /\ (e \notin swept' => disk'[x] = e /\ Done(e, x)')
    <3> TAKE x \in Targets
    <3>1. DOMAIN by = Targets /\ DOMAIN disk = Targets
      BY <1>1 DEF SweepOK, RestOK
    <3>2. CASE x # exp[e].target
      BY <3>1, <3>2 DEF Rename
    <3>3. CASE x = exp[e].target
      BY <1>1, <1>d, <2>1, <3>1, <3>3 DEF history, Takes, Rename, Shape, AtWork, Done, RestOK, Told
    <3>4. QED
      BY <3>2, <3>3
  <2>6. QED
    BY <1>m, <1>c, <1>e, <1>h, <1>l, <2>2, <2>1, <2>3, <2>4, <2>5, LiftWhole
<1>n. QED
  BY <1>l, <1>m

LEMMA UnlinkStep ==
    ASSUME Core, NEW e \in Exports, Unlink(e)
    PROVE  Core' /\ (IInv => IInv')
<1> USE BoundsAreNat, TempsOfTargets DEF Fronts, Works
<1>1. /\ exp[e] \in Export /\ Shape(e) /\ Excused(e) /\ \A p \in Temps : Owned(p)
      /\ e \in Exports /\ e \in Nat /\ e # 0 /\ begun \in Nat /\ RestOK
      /\ e > begun => exp[e].front = "free" /\ exp[e].task = "none" /\ ~exp[e].appending
  BY Known, TypeParts DEF Core
<1> DEFINE j == [exp[e] EXCEPT !.task = "none", !.front = After(e)]
<1>a. j \in Export
  BY <1>1 DEF Export, After, Told
<1>b. Becomes(e, j)
  BY <1>1 DEF Unlink
<1>c. /\ exp' \in [Exports -> Export] /\ exp'[e] = j
      /\ \A f \in Exports : f # e => exp'[f] = exp[f]
  BY <1>a, <1>b, OneChanges DEF Core
<1>d. /\ exp'[e].kind = exp[e].kind /\ exp'[e].target = exp[e].target
      /\ exp'[e].front = After(e) /\ exp'[e].task = "none"
      /\ exp'[e].appending = exp[e].appending /\ exp'[e].handle = exp[e].handle
      /\ exp'[e].chunks = exp[e].chunks /\ exp'[e].torn = exp[e].torn
      /\ exp'[e].excused = exp[e].excused
  BY <1>1, <1>c DEF Export
<1>e. /\ begun' = begun
      /\ \A f \in Exports : f # e => (f \in streams' <=> f \in streams)
      /\ \A p \in Temps : temp'[p] \in {0, temp[p], e}
  BY <1>1 DEF Unlink, RestOK
<1>f. RestOK'
  <2>1. Temp(e) \in Temps
    BY <1>1, TempsOfTargets DEF Temp, Export
  <2>2. temp' \in [Temps -> 0..MaxExports] /\ old' \subseteq Temps
    BY <1>1, <2>1 DEF Unlink, RestOK, Exports
  <2>3. disk' \in [Targets -> 0..MaxExports]
    BY <1>1, <2>1 DEF Unlink, RestOK, Export
  <2>4. /\ begun' \in 0..MaxExports /\ streams' \subseteq Exports
        /\ writing' \in 0..MaxExports /\ unlocked' \in BOOLEAN /\ mishaps' \in Nat
    BY <1>1 DEF Unlink, RestOK, Exports, Mishap
  <2>5. QED
    BY <2>2, <2>3, <2>4 DEF RestOK
<1>g. ExportsOK'
  BY <1>c, <1>f DEF ExportsOK, RestOK, Export
<1>h. e <= begun
  BY <1>1 DEF Unlink
<1>i. Shape(e)'
  BY <1>1, <1>d, <1>e, <1>h DEF Unlink, Shape, Export, After, Told
<1>j. Excused(e)'
  BY <1>1, <1>d DEF Unlink, Shape, Excused, Owned, Temp, RestOK, After, Told
<1>k. \A p \in Temps : temp'[p] = e =>
       Temp(e)' = p /\ exp'[e].task \notin {"create", "write", "replace"}
  BY <1>1, <1>d DEF Unlink, Owned, Temp, RestOK
<1>l. Core'
  BY <1>c, <1>e, <1>g, <1>h, <1>i, <1>j, <1>k, Lift
<1>m. ASSUME IInv PROVE IInv'
  <2>0. Temp(e) \in Temps
    BY <1>1, TempsOfTargets DEF Temp, Export
  <2>1. AtWork(e) /\ Temp(e) \in Temps /\ swept \subseteq swept'
    BY <1>m, <1>1, <2>0 DEF IInv, Unlink, Takes
  <2>2. AtWork(e)'
    BY <1>1, <1>d, <2>1 DEF Unlink, Shape, AtWork, Temp, RestOK, After, Told
  <2>3. \A p \in Temps : temp'[p] # temp[p] => temp[p] \in {0, e} \/ temp[p] \in swept'
    BY <1>1, <1>d, <2>1 DEF Unlink, AtWork, RestOK, Temp, Takes
  <2>4. \A x \in Targets : Done(e, x) => Done(e, x)'
    BY <1>1, <1>d DEF Unlink, Shape, Done, After, Told
  <2>5. \A x \in Targets :
       \/ disk'[x] = disk[x] /\ by'[x] = by[x]
       \/ by'[x] = e /\ (e \notin swept' => disk'[x] = e /\ Done(e, x)')
    BY <1>1, <1>d, <2>1 DEF Takes, Unlink, Shape, AtWork, Done, RestOK, After, Told
  <2>6. QED
    BY <1>m, <1>c, <1>e, <1>h, <1>l, <2>2, <2>1, <2>3, <2>4, <2>5, LiftWhole
<1>n. QED
  BY <1>l, <1>m

LEMMA UnlinkFailsStep ==
    ASSUME Core, NEW e \in Exports, UnlinkFails(e)
    PROVE  Core' /\ (IInv => IInv')
<1> USE BoundsAreNat, TempsOfTargets DEF Fronts, Works
<1>1. /\ exp[e] \in Export /\ Shape(e) /\ Excused(e) /\ \A p \in Temps : Owned(p)
      /\ e \in Exports /\ e \in Nat /\ e # 0 /\ begun \in Nat /\ RestOK
      /\ e > begun => exp[e].front = "free" /\ exp[e].task = "none" /\ ~exp[e].appending
  BY Known, TypeParts DEF Core
<1> DEFINE j == [exp[e] EXCEPT !.task = "none", !.front = After(e), !.excused = TRUE]
<1>a. j \in Export
  BY <1>1 DEF Export, After, Told
<1>b. Becomes(e, j)
  BY <1>1 DEF UnlinkFails
<1>c. /\ exp' \in [Exports -> Export] /\ exp'[e] = j
      /\ \A f \in Exports : f # e => exp'[f] = exp[f]
  BY <1>a, <1>b, OneChanges DEF Core
<1>d. /\ exp'[e].kind = exp[e].kind /\ exp'[e].target = exp[e].target
      /\ exp'[e].front = After(e) /\ exp'[e].task = "none"
      /\ exp'[e].appending = exp[e].appending /\ exp'[e].handle = exp[e].handle
      /\ exp'[e].chunks = exp[e].chunks /\ exp'[e].torn = exp[e].torn
      /\ exp'[e].excused = TRUE
  BY <1>1, <1>c DEF Export
<1>e. /\ begun' = begun
      /\ \A f \in Exports : f # e => (f \in streams' <=> f \in streams)
      /\ \A p \in Temps : temp'[p] \in {0, temp[p], e}
  BY <1>1 DEF UnlinkFails, RestOK
<1>f. RestOK'
  BY <1>1 DEF UnlinkFails, RestOK, Exports, Mishap
<1>g. ExportsOK'
  BY <1>c, <1>f DEF ExportsOK, RestOK, Export
<1>h. e <= begun
  BY <1>1 DEF UnlinkFails
<1>i. Shape(e)'
  BY <1>1, <1>d, <1>e, <1>h DEF UnlinkFails, Shape, Export, After, Told
<1>j. Excused(e)'
  BY <1>1, <1>d DEF UnlinkFails, Shape, Excused, Owned, Temp, RestOK, After, Told
<1>k. \A p \in Temps : temp'[p] = e =>
       Temp(e)' = p /\ exp'[e].task \notin {"create", "write", "replace"}
  BY <1>1, <1>d DEF UnlinkFails, Owned, Temp, RestOK
<1>l. Core'
  BY <1>c, <1>e, <1>g, <1>h, <1>i, <1>j, <1>k, Lift
<1>m. ASSUME IInv PROVE IInv'
  <2>0. Temp(e) \in Temps
    BY <1>1, TempsOfTargets DEF Temp, Export
  <2>1. AtWork(e) /\ Temp(e) \in Temps /\ swept \subseteq swept'
    BY <1>m, <1>1, <2>0 DEF IInv, UnlinkFails, history
  <2>2. AtWork(e)'
    BY <1>1, <1>d, <2>1 DEF UnlinkFails, Shape, AtWork, Temp, RestOK, After, Told
  <2>3. \A p \in Temps : temp'[p] # temp[p] => temp[p] \in {0, e} \/ temp[p] \in swept'
    BY <1>1, <1>d, <2>1 DEF UnlinkFails, AtWork, RestOK, Temp
  <2>4. \A x \in Targets : Done(e, x) => Done(e, x)'
    BY <1>1, <1>d DEF UnlinkFails, Shape, Done, After, Told
  <2>5. \A x \in Targets :
       \/ disk'[x] = disk[x] /\ by'[x] = by[x]
       \/ by'[x] = e /\ (e \notin swept' => disk'[x] = e /\ Done(e, x)')
    BY <1>1, <1>d, <2>1 DEF history, UnlinkFails, Shape, AtWork, Done, RestOK, After, Told
  <2>6. QED
    BY <1>m, <1>c, <1>e, <1>h, <1>l, <2>2, <2>1, <2>3, <2>4, <2>5, LiftWhole
<1>n. QED
  BY <1>l, <1>m

LEMMA AppendStep ==
    ASSUME Core, NEW e \in Exports, Append(e)
    PROVE  Core' /\ (IInv => IInv')
<1> USE BoundsAreNat, TempsOfTargets DEF Fronts, Works
<1>1. /\ exp[e] \in Export /\ Shape(e) /\ Excused(e) /\ \A p \in Temps : Owned(p)
      /\ e \in Exports /\ e \in Nat /\ e # 0 /\ begun \in Nat /\ RestOK
      /\ e > begun => exp[e].front = "free" /\ exp[e].task = "none" /\ ~exp[e].appending
  BY Known, TypeParts DEF Core
<1>2. CASE unlocked /\ e \in streams
  <2> DEFINE j == [exp[e] EXCEPT !.front = "append", !.appending = TRUE]
  <2>a. j \in Export
    BY <1>2, <1>1 DEF Export, Unsent
  <2>b. Becomes(e, j)
    BY <1>2, <1>1 DEF Append
  <2>c. /\ exp' \in [Exports -> Export] /\ exp'[e] = j
        /\ \A f \in Exports : f # e => exp'[f] = exp[f]
    BY <2>a, <2>b, OneChanges DEF Core
  <2>d. /\ exp'[e].kind = exp[e].kind /\ exp'[e].target = exp[e].target
        /\ exp'[e].front = "append" /\ exp'[e].task = exp[e].task
        /\ exp'[e].appending = TRUE /\ exp'[e].handle = exp[e].handle
        /\ exp'[e].chunks = exp[e].chunks /\ exp'[e].torn = exp[e].torn
        /\ exp'[e].excused = exp[e].excused
    BY <1>1, <2>c DEF Export
  <2>e. /\ begun' = begun
        /\ \A f \in Exports : f # e => (f \in streams' <=> f \in streams)
        /\ \A p \in Temps : temp'[p] \in {0, temp[p], e}
    BY <1>2, <1>1 DEF Append, RestOK
  <2>f. RestOK'
    BY <1>2, <1>1 DEF Append, RestOK, Exports, Mishap
  <2>g. ExportsOK'
    BY <2>c, <2>f DEF ExportsOK, RestOK, Export
  <2>h. e <= begun
    BY <1>2, <1>1 DEF Append
  <2>i. Shape(e)'
    BY <1>2, <1>1, <2>d, <2>e, <2>h DEF Append, Shape, Export, Unsent
  <2>j. Excused(e)'
    BY <1>2, <1>1, <2>d DEF Append, Shape, Excused, Owned, Temp, RestOK, Unsent
  <2>k. \A p \in Temps : temp'[p] = e =>
         Temp(e)' = p /\ exp'[e].task \notin {"create", "write", "replace"}
    BY <1>2, <1>1, <2>d DEF Append, Owned, Temp, RestOK
  <2>l. Core'
    BY <2>c, <2>e, <2>g, <2>h, <2>i, <2>j, <2>k, Lift
  <2>m. ASSUME IInv PROVE IInv'
    <3>0. Temp(e) \in Temps
      BY <1>1, TempsOfTargets DEF Temp, Export
    <3>1. AtWork(e) /\ Temp(e) \in Temps /\ swept \subseteq swept'
      BY <2>m, <1>1, <3>0 DEF IInv, Append, history
    <3>2. AtWork(e)'
      BY <1>2, <1>1, <2>d, <3>1 DEF Append, Shape, AtWork, Temp, RestOK, Unsent
    <3>3. \A p \in Temps : temp'[p] # temp[p] => temp[p] \in {0, e} \/ temp[p] \in swept'
      BY <1>2, <1>1, <2>d, <3>1 DEF Append, AtWork, RestOK, Temp
    <3>4. \A x \in Targets : Done(e, x) => Done(e, x)'
      BY <1>2, <1>1, <2>d DEF Append, Shape, Done, Unsent
    <3>5. \A x \in Targets :
         \/ disk'[x] = disk[x] /\ by'[x] = by[x]
         \/ by'[x] = e /\ (e \notin swept' => disk'[x] = e /\ Done(e, x)')
      BY <1>2, <1>1, <2>d, <3>1 DEF history, Append, Shape, AtWork, Done, RestOK, Unsent
    <3>6. QED
      BY <2>m, <2>c, <2>e, <2>h, <2>l, <3>2, <3>1, <3>3, <3>4, <3>5, LiftWhole
  <2>n. QED
    BY <2>l, <2>m
<1>3. CASE ~(unlocked /\ e \in streams)
  <2> DEFINE j == [exp[e] EXCEPT !.front = "failing"]
  <2>a. j \in Export
    BY <1>3, <1>1 DEF Export, Unsent
  <2>b. Becomes(e, j)
    BY <1>3, <1>1 DEF Append
  <2>c. /\ exp' \in [Exports -> Export] /\ exp'[e] = j
        /\ \A f \in Exports : f # e => exp'[f] = exp[f]
    BY <2>a, <2>b, OneChanges DEF Core
  <2>d. /\ exp'[e].kind = exp[e].kind /\ exp'[e].target = exp[e].target
        /\ exp'[e].front = "failing" /\ exp'[e].task = exp[e].task
        /\ exp'[e].appending = exp[e].appending /\ exp'[e].handle = exp[e].handle
        /\ exp'[e].chunks = exp[e].chunks /\ exp'[e].torn = exp[e].torn
        /\ exp'[e].excused = exp[e].excused
    BY <1>1, <2>c DEF Export
  <2>e. /\ begun' = begun
        /\ \A f \in Exports : f # e => (f \in streams' <=> f \in streams)
        /\ \A p \in Temps : temp'[p] \in {0, temp[p], e}
    BY <1>3, <1>1 DEF Append, RestOK
  <2>f. RestOK'
    BY <1>3, <1>1 DEF Append, RestOK, Exports, Mishap
  <2>g. ExportsOK'
    BY <2>c, <2>f DEF ExportsOK, RestOK, Export
  <2>h. e <= begun
    BY <1>3, <1>1 DEF Append
  <2>i. Shape(e)'
    BY <1>3, <1>1, <2>d, <2>e, <2>h DEF Append, Shape, Export, Unsent
  <2>j. Excused(e)'
    BY <1>3, <1>1, <2>d DEF Append, Shape, Excused, Owned, Temp, RestOK, Unsent
  <2>k. \A p \in Temps : temp'[p] = e =>
         Temp(e)' = p /\ exp'[e].task \notin {"create", "write", "replace"}
    BY <1>3, <1>1, <2>d DEF Append, Owned, Temp, RestOK
  <2>l. Core'
    BY <2>c, <2>e, <2>g, <2>h, <2>i, <2>j, <2>k, Lift
  <2>m. ASSUME IInv PROVE IInv'
    <3>0. Temp(e) \in Temps
      BY <1>1, TempsOfTargets DEF Temp, Export
    <3>1. AtWork(e) /\ Temp(e) \in Temps /\ swept \subseteq swept'
      BY <2>m, <1>1, <3>0 DEF IInv, Append, history
    <3>2. AtWork(e)'
      BY <1>3, <1>1, <2>d, <3>1 DEF Append, Shape, AtWork, Temp, RestOK, Unsent
    <3>3. \A p \in Temps : temp'[p] # temp[p] => temp[p] \in {0, e} \/ temp[p] \in swept'
      BY <1>3, <1>1, <2>d, <3>1 DEF Append, AtWork, RestOK, Temp
    <3>4. \A x \in Targets : Done(e, x) => Done(e, x)'
      BY <1>3, <1>1, <2>d DEF Append, Shape, Done, Unsent
    <3>5. \A x \in Targets :
         \/ disk'[x] = disk[x] /\ by'[x] = by[x]
         \/ by'[x] = e /\ (e \notin swept' => disk'[x] = e /\ Done(e, x)')
      BY <1>3, <1>1, <2>d, <3>1 DEF history, Append, Shape, AtWork, Done, RestOK, Unsent
    <3>6. QED
      BY <2>m, <2>c, <2>e, <2>h, <2>l, <3>2, <3>1, <3>3, <3>4, <3>5, LiftWhole
  <2>n. QED
    BY <2>l, <2>m
<1>4. QED
  BY <1>2, <1>3 DEF Append

LEMMA AppendWritesStep ==
    ASSUME Core, NEW e \in Exports, AppendWrites(e)
    PROVE  Core' /\ (IInv => IInv')
<1> USE BoundsAreNat, TempsOfTargets DEF Fronts, Works
<1>1. /\ exp[e] \in Export /\ Shape(e) /\ Excused(e) /\ \A p \in Temps : Owned(p)
      /\ e \in Exports /\ e \in Nat /\ e # 0 /\ begun \in Nat /\ RestOK
      /\ e > begun => exp[e].front = "free" /\ exp[e].task = "none" /\ ~exp[e].appending
  BY Known, TypeParts DEF Core
<1> DEFINE j == [exp[e] EXCEPT !.appending = FALSE,
                               !.chunks = exp[e].chunks + 1,
                               !.front = Told(e, "append", "open")]
<1>0. exp[e].chunks + 1 \in 0..Chunks /\ Told(e, "append", "open") \in Fronts
  BY <1>1 DEF AppendWrites, Shape, Export, Told
<1>a. j \in Export
  BY <1>1, <1>0 DEF Export
<1>b. Becomes(e, j)
  BY <1>1 DEF AppendWrites
<1>c. /\ exp' \in [Exports -> Export] /\ exp'[e] = j
      /\ \A f \in Exports : f # e => exp'[f] = exp[f]
  BY <1>a, <1>b, OneChanges DEF Core
<1>d. /\ exp'[e].kind = exp[e].kind /\ exp'[e].target = exp[e].target
      /\ exp'[e].front = Told(e, "append", "open") /\ exp'[e].task = exp[e].task
      /\ exp'[e].appending = FALSE /\ exp'[e].handle = exp[e].handle
      /\ exp'[e].chunks = exp[e].chunks + 1 /\ exp'[e].torn = exp[e].torn
      /\ exp'[e].excused = exp[e].excused
  BY <1>1, <1>c DEF Export
<1>e. /\ begun' = begun
      /\ \A f \in Exports : f # e => (f \in streams' <=> f \in streams)
      /\ \A p \in Temps : temp'[p] \in {0, temp[p], e}
  BY <1>1 DEF AppendWrites, RestOK
<1>f. RestOK'
  BY <1>1 DEF AppendWrites, RestOK, Exports, Mishap
<1>g. ExportsOK'
  BY <1>c, <1>f DEF ExportsOK, RestOK, Export
<1>h. e <= begun
  BY <1>1 DEF AppendWrites
<1>i. Shape(e)'
  BY <1>1, <1>d, <1>e, <1>h DEF AppendWrites, Shape, Export, Told
<1>j. Excused(e)'
  BY <1>1, <1>d DEF AppendWrites, Shape, Excused, Owned, Temp, RestOK, Told
<1>k. \A p \in Temps : temp'[p] = e =>
       Temp(e)' = p /\ exp'[e].task \notin {"create", "write", "replace"}
  BY <1>1, <1>d DEF AppendWrites, Owned, Temp, RestOK
<1>l. Core'
  BY <1>c, <1>e, <1>g, <1>h, <1>i, <1>j, <1>k, Lift
<1>m. ASSUME IInv PROVE IInv'
  <2>0. Temp(e) \in Temps
    BY <1>1, TempsOfTargets DEF Temp, Export
  <2>1. AtWork(e) /\ Temp(e) \in Temps /\ swept \subseteq swept'
    BY <1>m, <1>1, <2>0 DEF IInv, AppendWrites, history
  <2>2. AtWork(e)'
    BY <1>1, <1>d, <2>1 DEF AppendWrites, Shape, AtWork, Temp, RestOK, Told
  <2>3. \A p \in Temps : temp'[p] # temp[p] => temp[p] \in {0, e} \/ temp[p] \in swept'
    BY <1>1, <1>d, <2>1 DEF AppendWrites, AtWork, RestOK, Temp
  <2>4. \A x \in Targets : Done(e, x) => Done(e, x)'
    BY <1>1, <1>d DEF AppendWrites, Shape, Done, Told
  <2>5. \A x \in Targets :
       \/ disk'[x] = disk[x] /\ by'[x] = by[x]
       \/ by'[x] = e /\ (e \notin swept' => disk'[x] = e /\ Done(e, x)')
    BY <1>1, <1>d, <2>1 DEF history, AppendWrites, Shape, AtWork, Done, RestOK, Told
  <2>6. QED
    BY <1>m, <1>c, <1>e, <1>h, <1>l, <2>2, <2>1, <2>3, <2>4, <2>5, LiftWhole
<1>n. QED
  BY <1>l, <1>m

LEMMA WholeWritesStep ==
    ASSUME Core, NEW e \in Exports, WholeWrites(e)
    PROVE  Core' /\ (IInv => IInv')
<1> USE BoundsAreNat, TempsOfTargets DEF Fronts, Works
<1>1. /\ exp[e] \in Export /\ Shape(e) /\ Excused(e) /\ \A p \in Temps : Owned(p)
      /\ e \in Exports /\ e \in Nat /\ e # 0 /\ begun \in Nat /\ RestOK
      /\ e > begun => exp[e].front = "free" /\ exp[e].task = "none" /\ ~exp[e].appending
  BY Known, TypeParts DEF Core
<1> DEFINE j == [exp[e] EXCEPT !.task = "replace", !.chunks = Chunks]
<1>0. Chunks \in 0..Chunks
  BY <1>1 DEF Export
<1>a. j \in Export
  BY <1>1, <1>0 DEF Export
<1>b. Becomes(e, j)
  BY <1>1 DEF WholeWrites
<1>c. /\ exp' \in [Exports -> Export] /\ exp'[e] = j
      /\ \A f \in Exports : f # e => exp'[f] = exp[f]
  BY <1>a, <1>b, OneChanges DEF Core
<1>d. /\ exp'[e].kind = exp[e].kind /\ exp'[e].target = exp[e].target
      /\ exp'[e].front = exp[e].front /\ exp'[e].task = "replace"
      /\ exp'[e].appending = exp[e].appending /\ exp'[e].handle = exp[e].handle
      /\ exp'[e].chunks = Chunks /\ exp'[e].torn = exp[e].torn
      /\ exp'[e].excused = exp[e].excused
  BY <1>1, <1>c DEF Export
<1>e. /\ begun' = begun
      /\ \A f \in Exports : f # e => (f \in streams' <=> f \in streams)
      /\ \A p \in Temps : temp'[p] \in {0, temp[p], e}
  BY <1>1 DEF WholeWrites, RestOK
<1>f. RestOK'
  BY <1>1 DEF WholeWrites, RestOK, Exports, Mishap
<1>g. ExportsOK'
  BY <1>c, <1>f DEF ExportsOK, RestOK, Export
<1>h. e <= begun
  BY <1>1 DEF WholeWrites
<1>i. Shape(e)'
  BY <1>1, <1>d, <1>e, <1>h DEF WholeWrites, Shape, Export
<1>j. Excused(e)'
  BY <1>1, <1>d DEF WholeWrites, Shape, Excused, Owned, Temp, RestOK
<1>k. \A p \in Temps : temp'[p] = e =>
       Temp(e)' = p /\ exp'[e].task \notin {"create", "write", "replace"}
  BY <1>1, <1>d DEF WholeWrites, Owned, Temp, RestOK
<1>l. Core'
  BY <1>c, <1>e, <1>g, <1>h, <1>i, <1>j, <1>k, Lift
<1>m. ASSUME IInv PROVE IInv'
  <2>0. Temp(e) \in Temps
    BY <1>1, TempsOfTargets DEF Temp, Export
  <2>1. AtWork(e) /\ Temp(e) \in Temps /\ swept \subseteq swept'
    BY <1>m, <1>1, <2>0 DEF IInv, WholeWrites, history
  <2>2. AtWork(e)'
    BY <1>1, <1>d, <2>1 DEF WholeWrites, Shape, AtWork, Temp, RestOK
  <2>3. \A p \in Temps : temp'[p] # temp[p] => temp[p] \in {0, e} \/ temp[p] \in swept'
    BY <1>1, <1>d, <2>1 DEF WholeWrites, AtWork, RestOK, Temp
  <2>4. \A x \in Targets : Done(e, x) => Done(e, x)'
    BY <1>1, <1>d DEF WholeWrites, Shape, Done
  <2>5. \A x \in Targets :
       \/ disk'[x] = disk[x] /\ by'[x] = by[x]
       \/ by'[x] = e /\ (e \notin swept' => disk'[x] = e /\ Done(e, x)')
    BY <1>1, <1>d, <2>1 DEF history, WholeWrites, Shape, AtWork, Done, RestOK
  <2>6. QED
    BY <1>m, <1>c, <1>e, <1>h, <1>l, <2>2, <2>1, <2>3, <2>4, <2>5, LiftWhole
<1>n. QED
  BY <1>l, <1>m

LEMMA WholeReplacesStep ==
    ASSUME Core, SweepOK, NEW e \in Exports, WholeReplaces(e)
    PROVE  Core' /\ (IInv => IInv')
<1> USE BoundsAreNat, TempsOfTargets DEF Fronts, Works
<1>1. /\ exp[e] \in Export /\ Shape(e) /\ Excused(e) /\ \A p \in Temps : Owned(p)
      /\ e \in Exports /\ e \in Nat /\ e # 0 /\ begun \in Nat /\ RestOK
      /\ e > begun => exp[e].front = "free" /\ exp[e].task = "none" /\ ~exp[e].appending
  BY Known, TypeParts DEF Core
<1> DEFINE j == [exp[e] EXCEPT !.task = "none", !.front = Told(e, "write", "ok")]
<1>a. j \in Export
  BY <1>1 DEF Export, Told
<1>b. Becomes(e, j)
  BY <1>1 DEF WholeReplaces
<1>c. /\ exp' \in [Exports -> Export] /\ exp'[e] = j
      /\ \A f \in Exports : f # e => exp'[f] = exp[f]
  BY <1>a, <1>b, OneChanges DEF Core
<1>d. /\ exp'[e].kind = exp[e].kind /\ exp'[e].target = exp[e].target
      /\ exp'[e].front = Told(e, "write", "ok") /\ exp'[e].task = "none"
      /\ exp'[e].appending = exp[e].appending /\ exp'[e].handle = exp[e].handle
      /\ exp'[e].chunks = exp[e].chunks /\ exp'[e].torn = exp[e].torn
      /\ exp'[e].excused = exp[e].excused
  BY <1>1, <1>c DEF Export
<1>e. /\ begun' = begun
      /\ \A f \in Exports : f # e => (f \in streams' <=> f \in streams)
      /\ \A p \in Temps : temp'[p] \in {0, temp[p], e}
  BY <1>1 DEF WholeReplaces, RestOK
<1>f. RestOK'
  <2>1. Temp(e) \in Temps
    BY <1>1, TempsOfTargets DEF Temp, Export
  <2>2. temp' \in [Temps -> 0..MaxExports] /\ old' \subseteq Temps
    BY <1>1, <2>1 DEF WholeReplaces, RestOK, Exports
  <2>3. disk' \in [Targets -> 0..MaxExports]
    BY <1>1, <2>1 DEF WholeReplaces, RestOK, Export
  <2>4. /\ begun' \in 0..MaxExports /\ streams' \subseteq Exports
        /\ writing' \in 0..MaxExports /\ unlocked' \in BOOLEAN /\ mishaps' \in Nat
    BY <1>1 DEF WholeReplaces, RestOK, Exports, Mishap
  <2>5. QED
    BY <2>2, <2>3, <2>4 DEF RestOK
<1>g. ExportsOK'
  BY <1>c, <1>f DEF ExportsOK, RestOK, Export
<1>h. e <= begun
  BY <1>1 DEF WholeReplaces
<1>i. Shape(e)'
  BY <1>1, <1>d, <1>e, <1>h DEF WholeReplaces, Shape, Export, Told
<1>j. Excused(e)'
  BY <1>1, <1>d DEF WholeReplaces, Shape, Excused, Owned, Temp, RestOK, Told
<1>k. \A p \in Temps : temp'[p] = e =>
       Temp(e)' = p /\ exp'[e].task \notin {"create", "write", "replace"}
  BY <1>1, <1>d DEF WholeReplaces, Owned, Temp, RestOK
<1>l. Core'
  BY <1>c, <1>e, <1>g, <1>h, <1>i, <1>j, <1>k, Lift
<1>m. ASSUME IInv PROVE IInv'
  <2>0. Temp(e) \in Temps
    BY <1>1, TempsOfTargets DEF Temp, Export
  <2>1. AtWork(e) /\ Temp(e) \in Temps /\ swept \subseteq swept'
    BY <1>m, <1>1, <2>0 DEF IInv, WholeReplaces, history
  <2>2. AtWork(e)'
    BY <1>1, <1>d, <2>1 DEF WholeReplaces, Shape, AtWork, Temp, RestOK, Told
  <2>3. \A p \in Temps : temp'[p] # temp[p] => temp[p] \in {0, e} \/ temp[p] \in swept'
    BY <1>1, <1>d, <2>1 DEF WholeReplaces, AtWork, RestOK, Temp
  <2>4. \A x \in Targets : Done(e, x) => Done(e, x)'
    BY <1>1, <1>d DEF WholeReplaces, Shape, Done, Told
  <2>5. \A x \in Targets :
       \/ disk'[x] = disk[x] /\ by'[x] = by[x]
       \/ by'[x] = e /\ (e \notin swept' => disk'[x] = e /\ Done(e, x)')
    <3> TAKE x \in Targets
    <3>1. DOMAIN by = Targets /\ DOMAIN disk = Targets
      BY <1>1 DEF SweepOK, RestOK
    <3>2. CASE x # exp[e].target
      BY <3>1, <3>2 DEF WholeReplaces
    <3>3. CASE x = exp[e].target
      BY <1>1, <1>d, <2>1, <3>1, <3>3 DEF history, WholeReplaces, Shape, AtWork, Done, RestOK, Told
    <3>4. QED
      BY <3>2, <3>3
  <2>6. QED
    BY <1>m, <1>c, <1>e, <1>h, <1>l, <2>2, <2>1, <2>3, <2>4, <2>5, LiftWhole
<1>n. QED
  BY <1>l, <1>m

LEMMA WholeFailsStep ==
    ASSUME Core, NEW e \in Exports, WholeFails(e)
    PROVE  Core' /\ (IInv => IInv')
<1> USE BoundsAreNat, TempsOfTargets DEF Fronts, Works
<1>1. /\ exp[e] \in Export /\ Shape(e) /\ Excused(e) /\ \A p \in Temps : Owned(p)
      /\ e \in Exports /\ e \in Nat /\ e # 0 /\ begun \in Nat /\ RestOK
      /\ e > begun => exp[e].front = "free" /\ exp[e].task = "none" /\ ~exp[e].appending
  BY Known, TypeParts DEF Core
<1> DEFINE j == [exp[e] EXCEPT !.task = "none", !.front = Told(e, "write", "failed")]
<1>a. j \in Export
  BY <1>1 DEF Export, Told
<1>b. Becomes(e, j)
  BY <1>1 DEF WholeFails
<1>c. /\ exp' \in [Exports -> Export] /\ exp'[e] = j
      /\ \A f \in Exports : f # e => exp'[f] = exp[f]
  BY <1>a, <1>b, OneChanges DEF Core
<1>d. /\ exp'[e].kind = exp[e].kind /\ exp'[e].target = exp[e].target
      /\ exp'[e].front = Told(e, "write", "failed") /\ exp'[e].task = "none"
      /\ exp'[e].appending = exp[e].appending /\ exp'[e].handle = exp[e].handle
      /\ exp'[e].chunks = exp[e].chunks /\ exp'[e].torn = exp[e].torn
      /\ exp'[e].excused = exp[e].excused
  BY <1>1, <1>c DEF Export
<1>e. /\ begun' = begun
      /\ \A f \in Exports : f # e => (f \in streams' <=> f \in streams)
      /\ \A p \in Temps : temp'[p] \in {0, temp[p], e}
  BY <1>1 DEF WholeFails, RestOK
<1>f. RestOK'
  BY <1>1 DEF WholeFails, RestOK, Exports, Mishap
<1>g. ExportsOK'
  BY <1>c, <1>f DEF ExportsOK, RestOK, Export
<1>h. e <= begun
  BY <1>1 DEF WholeFails
<1>i. Shape(e)'
  BY <1>1, <1>d, <1>e, <1>h DEF WholeFails, Shape, Export, Told
<1>j. Excused(e)'
  BY <1>1, <1>d DEF WholeFails, Shape, Excused, Owned, Temp, RestOK, Told
<1>k. \A p \in Temps : temp'[p] = e =>
       Temp(e)' = p /\ exp'[e].task \notin {"create", "write", "replace"}
  BY <1>1, <1>d DEF WholeFails, Owned, Temp, RestOK
<1>l. Core'
  BY <1>c, <1>e, <1>g, <1>h, <1>i, <1>j, <1>k, Lift
<1>m. ASSUME IInv PROVE IInv'
  <2>0. Temp(e) \in Temps
    BY <1>1, TempsOfTargets DEF Temp, Export
  <2>1. AtWork(e) /\ Temp(e) \in Temps /\ swept \subseteq swept'
    BY <1>m, <1>1, <2>0 DEF IInv, WholeFails, history
  <2>2. AtWork(e)'
    BY <1>1, <1>d, <2>1 DEF WholeFails, Shape, AtWork, Temp, RestOK, Told
  <2>3. \A p \in Temps : temp'[p] # temp[p] => temp[p] \in {0, e} \/ temp[p] \in swept'
    BY <1>1, <1>d, <2>1 DEF WholeFails, AtWork, RestOK, Temp
  <2>4. \A x \in Targets : Done(e, x) => Done(e, x)'
    BY <1>1, <1>d DEF WholeFails, Shape, Done, Told
  <2>5. \A x \in Targets :
       \/ disk'[x] = disk[x] /\ by'[x] = by[x]
       \/ by'[x] = e /\ (e \notin swept' => disk'[x] = e /\ Done(e, x)')
    BY <1>1, <1>d, <2>1 DEF history, WholeFails, Shape, AtWork, Done, RestOK, Told
  <2>6. QED
    BY <1>m, <1>c, <1>e, <1>h, <1>l, <2>2, <2>1, <2>3, <2>4, <2>5, LiftWhole
<1>n. QED
  BY <1>l, <1>m

LEMMA CreateFailsStep ==
    ASSUME Core, NEW e \in Exports, CreateFails(e)
    PROVE  Core' /\ (IInv => IInv')
<1> USE BoundsAreNat, TempsOfTargets DEF Fronts, Works
<1>1. /\ exp[e] \in Export /\ Shape(e) /\ Excused(e) /\ \A p \in Temps : Owned(p)
      /\ e \in Exports /\ e \in Nat /\ e # 0 /\ begun \in Nat /\ RestOK
      /\ e > begun => exp[e].front = "free" /\ exp[e].task = "none" /\ ~exp[e].appending
  BY Known, TypeParts DEF Core
<1> DEFINE j == [exp[e] EXCEPT !.task = "none", !.front = Told(e, "create", "failed")]
<1>a. j \in Export
  BY <1>1 DEF Export, Told
<1>b. Becomes(e, j)
  BY <1>1 DEF CreateFails
<1>c. /\ exp' \in [Exports -> Export] /\ exp'[e] = j
      /\ \A f \in Exports : f # e => exp'[f] = exp[f]
  BY <1>a, <1>b, OneChanges DEF Core
<1>d. /\ exp'[e].kind = exp[e].kind /\ exp'[e].target = exp[e].target
      /\ exp'[e].front = Told(e, "create", "failed") /\ exp'[e].task = "none"
      /\ exp'[e].appending = exp[e].appending /\ exp'[e].handle = exp[e].handle
      /\ exp'[e].chunks = exp[e].chunks /\ exp'[e].torn = exp[e].torn
      /\ exp'[e].excused = exp[e].excused
  BY <1>1, <1>c DEF Export
<1>e. /\ begun' = begun
      /\ \A f \in Exports : f # e => (f \in streams' <=> f \in streams)
      /\ \A p \in Temps : temp'[p] \in {0, temp[p], e}
  BY <1>1 DEF CreateFails, RestOK
<1>f. RestOK'
  <2>1. Temp(e) \in Temps
    BY <1>1, TempsOfTargets DEF Temp, Export
  <2>2. temp' \in [Temps -> 0..MaxExports] /\ old' \subseteq Temps
    BY <1>1, <2>1 DEF CreateFails, RestOK, Exports
  <2>3. disk' \in [Targets -> 0..MaxExports]
    BY <1>1, <2>1 DEF CreateFails, RestOK, Export
  <2>4. /\ begun' \in 0..MaxExports /\ streams' \subseteq Exports
        /\ writing' \in 0..MaxExports /\ unlocked' \in BOOLEAN /\ mishaps' \in Nat
    BY <1>1 DEF CreateFails, RestOK, Exports, Mishap
  <2>5. QED
    BY <2>2, <2>3, <2>4 DEF RestOK
<1>g. ExportsOK'
  BY <1>c, <1>f DEF ExportsOK, RestOK, Export
<1>h. e <= begun
  BY <1>1 DEF CreateFails
<1>i. Shape(e)'
  BY <1>1, <1>d, <1>e, <1>h DEF CreateFails, Shape, Export, Told
<1>j. Excused(e)'
  BY <1>1, <1>d DEF CreateFails, Shape, Excused, Owned, Temp, RestOK, Told
<1>k. \A p \in Temps : temp'[p] = e =>
       Temp(e)' = p /\ exp'[e].task \notin {"create", "write", "replace"}
  BY <1>1, <1>d DEF CreateFails, Owned, Temp, RestOK
<1>l. Core'
  BY <1>c, <1>e, <1>g, <1>h, <1>i, <1>j, <1>k, Lift
<1>m. ASSUME IInv PROVE IInv'
  <2>0. Temp(e) \in Temps
    BY <1>1, TempsOfTargets DEF Temp, Export
  <2>1. AtWork(e) /\ Temp(e) \in Temps /\ swept \subseteq swept'
    BY <1>m, <1>1, <2>0 DEF IInv, CreateFails, history
  <2>2. AtWork(e)'
    BY <1>1, <1>d, <2>1 DEF CreateFails, Shape, AtWork, Temp, RestOK, Told
  <2>3. \A p \in Temps : temp'[p] # temp[p] => temp[p] \in {0, e} \/ temp[p] \in swept'
    BY <1>1, <1>d, <2>1 DEF CreateFails, AtWork, RestOK, Temp
  <2>4. \A x \in Targets : Done(e, x) => Done(e, x)'
    BY <1>1, <1>d DEF CreateFails, Shape, Done, Told
  <2>5. \A x \in Targets :
       \/ disk'[x] = disk[x] /\ by'[x] = by[x]
       \/ by'[x] = e /\ (e \notin swept' => disk'[x] = e /\ Done(e, x)')
    BY <1>1, <1>d, <2>1 DEF history, CreateFails, Shape, AtWork, Done, RestOK, Told
  <2>6. QED
    BY <1>m, <1>c, <1>e, <1>h, <1>l, <2>2, <2>1, <2>3, <2>4, <2>5, LiftWhole
<1>n. QED
  BY <1>l, <1>m

LEMMA FinalizeStep ==
    ASSUME Core, NEW e \in Exports, Finalize(e)
    PROVE  Core' /\ (IInv => IInv')
<1> USE BoundsAreNat, TempsOfTargets DEF Fronts, Works
<1>1. /\ exp[e] \in Export /\ Shape(e) /\ Excused(e) /\ \A p \in Temps : Owned(p)
      /\ e \in Exports /\ e \in Nat /\ e # 0 /\ begun \in Nat /\ RestOK
      /\ e > begun => exp[e].front = "free" /\ exp[e].task = "none" /\ ~exp[e].appending
  BY Known, TypeParts DEF Core
<1>2. CASE unlocked /\ e \in streams
  <2> DEFINE j == [exp[e] EXCEPT !.front = "finalize", !.task = "sync"]
  <2>a. j \in Export
    BY <1>2, <1>1 DEF Export
  <2>b. Becomes(e, j)
    BY <1>2, <1>1 DEF Finalize
  <2>c. /\ exp' \in [Exports -> Export] /\ exp'[e] = j
        /\ \A f \in Exports : f # e => exp'[f] = exp[f]
    BY <2>a, <2>b, OneChanges DEF Core
  <2>d. /\ exp'[e].kind = exp[e].kind /\ exp'[e].target = exp[e].target
        /\ exp'[e].front = "finalize" /\ exp'[e].task = "sync"
        /\ exp'[e].appending = exp[e].appending /\ exp'[e].handle = exp[e].handle
        /\ exp'[e].chunks = exp[e].chunks /\ exp'[e].torn = exp[e].torn
        /\ exp'[e].excused = exp[e].excused
    BY <1>1, <2>c DEF Export
  <2>e. /\ begun' = begun
        /\ \A f \in Exports : f # e => (f \in streams' <=> f \in streams)
        /\ \A p \in Temps : temp'[p] \in {0, temp[p], e}
    BY <1>2, <1>1 DEF Finalize, RestOK
  <2>f. RestOK'
    BY <1>2, <1>1 DEF Finalize, RestOK, Exports, Mishap
  <2>g. ExportsOK'
    BY <2>c, <2>f DEF ExportsOK, RestOK, Export
  <2>h. e <= begun
    BY <1>2, <1>1 DEF Finalize
  <2>i. Shape(e)'
    BY <1>2, <1>1, <2>d, <2>e, <2>h DEF Finalize, Shape, Export
  <2>j. Excused(e)'
    BY <1>2, <1>1, <2>d DEF Finalize, Shape, Excused, Owned, Temp, RestOK
  <2>k. \A p \in Temps : temp'[p] = e =>
         Temp(e)' = p /\ exp'[e].task \notin {"create", "write", "replace"}
    BY <1>2, <1>1, <2>d DEF Finalize, Owned, Temp, RestOK
  <2>l. Core'
    BY <2>c, <2>e, <2>g, <2>h, <2>i, <2>j, <2>k, Lift
  <2>m. ASSUME IInv PROVE IInv'
    <3>0. Temp(e) \in Temps
      BY <1>1, TempsOfTargets DEF Temp, Export
    <3>1. AtWork(e) /\ Temp(e) \in Temps /\ swept \subseteq swept'
      BY <2>m, <1>1, <3>0 DEF IInv, Finalize, history
    <3>2. AtWork(e)'
      BY <1>2, <1>1, <2>d, <3>1 DEF Finalize, Shape, AtWork, Temp, RestOK
    <3>3. \A p \in Temps : temp'[p] # temp[p] => temp[p] \in {0, e} \/ temp[p] \in swept'
      BY <1>2, <1>1, <2>d, <3>1 DEF Finalize, AtWork, RestOK, Temp
    <3>4. \A x \in Targets : Done(e, x) => Done(e, x)'
      BY <1>2, <1>1, <2>d DEF Finalize, Shape, Done
    <3>5. \A x \in Targets :
         \/ disk'[x] = disk[x] /\ by'[x] = by[x]
         \/ by'[x] = e /\ (e \notin swept' => disk'[x] = e /\ Done(e, x)')
      BY <1>2, <1>1, <2>d, <3>1 DEF history, Finalize, Shape, AtWork, Done, RestOK
    <3>6. QED
      BY <2>m, <2>c, <2>e, <2>h, <2>l, <3>2, <3>1, <3>3, <3>4, <3>5, LiftWhole
  <2>n. QED
    BY <2>l, <2>m
<1>3. CASE ~(unlocked /\ e \in streams)
  <2> DEFINE j == [exp[e] EXCEPT !.front = "failing"]
  <2>a. j \in Export
    BY <1>3, <1>1 DEF Export
  <2>b. Becomes(e, j)
    BY <1>3, <1>1 DEF Finalize
  <2>c. /\ exp' \in [Exports -> Export] /\ exp'[e] = j
        /\ \A f \in Exports : f # e => exp'[f] = exp[f]
    BY <2>a, <2>b, OneChanges DEF Core
  <2>d. /\ exp'[e].kind = exp[e].kind /\ exp'[e].target = exp[e].target
        /\ exp'[e].front = "failing" /\ exp'[e].task = exp[e].task
        /\ exp'[e].appending = exp[e].appending /\ exp'[e].handle = exp[e].handle
        /\ exp'[e].chunks = exp[e].chunks /\ exp'[e].torn = exp[e].torn
        /\ exp'[e].excused = exp[e].excused
    BY <1>1, <2>c DEF Export
  <2>e. /\ begun' = begun
        /\ \A f \in Exports : f # e => (f \in streams' <=> f \in streams)
        /\ \A p \in Temps : temp'[p] \in {0, temp[p], e}
    BY <1>3, <1>1 DEF Finalize, RestOK
  <2>f. RestOK'
    BY <1>3, <1>1 DEF Finalize, RestOK, Exports, Mishap
  <2>g. ExportsOK'
    BY <2>c, <2>f DEF ExportsOK, RestOK, Export
  <2>h. e <= begun
    BY <1>3, <1>1 DEF Finalize
  <2>i. Shape(e)'
    BY <1>3, <1>1, <2>d, <2>e, <2>h DEF Finalize, Shape, Export
  <2>j. Excused(e)'
    BY <1>3, <1>1, <2>d DEF Finalize, Shape, Excused, Owned, Temp, RestOK
  <2>k. \A p \in Temps : temp'[p] = e =>
         Temp(e)' = p /\ exp'[e].task \notin {"create", "write", "replace"}
    BY <1>3, <1>1, <2>d DEF Finalize, Owned, Temp, RestOK
  <2>l. Core'
    BY <2>c, <2>e, <2>g, <2>h, <2>i, <2>j, <2>k, Lift
  <2>m. ASSUME IInv PROVE IInv'
    <3>0. Temp(e) \in Temps
      BY <1>1, TempsOfTargets DEF Temp, Export
    <3>1. AtWork(e) /\ Temp(e) \in Temps /\ swept \subseteq swept'
      BY <2>m, <1>1, <3>0 DEF IInv, Finalize, history
    <3>2. AtWork(e)'
      BY <1>3, <1>1, <2>d, <3>1 DEF Finalize, Shape, AtWork, Temp, RestOK
    <3>3. \A p \in Temps : temp'[p] # temp[p] => temp[p] \in {0, e} \/ temp[p] \in swept'
      BY <1>3, <1>1, <2>d, <3>1 DEF Finalize, AtWork, RestOK, Temp
    <3>4. \A x \in Targets : Done(e, x) => Done(e, x)'
      BY <1>3, <1>1, <2>d DEF Finalize, Shape, Done
    <3>5. \A x \in Targets :
         \/ disk'[x] = disk[x] /\ by'[x] = by[x]
         \/ by'[x] = e /\ (e \notin swept' => disk'[x] = e /\ Done(e, x)')
      BY <1>3, <1>1, <2>d, <3>1 DEF history, Finalize, Shape, AtWork, Done, RestOK
    <3>6. QED
      BY <2>m, <2>c, <2>e, <2>h, <2>l, <3>2, <3>1, <3>3, <3>4, <3>5, LiftWhole
  <2>n. QED
    BY <2>l, <2>m
<1>4. QED
  BY <1>2, <1>3 DEF Finalize

LEMMA AbortStep ==
    ASSUME Core, NEW e \in Exports, Abort(e)
    PROVE  Core' /\ (IInv => IInv')
<1> USE BoundsAreNat, TempsOfTargets DEF Fronts, Works
<1>1. /\ exp[e] \in Export /\ Shape(e) /\ Excused(e) /\ \A p \in Temps : Owned(p)
      /\ e \in Exports /\ e \in Nat /\ e # 0 /\ begun \in Nat /\ RestOK
      /\ e > begun => exp[e].front = "free" /\ exp[e].task = "none" /\ ~exp[e].appending
  BY Known, TypeParts DEF Core
<1>2. CASE unlocked /\ e \in streams
  <2> DEFINE j == [exp[e] EXCEPT !.front = "abort", !.task = "close"]
  <2>a. j \in Export
    BY <1>2, <1>1 DEF Export
  <2>b. Becomes(e, j)
    BY <1>2, <1>1 DEF Abort
  <2>c. /\ exp' \in [Exports -> Export] /\ exp'[e] = j
        /\ \A f \in Exports : f # e => exp'[f] = exp[f]
    BY <2>a, <2>b, OneChanges DEF Core
  <2>d. /\ exp'[e].kind = exp[e].kind /\ exp'[e].target = exp[e].target
        /\ exp'[e].front = "abort" /\ exp'[e].task = "close"
        /\ exp'[e].appending = exp[e].appending /\ exp'[e].handle = exp[e].handle
        /\ exp'[e].chunks = exp[e].chunks /\ exp'[e].torn = exp[e].torn
        /\ exp'[e].excused = exp[e].excused
    BY <1>1, <2>c DEF Export
  <2>e. /\ begun' = begun
        /\ \A f \in Exports : f # e => (f \in streams' <=> f \in streams)
        /\ \A p \in Temps : temp'[p] \in {0, temp[p], e}
    BY <1>2, <1>1 DEF Abort, RestOK
  <2>f. RestOK'
    BY <1>2, <1>1 DEF Abort, RestOK, Exports, Mishap
  <2>g. ExportsOK'
    BY <2>c, <2>f DEF ExportsOK, RestOK, Export
  <2>h. e <= begun
    BY <1>2, <1>1 DEF Abort
  <2>i. Shape(e)'
    BY <1>2, <1>1, <2>d, <2>e, <2>h DEF Abort, Shape, Export
  <2>j. Excused(e)'
    BY <1>2, <1>1, <2>d DEF Abort, Shape, Excused, Owned, Temp, RestOK
  <2>k. \A p \in Temps : temp'[p] = e =>
         Temp(e)' = p /\ exp'[e].task \notin {"create", "write", "replace"}
    BY <1>2, <1>1, <2>d DEF Abort, Owned, Temp, RestOK
  <2>l. Core'
    BY <2>c, <2>e, <2>g, <2>h, <2>i, <2>j, <2>k, Lift
  <2>m. ASSUME IInv PROVE IInv'
    <3>0. Temp(e) \in Temps
      BY <1>1, TempsOfTargets DEF Temp, Export
    <3>1. AtWork(e) /\ Temp(e) \in Temps /\ swept \subseteq swept'
      BY <2>m, <1>1, <3>0 DEF IInv, Abort, history
    <3>2. AtWork(e)'
      BY <1>2, <1>1, <2>d, <3>1 DEF Abort, Shape, AtWork, Temp, RestOK
    <3>3. \A p \in Temps : temp'[p] # temp[p] => temp[p] \in {0, e} \/ temp[p] \in swept'
      BY <1>2, <1>1, <2>d, <3>1 DEF Abort, AtWork, RestOK, Temp
    <3>4. \A x \in Targets : Done(e, x) => Done(e, x)'
      BY <1>2, <1>1, <2>d DEF Abort, Shape, Done
    <3>5. \A x \in Targets :
         \/ disk'[x] = disk[x] /\ by'[x] = by[x]
         \/ by'[x] = e /\ (e \notin swept' => disk'[x] = e /\ Done(e, x)')
      BY <1>2, <1>1, <2>d, <3>1 DEF history, Abort, Shape, AtWork, Done, RestOK
    <3>6. QED
      BY <2>m, <2>c, <2>e, <2>h, <2>l, <3>2, <3>1, <3>3, <3>4, <3>5, LiftWhole
  <2>n. QED
    BY <2>l, <2>m
<1>3. CASE ~(unlocked /\ e \in streams)
  <2> DEFINE j == [exp[e] EXCEPT !.front = "failed", !.excused = (exp[e].excused \/ ~unlocked)]
  <2>a. j \in Export
    BY <1>3, <1>1 DEF Export
  <2>b. Becomes(e, j)
    BY <1>3, <1>1 DEF Abort
  <2>c. /\ exp' \in [Exports -> Export] /\ exp'[e] = j
        /\ \A f \in Exports : f # e => exp'[f] = exp[f]
    BY <2>a, <2>b, OneChanges DEF Core
  <2>d. /\ exp'[e].kind = exp[e].kind /\ exp'[e].target = exp[e].target
        /\ exp'[e].front = "failed" /\ exp'[e].task = exp[e].task
        /\ exp'[e].appending = exp[e].appending /\ exp'[e].handle = exp[e].handle
        /\ exp'[e].chunks = exp[e].chunks /\ exp'[e].torn = exp[e].torn
        /\ exp'[e].excused = (exp[e].excused \/ ~unlocked)
    BY <1>1, <2>c DEF Export
  <2>e. /\ begun' = begun
        /\ \A f \in Exports : f # e => (f \in streams' <=> f \in streams)
        /\ \A p \in Temps : temp'[p] \in {0, temp[p], e}
    BY <1>3, <1>1 DEF Abort, RestOK
  <2>f. RestOK'
    BY <1>3, <1>1 DEF Abort, RestOK, Exports, Mishap
  <2>g. ExportsOK'
    BY <2>c, <2>f DEF ExportsOK, RestOK, Export
  <2>h. e <= begun
    BY <1>3, <1>1 DEF Abort
  <2>i. Shape(e)'
    BY <1>3, <1>1, <2>d, <2>e, <2>h DEF Abort, Shape, Export
  <2>j. Excused(e)'
    BY <1>3, <1>1, <2>d DEF Abort, Shape, Excused, Owned, Temp, RestOK
  <2>k. \A p \in Temps : temp'[p] = e =>
         Temp(e)' = p /\ exp'[e].task \notin {"create", "write", "replace"}
    BY <1>3, <1>1, <2>d DEF Abort, Owned, Temp, RestOK
  <2>l. Core'
    BY <2>c, <2>e, <2>g, <2>h, <2>i, <2>j, <2>k, Lift
  <2>m. ASSUME IInv PROVE IInv'
    <3>0. Temp(e) \in Temps
      BY <1>1, TempsOfTargets DEF Temp, Export
    <3>1. AtWork(e) /\ Temp(e) \in Temps /\ swept \subseteq swept'
      BY <2>m, <1>1, <3>0 DEF IInv, Abort, history
    <3>2. AtWork(e)'
      BY <1>3, <1>1, <2>d, <3>1 DEF Abort, Shape, AtWork, Temp, RestOK
    <3>3. \A p \in Temps : temp'[p] # temp[p] => temp[p] \in {0, e} \/ temp[p] \in swept'
      BY <1>3, <1>1, <2>d, <3>1 DEF Abort, AtWork, RestOK, Temp
    <3>4. \A x \in Targets : Done(e, x) => Done(e, x)'
      BY <1>3, <1>1, <2>d DEF Abort, Shape, Done
    <3>5. \A x \in Targets :
         \/ disk'[x] = disk[x] /\ by'[x] = by[x]
         \/ by'[x] = e /\ (e \notin swept' => disk'[x] = e /\ Done(e, x)')
      BY <1>3, <1>1, <2>d, <3>1 DEF history, Abort, Shape, AtWork, Done, RestOK
    <3>6. QED
      BY <2>m, <2>c, <2>e, <2>h, <2>l, <3>2, <3>1, <3>3, <3>4, <3>5, LiftWhole
  <2>n. QED
    BY <2>l, <2>m
<1>4. QED
  BY <1>2, <1>3 DEF Abort

LEMMA ReloadStep ==
    ASSUME Core, NEW e \in Exports, Reload(e)
    PROVE  Core' /\ (IInv => IInv')
<1> USE BoundsAreNat, TempsOfTargets DEF Fronts, Works
<1>1. /\ exp[e] \in Export /\ Shape(e) /\ Excused(e) /\ \A p \in Temps : Owned(p)
      /\ e \in Exports /\ e \in Nat /\ e # 0 /\ begun \in Nat /\ RestOK
      /\ e > begun => exp[e].front = "free" /\ exp[e].task = "none" /\ ~exp[e].appending
  BY Known, TypeParts DEF Core
<1> DEFINE j == [exp[e] EXCEPT !.front = "failed", !.excused = TRUE]
<1>a. j \in Export
  BY <1>1 DEF Export
<1>b. Becomes(e, j)
  BY <1>1 DEF Reload
<1>c. /\ exp' \in [Exports -> Export] /\ exp'[e] = j
      /\ \A f \in Exports : f # e => exp'[f] = exp[f]
  BY <1>a, <1>b, OneChanges DEF Core
<1>d. /\ exp'[e].kind = exp[e].kind /\ exp'[e].target = exp[e].target
      /\ exp'[e].front = "failed" /\ exp'[e].task = exp[e].task
      /\ exp'[e].appending = exp[e].appending /\ exp'[e].handle = exp[e].handle
      /\ exp'[e].chunks = exp[e].chunks /\ exp'[e].torn = exp[e].torn
      /\ exp'[e].excused = TRUE
  BY <1>1, <1>c DEF Export
<1>e. /\ begun' = begun
      /\ \A f \in Exports : f # e => (f \in streams' <=> f \in streams)
      /\ \A p \in Temps : temp'[p] \in {0, temp[p], e}
  BY <1>1 DEF Reload, RestOK
<1>f. RestOK'
  BY <1>1 DEF Reload, RestOK, Exports, Mishap
<1>g. ExportsOK'
  BY <1>c, <1>f DEF ExportsOK, RestOK, Export
<1>h. e <= begun
  BY <1>1 DEF Reload
<1>i. Shape(e)'
  BY <1>1, <1>d, <1>e, <1>h DEF Reload, Shape, Export
<1>j. Excused(e)'
  BY <1>1, <1>d DEF Reload, Shape, Excused, Owned, Temp, RestOK
<1>k. \A p \in Temps : temp'[p] = e =>
       Temp(e)' = p /\ exp'[e].task \notin {"create", "write", "replace"}
  BY <1>1, <1>d DEF Reload, Owned, Temp, RestOK
<1>l. Core'
  BY <1>c, <1>e, <1>g, <1>h, <1>i, <1>j, <1>k, Lift
<1>m. ASSUME IInv PROVE IInv'
  <2>0. Temp(e) \in Temps
    BY <1>1, TempsOfTargets DEF Temp, Export
  <2>1. AtWork(e) /\ Temp(e) \in Temps /\ swept \subseteq swept'
    BY <1>m, <1>1, <2>0 DEF IInv, Reload, history
  <2>2. AtWork(e)'
    BY <1>1, <1>d, <2>1 DEF Reload, Shape, AtWork, Temp, RestOK
  <2>3. \A p \in Temps : temp'[p] # temp[p] => temp[p] \in {0, e} \/ temp[p] \in swept'
    BY <1>1, <1>d, <2>1 DEF Reload, AtWork, RestOK, Temp
  <2>4. \A x \in Targets : Done(e, x) => Done(e, x)'
    BY <1>1, <1>d DEF Reload, Shape, Done
  <2>5. \A x \in Targets :
       \/ disk'[x] = disk[x] /\ by'[x] = by[x]
       \/ by'[x] = e /\ (e \notin swept' => disk'[x] = e /\ Done(e, x)')
    BY <1>1, <1>d, <2>1 DEF history, Reload, Shape, AtWork, Done, RestOK
  <2>6. QED
    BY <1>m, <1>c, <1>e, <1>h, <1>l, <2>2, <2>1, <2>3, <2>4, <2>5, LiftWhole
<1>n. QED
  BY <1>l, <1>m

LEMMA AppendFailsStep ==
    ASSUME Core, NEW e \in Exports, AppendFails(e)
    PROVE  Core' /\ (IInv => IInv')
<1> USE BoundsAreNat, TempsOfTargets DEF Fronts, Works
<1>1. /\ exp[e] \in Export /\ Shape(e) /\ Excused(e) /\ \A p \in Temps : Owned(p)
      /\ e \in Exports /\ e \in Nat /\ e # 0 /\ begun \in Nat /\ RestOK
      /\ e > begun => exp[e].front = "free" /\ exp[e].task = "none" /\ ~exp[e].appending
  BY Known, TypeParts DEF Core
<1>2. PICK half \in BOOLEAN :
        /\ old' = {p \in old : half => temp[p] # e}
        /\ Becomes(e, [exp[e] EXCEPT !.appending = FALSE, !.torn = @ \/ half,
                                     !.front = Told(e, "append", "failing")])
  BY DEF AppendFails
<1> DEFINE j == [exp[e] EXCEPT !.appending = FALSE,
                               !.torn = (exp[e].torn \/ half),
                               !.front = Told(e, "append", "failing")]
<1>a. j \in Export
  BY <1>2, <1>1 DEF Export, Told
<1>b. Becomes(e, j)
  BY <1>2, <1>1 DEF AppendFails
<1>c. /\ exp' \in [Exports -> Export] /\ exp'[e] = j
      /\ \A f \in Exports : f # e => exp'[f] = exp[f]
  BY <1>a, <1>b, OneChanges DEF Core
<1>d. /\ exp'[e].kind = exp[e].kind /\ exp'[e].target = exp[e].target
      /\ exp'[e].front = Told(e, "append", "failing") /\ exp'[e].task = exp[e].task
      /\ exp'[e].appending = FALSE /\ exp'[e].handle = exp[e].handle
      /\ exp'[e].chunks = exp[e].chunks /\ exp'[e].torn = (exp[e].torn \/ half)
      /\ exp'[e].excused = exp[e].excused
  BY <1>1, <1>c DEF Export
<1>e. /\ begun' = begun
      /\ \A f \in Exports : f # e => (f \in streams' <=> f \in streams)
      /\ \A p \in Temps : temp'[p] \in {0, temp[p], e}
  BY <1>2, <1>1 DEF AppendFails, RestOK
<1>f. RestOK'
  BY <1>2, <1>1 DEF AppendFails, RestOK, Exports, Mishap
<1>g. ExportsOK'
  BY <1>c, <1>f DEF ExportsOK, RestOK, Export
<1>h. e <= begun
  BY <1>2, <1>1 DEF AppendFails
<1>i. Shape(e)'
  BY <1>2, <1>1, <1>d, <1>e, <1>h DEF AppendFails, Shape, Export, Told
<1>j. Excused(e)'
  BY <1>2, <1>1, <1>d DEF AppendFails, Shape, Excused, Owned, Temp, RestOK, Told
<1>k. \A p \in Temps : temp'[p] = e =>
       Temp(e)' = p /\ exp'[e].task \notin {"create", "write", "replace"}
  BY <1>2, <1>1, <1>d DEF AppendFails, Owned, Temp, RestOK
<1>l. Core'
  BY <1>c, <1>e, <1>g, <1>h, <1>i, <1>j, <1>k, Lift
<1>m. ASSUME IInv PROVE IInv'
  <2>0. Temp(e) \in Temps
    BY <1>1, TempsOfTargets DEF Temp, Export
  <2>1. AtWork(e) /\ Temp(e) \in Temps /\ swept \subseteq swept'
    BY <1>m, <1>1, <2>0 DEF IInv, AppendFails, history
  <2>2. AtWork(e)'
    BY <1>2, <1>1, <1>d, <2>1 DEF AppendFails, Shape, AtWork, Temp, RestOK, Told
  <2>3. \A p \in Temps : temp'[p] # temp[p] => temp[p] \in {0, e} \/ temp[p] \in swept'
    BY <1>2, <1>1, <1>d, <2>1 DEF AppendFails, AtWork, RestOK, Temp
  <2>4. \A x \in Targets : Done(e, x) => Done(e, x)'
    BY <1>2, <1>1, <1>d DEF AppendFails, Shape, Done, Told
  <2>5. \A x \in Targets :
       \/ disk'[x] = disk[x] /\ by'[x] = by[x]
       \/ by'[x] = e /\ (e \notin swept' => disk'[x] = e /\ Done(e, x)')
    BY <1>2, <1>1, <1>d, <2>1 DEF history, AppendFails, Shape, AtWork, Done, RestOK, Told
  <2>6. QED
    BY <1>m, <1>c, <1>e, <1>h, <1>l, <2>2, <2>1, <2>3, <2>4, <2>5, LiftWhole
<1>n. QED
  BY <1>l, <1>m

LEMMA CreateTempStep ==
    ASSUME Core, NEW e \in Exports, CreateTemp(e)
    PROVE  Core' /\ (IInv => IInv')
<1> USE BoundsAreNat, TempsOfTargets DEF Fronts, Works
<1>1. /\ exp[e] \in Export /\ Shape(e) /\ Excused(e) /\ \A p \in Temps : Owned(p)
      /\ e \in Exports /\ e \in Nat /\ e # 0 /\ begun \in Nat /\ RestOK
      /\ e > begun => exp[e].front = "free" /\ exp[e].task = "none" /\ ~exp[e].appending
  BY Known, TypeParts DEF Core
<1> DEFINE j == [exp[e] EXCEPT !.task = "none", !.front = Told(e, "create", "open"),
                               !.handle = (exp[e].front = "create")]
<1>a. j \in Export
  BY <1>1 DEF Export, Told
<1>b. Becomes(e, j)
  BY <1>1 DEF CreateTemp
<1>c. /\ exp' \in [Exports -> Export] /\ exp'[e] = j
      /\ \A f \in Exports : f # e => exp'[f] = exp[f]
  BY <1>a, <1>b, OneChanges DEF Core
<1>d. /\ exp'[e].kind = exp[e].kind /\ exp'[e].target = exp[e].target
      /\ exp'[e].front = Told(e, "create", "open") /\ exp'[e].task = "none"
      /\ exp'[e].appending = exp[e].appending /\ exp'[e].handle = (exp[e].front = "create")
      /\ exp'[e].chunks = exp[e].chunks /\ exp'[e].torn = exp[e].torn
      /\ exp'[e].excused = exp[e].excused
  BY <1>1, <1>c DEF Export
<1>e. /\ begun' = begun
      /\ \A f \in Exports : f # e => (f \in streams' <=> f \in streams)
      /\ \A p \in Temps : temp'[p] \in {0, temp[p], e}
  BY <1>1 DEF CreateTemp, RestOK, CanCreate
<1>f. RestOK'
  <2>1. Temp(e) \in Temps
    BY <1>1, TempsOfTargets DEF Temp, Export
  <2>2. temp' \in [Temps -> 0..MaxExports] /\ old' \subseteq Temps
    BY <1>1, <2>1 DEF CreateTemp, RestOK, Exports, CanCreate
  <2>3. disk' \in [Targets -> 0..MaxExports]
    BY <1>1, <2>1 DEF CreateTemp, RestOK, Export
  <2>4. /\ begun' \in 0..MaxExports /\ streams' \subseteq Exports
        /\ writing' \in 0..MaxExports /\ unlocked' \in BOOLEAN /\ mishaps' \in Nat
    BY <1>1 DEF CreateTemp, RestOK, Exports, Mishap
  <2>5. QED
    BY <2>2, <2>3, <2>4 DEF RestOK
<1>g. ExportsOK'
  BY <1>c, <1>f DEF ExportsOK, RestOK, Export
<1>h. e <= begun
  BY <1>1 DEF CreateTemp
<1>i. Shape(e)'
  BY <1>1, <1>d, <1>e, <1>h DEF CreateTemp, Shape, Export, Told
<1>j. Excused(e)'
  BY <1>1, <1>d DEF CreateTemp, Shape, Excused, Owned, Temp, RestOK, Told, CanCreate
<1>k. \A p \in Temps : temp'[p] = e =>
       Temp(e)' = p /\ exp'[e].task \notin {"create", "write", "replace"}
  BY <1>1, <1>d DEF CreateTemp, Owned, Temp, RestOK, CanCreate
<1>l. Core'
  BY <1>c, <1>e, <1>g, <1>h, <1>i, <1>j, <1>k, Lift
<1>m. ASSUME IInv PROVE IInv'
  <2>0. Temp(e) \in Temps
    BY <1>1, TempsOfTargets DEF Temp, Export
  <2>1. AtWork(e) /\ Temp(e) \in Temps /\ swept \subseteq swept'
    BY <1>m, <1>1, <2>0 DEF IInv, CreateTemp, history
  <2>2. AtWork(e)'
    BY <1>1, <1>d, <2>1 DEF CreateTemp, Shape, AtWork, Temp, RestOK, Told, CanCreate
  <2>3. \A p \in Temps : temp'[p] # temp[p] => temp[p] \in {0, e} \/ temp[p] \in swept'
    BY <1>1, <1>d, <2>1 DEF CreateTemp, AtWork, RestOK, Temp, CanCreate
  <2>4. \A x \in Targets : Done(e, x) => Done(e, x)'
    BY <1>1, <1>d DEF CreateTemp, Shape, Done, Told
  <2>5. \A x \in Targets :
       \/ disk'[x] = disk[x] /\ by'[x] = by[x]
       \/ by'[x] = e /\ (e \notin swept' => disk'[x] = e /\ Done(e, x)')
    BY <1>1, <1>d, <2>1 DEF history, CreateTemp, Shape, AtWork, Done, RestOK, Told
  <2>6. QED
    BY <1>m, <1>c, <1>e, <1>h, <1>l, <2>2, <2>1, <2>3, <2>4, <2>5, LiftWhole
<1>n. QED
  BY <1>l, <1>m

LEMMA TimesOutStep ==
    ASSUME Core, NEW e \in Exports, NEW call, NEW next, TimesOut(e, call, next),
           \/ call = "create" /\ next = "failed"
           \/ call = "append" /\ next = "failing"
           \/ call = "finalize" /\ next = "failing"
           \/ call = "abort" /\ next = "failed"
           \/ call = "write" /\ next = "failed"
    PROVE  Core' /\ (IInv => IInv')
<1> USE BoundsAreNat, TempsOfTargets DEF Fronts, Works
<1>1. /\ exp[e] \in Export /\ Shape(e) /\ Excused(e) /\ \A p \in Temps : Owned(p)
      /\ e \in Exports /\ e \in Nat /\ e # 0 /\ begun \in Nat /\ RestOK
      /\ e > begun => exp[e].front = "free" /\ exp[e].task = "none" /\ ~exp[e].appending
  BY Known, TypeParts DEF Core
<1> DEFINE j == [exp[e] EXCEPT !.front = next, !.excused = (exp[e].excused \/ call = "create")]
<1>a. j \in Export
  BY <1>1 DEF Export
<1>b. Becomes(e, j)
  BY <1>1 DEF TimesOut
<1>c. /\ exp' \in [Exports -> Export] /\ exp'[e] = j
      /\ \A f \in Exports : f # e => exp'[f] = exp[f]
  BY <1>a, <1>b, OneChanges DEF Core
<1>d. /\ exp'[e].kind = exp[e].kind /\ exp'[e].target = exp[e].target
      /\ exp'[e].front = next /\ exp'[e].task = exp[e].task
      /\ exp'[e].appending = exp[e].appending /\ exp'[e].handle = exp[e].handle
      /\ exp'[e].chunks = exp[e].chunks /\ exp'[e].torn = exp[e].torn
      /\ exp'[e].excused = (exp[e].excused \/ call = "create")
  BY <1>1, <1>c DEF Export
<1>e. /\ begun' = begun
      /\ \A f \in Exports : f # e => (f \in streams' <=> f \in streams)
      /\ \A p \in Temps : temp'[p] \in {0, temp[p], e}
  BY <1>1 DEF TimesOut, RestOK
<1>f. RestOK'
  BY <1>1 DEF TimesOut, RestOK, Exports, Mishap
<1>g. ExportsOK'
  BY <1>c, <1>f DEF ExportsOK, RestOK, Export
<1>h. e <= begun
  BY <1>1 DEF TimesOut
<1>i. Shape(e)'
  BY <1>1, <1>d, <1>e, <1>h DEF TimesOut, Shape, Export
<1>j. Excused(e)'
  BY <1>1, <1>d DEF TimesOut, Shape, Excused, Owned, Temp, RestOK
<1>k. \A p \in Temps : temp'[p] = e =>
       Temp(e)' = p /\ exp'[e].task \notin {"create", "write", "replace"}
  BY <1>1, <1>d DEF TimesOut, Owned, Temp, RestOK
<1>l. Core'
  BY <1>c, <1>e, <1>g, <1>h, <1>i, <1>j, <1>k, Lift
<1>m. ASSUME IInv PROVE IInv'
  <2>0. Temp(e) \in Temps
    BY <1>1, TempsOfTargets DEF Temp, Export
  <2>1. AtWork(e) /\ Temp(e) \in Temps /\ swept \subseteq swept'
    BY <1>m, <1>1, <2>0 DEF IInv, TimesOut, history
  <2>2. AtWork(e)'
    BY <1>1, <1>d, <2>1 DEF TimesOut, Shape, AtWork, Temp, RestOK
  <2>3. \A p \in Temps : temp'[p] # temp[p] => temp[p] \in {0, e} \/ temp[p] \in swept'
    BY <1>1, <1>d, <2>1 DEF TimesOut, AtWork, RestOK, Temp
  <2>4. \A x \in Targets : Done(e, x) => Done(e, x)'
    BY <1>1, <1>d DEF TimesOut, Shape, Done
  <2>5. \A x \in Targets :
       \/ disk'[x] = disk[x] /\ by'[x] = by[x]
       \/ by'[x] = e /\ (e \notin swept' => disk'[x] = e /\ Done(e, x)')
    BY <1>1, <1>d, <2>1 DEF history, TimesOut, Shape, AtWork, Done, RestOK
  <2>6. QED
    BY <1>m, <1>c, <1>e, <1>h, <1>l, <2>2, <2>1, <2>3, <2>4, <2>5, LiftWhole
<1>n. QED
  BY <1>l, <1>m

-----------------------------------------------------------------------------
(* The other steps.                                                            *)

LEMMA BeginStep ==
    ASSUME Core, NEW x \in Targets, BeginStream(x) \/ BeginWhole(x)
    PROVE  Core' /\ (IInv => IInv')
<1> USE BoundsAreNat, TempsOfTargets DEF Fronts, Works
<1>1. RestOK /\ exp \in [Exports -> Export]
  BY TypeParts DEF Core
<1>2. PICK e \in Exports : e = begun + 1 /\ e \in Nat /\ e # 0 /\ begun \in Nat
  BY <1>1 DEF BeginStream, BeginWhole, RestOK, Exports
<1>3. exp[e].front = "free" /\ e \notin streams
  BY <1>2 DEF Core, Shape
<1>4. PICK j \in Export :
        /\ Becomes(e, j)
        /\ j.target = x /\ j.chunks = 0 /\ j.appending = FALSE /\ j.torn = FALSE
        /\ j.front = j.task /\ j.front \in {"create", "write"}
  <2>1. CASE BeginStream(x)
    <3> DEFINE i == [None EXCEPT !.target = x, !.front = "create", !.task = "create"]
    <3>1. i \in Export
      BY NoneIsExport DEF Export
    <3>2. i.target = x /\ i.chunks = 0 /\ i.appending = FALSE /\ i.torn = FALSE
          /\ i.front = "create" /\ i.task = "create"
      BY NoneIsExport, NoneIsIdle DEF Export
    <3>3. Becomes(e, i)
      BY <1>2, <2>1 DEF BeginStream
    <3>4. QED
      BY <3>1, <3>2, <3>3
  <2>2. CASE BeginWhole(x)
    <3> DEFINE i == [None EXCEPT !.kind = "whole", !.target = x, !.front = "write",
                                 !.task = "write"]
    <3>1. i \in Export
      BY NoneIsExport DEF Export
    <3>2. i.target = x /\ i.chunks = 0 /\ i.appending = FALSE /\ i.torn = FALSE
          /\ i.front = "write" /\ i.task = "write"
      BY NoneIsExport, NoneIsIdle DEF Export
    <3>3. Becomes(e, i)
      BY <1>2, <2>2 DEF BeginWhole
    <3>4. QED
      BY <3>1, <3>2, <3>3
  <2>3. QED
    BY <2>1, <2>2
<1>5. /\ exp' \in [Exports -> Export] /\ exp'[e] = j
      /\ \A f \in Exports : f # e => exp'[f] = exp[f]
  BY <1>2, <1>4, OneChanges DEF Core
<1>6. begun' = e /\ UNCHANGED <<streams, temp, old, disk, writing, unlocked, mishaps, by, swept>>
  BY <1>2 DEF BeginStream, BeginWhole, history
<1>7. RestOK'
  BY <1>1, <1>2, <1>6 DEF RestOK, Exports
<1>8. ExportsOK'
  BY <1>5, <1>7 DEF ExportsOK, RestOK, Export
<1>9. \A p \in Temps : temp[p] # e /\ temp[p] \in 0..MaxExports
  BY <1>1, <1>2 DEF Core, Owned, RestOK
<1>10. ASSUME NEW f \in Exports PROVE Shape(f)' /\ Excused(f)'
  <2>1. CASE f = e
    <3>1. Shape(e)'
      BY <1>2, <1>3, <1>4, <1>5, <1>6 DEF Shape
    <3>2. Excused(e)'
      BY <1>3, <1>4, <1>5, <1>6, <1>9 DEF Excused
    <3>3. QED
      BY <2>1, <3>1, <3>2
  <2>2. CASE f # e
    <3>1. exp'[f] = exp[f] /\ f \in Nat /\ Shape(f) /\ Excused(f)
      BY <1>5, <2>2 DEF Core, Exports
    <3>2. Shape(f)'
      BY <1>2, <1>6, <2>2, <3>1 DEF Shape
    <3>3. QED
      BY <1>6, <3>1, <3>2 DEF Excused
  <2>3. QED
    BY <2>1, <2>2
<1>11. \A p \in Temps : Owned(p)'
  <2> TAKE p \in Temps
  <2>1. CASE temp[p] # 0
    <3>1. temp[p] \in Exports /\ temp[p] # e /\ Owned(p)
      BY <1>9, <2>1 DEF Core, Exports
    <3>2. exp'[temp[p]] = exp[temp[p]]
      BY <1>5, <3>1
    <3>3. QED
      BY <1>2, <1>6, <2>1, <3>1, <3>2 DEF Owned, Temp, Exports
  <2>2. QED
    BY <1>6, <2>1 DEF Owned
<1>12. Core'
  BY <1>8, <1>10, <1>11 DEF Core
<1>13. ASSUME IInv PROVE IInv'
  <2>2. \A f \in Exports : AtWork(f)'
    <3> TAKE f \in Exports
    <3>1. CASE f = e
      BY <1>3, <1>4, <1>5, <1>6, <3>1 DEF AtWork
    <3>2. CASE f # e
      BY <1>5, <1>6, <1>13, <3>2 DEF IInv, AtWork, Temp
    <3>3. QED
      BY <3>1, <3>2
  <2>3. \A y \in Targets : OnDisk(y)'
    <3> TAKE y \in Targets
    <3>1. OnDisk(y)
      BY <1>13 DEF IInv
    <3>2. SUFFICES ASSUME by[y] # 0, by[y] \notin swept PROVE OnDisk(y)'
      BY <1>6 DEF OnDisk
    <3>3. by[y] \in Exports /\ by[y] <= begun /\ by[y] # e /\ disk[y] = by[y] /\ Done(by[y], y)
      BY <1>2, <3>1, <3>2 DEF OnDisk, Exports
    <3>4. exp'[by[y]] = exp[by[y]] /\ by[y] <= e
      BY <1>2, <1>5, <3>3 DEF Exports
    <3>5. QED
      BY <1>6, <3>3, <3>4 DEF OnDisk, Done
  <2>4. QED
    BY <1>12, <2>2, <2>3 DEF IInv
<1>14. QED
  BY <1>12, <1>13

(* A step of the sweep takes no more from anyone than what it marks. *)
LEMMA SweepStep ==
    ASSUME Core, NEW e \in Exports, NEW p \in Temps, Look(e, p) \/ RemoveOld(e, p)
    PROVE  Core' /\ (IInv => IInv')
<1>1. /\ UNCHANGED <<exp, begun, streams, disk, writing, unlocked, by>>
      /\ \/ UNCHANGED <<temp, old, swept, mishaps>>
         \/ UNCHANGED <<temp, old, swept>> /\ Mishap
         \/ /\ temp' = [temp EXCEPT ![p] = 0] /\ old' = old \ {p}
            /\ swept' = swept \cup ({temp[p]} \ {0}) /\ mishaps' = mishaps
  BY DEF Look, RemoveOld, history
<1>2. RestOK /\ exp \in [Exports -> Export]
  BY TypeParts DEF Core
<1>3. RestOK'
  <2>1. mishaps' \in Nat
    BY <1>1, <1>2 DEF RestOK, Mishap
  <2>2. temp' \in [Temps -> 0..MaxExports] /\ old' \subseteq Temps
    BY <1>1, <1>2, BoundsAreNat DEF RestOK
  <2>3. QED
    BY <1>1, <1>2, <2>1, <2>2 DEF RestOK
<1>4. ExportsOK'
  BY <1>1, <1>2, <1>3 DEF ExportsOK, RestOK, Export
<1>5. \A q \in Temps : temp'[q] \in {0, temp[q]} /\ (temp'[q] # temp[q] => temp[q] \in swept')
  BY <1>1, <1>2 DEF RestOK
<1>6. Core'
  <2>1. \A f \in Exports : Shape(f)'
    BY <1>1 DEF Core, Shape
  <2>2. \A f \in Exports : Excused(f)'
    <3> TAKE f \in Exports
    <3>1. f # 0 /\ Excused(f)
      BY BoundsAreNat DEF Core, Exports
    <3>2. QED
      BY <1>1, <1>5, <3>1 DEF Excused
  <2>3. \A q \in Temps : Owned(q)'
    BY <1>1, <1>5 DEF Core, Owned, Temp
  <2>4. QED
    BY <1>4, <2>1, <2>2, <2>3 DEF Core
<1>7. ASSUME IInv PROVE IInv'
  <2>1. swept \subseteq swept'
    BY <1>1
  <2>2. \A f \in Exports : AtWork(f)'
    <3> TAKE f \in Exports
    <3>1. exp[f] \in Export /\ Temp(f) \in Temps /\ Temp(f)' = Temp(f)
      BY <1>1, <1>2, TempsOfTargets DEF Export, Temp
    <3>2. QED
      BY <1>1, <1>5, <1>7, <2>1, <3>1 DEF IInv, AtWork
  <2>3. \A x \in Targets : OnDisk(x)'
    BY <1>1, <1>7, <2>1 DEF IInv, OnDisk, Done
  <2>4. QED
    BY <1>6, <2>2, <2>3 DEF IInv
<1>8. QED
  BY <1>6, <1>7

LEMMA AgesStep ==
    ASSUME Core, NEW p \in Temps, Ages(p)
    PROVE  Core' /\ (IInv => IInv')
<1>1. UNCHANGED <<exp, begun, streams, temp, disk, writing, unlocked, by, swept>>
      /\ old' = old \cup {p}
  BY DEF Ages, history
<1>2. ExportsOK'
  <2>1. mishaps' \in Nat
    <3>1. mishaps \in Nat
      BY DEF Core, ExportsOK
    <3>2. mishaps' = mishaps \/ mishaps' = mishaps + 1
      BY DEF Ages, Mishap
    <3>3. QED
      BY <3>1, <3>2
  <2>2. QED
    BY <1>1, <2>1 DEF Core, ExportsOK
<1>3. Core'
  BY <1>1, <1>2 DEF Core, Shape, Excused, Owned, Temp
<1>4. IInv => IInv'
  BY <1>1, <1>3 DEF IInv, AtWork, OnDisk, Done, Temp
<1>5. QED
  BY <1>3, <1>4

LEMMA LockStep ==
    ASSUME Core, Lock \/ Unlock \/ UNCHANGED vars
    PROVE  Core' /\ (IInv => IInv')
<1>1. UNCHANGED <<exp, begun, streams, temp, old, disk, writing, by, swept>>
  BY DEF Lock, Unlock, vars, history
<1>2. ExportsOK'
  <2>1. unlocked' \in BOOLEAN /\ mishaps' \in Nat
    <3>1. unlocked \in BOOLEAN /\ mishaps \in Nat
      BY DEF Core, ExportsOK
    <3>2. CASE Lock
      <4>1. unlocked' = FALSE /\ mishaps' = mishaps + 1
        BY <3>2 DEF Lock, Mishap
      <4>2. mishaps' \in Nat
        BY <3>1, <4>1
      <4>3. QED
        BY <4>1, <4>2
    <3>3. CASE Unlock
      BY <3>1, <3>3 DEF Unlock
    <3>4. CASE UNCHANGED vars
      BY <3>1, <3>4 DEF vars
    <3>5. QED
      BY <3>2, <3>3, <3>4
  <2>2. QED
    BY <1>1, <2>1 DEF Core, ExportsOK
<1>3. Core'
  BY <1>1, <1>2 DEF Core, Shape, Excused, Owned, Temp
<1>4. IInv => IInv'
  BY <1>1, <1>3 DEF IInv, AtWork, OnDisk, Done, Temp
<1>5. QED
  BY <1>3, <1>4

LEMMA CrashStep ==
    ASSUME Core, Crash
    PROVE  Core' /\ (IInv => IInv')
<1> USE BoundsAreNat, TempsOfTargets DEF Fronts, Works
<1>1. RestOK /\ exp \in [Exports -> Export]
  BY TypeParts DEF Core
<1>2. UNCHANGED <<begun, temp, old, disk, by, swept>> /\ streams' = {} /\ RestOK'
  <2>1. /\ UNCHANGED <<begun, temp, old, disk, by, swept>> /\ streams' = {}
        /\ writing' = 0 /\ unlocked' = FALSE /\ Mishap
    BY DEF Crash, history
  <2>2. mishaps' \in Nat
    BY <1>1, <2>1 DEF RestOK, Mishap
  <2>3. unlocked' \in BOOLEAN
    BY <2>1
  <2>4. RestOK'
    BY <1>1, <2>1, <2>2, <2>3 DEF RestOK
  <2>5. QED
    BY <2>1, <2>4
<1>3. ASSUME NEW e \in Exports
      PROVE  /\ exp'[e] \in Export /\ exp'[e].target = exp[e].target
             /\ exp'[e].chunks = exp[e].chunks /\ exp'[e].torn = exp[e].torn
             /\ exp'[e].task = "none" /\ exp'[e].appending = FALSE
             /\ exp[e].front = "free" => exp'[e] = exp[e]
             /\ exp[e].front = "ok" => exp'[e].front = "ok" /\ exp'[e].excused = TRUE
             /\ exp[e].front \notin {"free", "ok"} =>
                   exp'[e].front = "failed" /\ exp'[e].excused = TRUE
  <2>1. exp[e] \in Export /\ Shape(e)
    BY <1>1 DEF Core
  <2>2. CASE exp[e].front = "free"
    <3>1. exp'[e] = exp[e]
      BY <2>2 DEF Crash
    <3>2. exp[e].task = "none" /\ ~exp[e].appending
      BY <2>1, <2>2, NoneIsIdle DEF Shape
    <3>3. QED
      BY <2>1, <2>2, <3>1, <3>2 DEF Export
  <2>3. CASE exp[e].front # "free"
    <3> DEFINE i == [exp[e] EXCEPT !.task = "none", !.appending = FALSE, !.handle = FALSE,
                       !.front = IF @ = "ok" THEN @ ELSE "failed", !.excused = TRUE]
    <3>1. exp'[e] = i
      BY <2>3 DEF Crash
    <3>2. i \in Export
      BY <2>1 DEF Export
    <3>3. /\ i.target = exp[e].target /\ i.chunks = exp[e].chunks /\ i.torn = exp[e].torn
          /\ i.task = "none" /\ i.appending = FALSE /\ i.excused = TRUE
          /\ i.front = IF exp[e].front = "ok" THEN "ok" ELSE "failed"
      BY <2>1 DEF Export
    <3>4. QED
      BY <2>3, <3>1, <3>2, <3>3
  <2>4. QED
    BY <2>2, <2>3
<1>4. exp' \in [Exports -> Export]
  <2>1. \A e \in Exports : exp'[e] \in Export
    BY <1>3
  <2>2. exp' = [e \in Exports |-> exp'[e]]
    BY DEF Crash
  <2>3. QED
    BY <2>1, <2>2
<1>5. ExportsOK'
  BY <1>2, <1>4 DEF ExportsOK, RestOK, Export
<1>6. ASSUME NEW e \in Exports PROVE Shape(e)' /\ Excused(e)'
  <2>1. Shape(e)
    BY DEF Core
  <2>2. Shape(e)'
    BY <1>2, <1>3, <2>1 DEF Shape
  <2>3. Excused(e)'
    <3>1. exp[e].front = "free" => \A p \in Temps : temp[p] # e
      <4>1. ASSUME NEW p \in Temps, temp[p] = e, exp[e].front = "free" PROVE FALSE
        <5>1. e # 0 /\ e \in Nat /\ begun \in Nat
          BY <1>1 DEF Exports, RestOK
        <5>2. e <= begun /\ e > begun
          BY <2>1, <4>1, <5>1 DEF Core, Owned, Shape
        <5>3. QED
          BY <5>1, <5>2
      <4>2. QED
        BY <4>1
    <3>2. QED
      BY <1>2, <1>3, <3>1 DEF Excused
  <2>4. QED
    BY <2>2, <2>3
<1>7. \A p \in Temps : Owned(p)'
  <2> TAKE p \in Temps
  <2>1. CASE temp[p] # 0
    <3>1. temp[p] \in Exports /\ Owned(p)
      BY <1>1, <2>1 DEF Core, RestOK, Exports
    <3>2. QED
      BY <1>2, <1>3, <2>1, <3>1 DEF Owned, Temp
  <2>2. QED
    BY <1>2, <2>1 DEF Owned
<1>8. Core'
  BY <1>5, <1>6, <1>7 DEF Core
<1>9. ASSUME IInv PROVE IInv'
  <2>2. \A e \in Exports : AtWork(e)'
    BY <1>2, <1>3 DEF AtWork
  <2>3. \A x \in Targets : OnDisk(x)'
    <3> TAKE x \in Targets
    <3>1. OnDisk(x)
      BY <1>9 DEF IInv
    <3>2. SUFFICES ASSUME by[x] # 0, by[x] \notin swept PROVE OnDisk(x)'
      BY <1>2 DEF OnDisk
    <3>3. by[x] \in Exports /\ by[x] <= begun /\ disk[x] = by[x] /\ Done(by[x], x)
      BY <3>1, <3>2 DEF OnDisk
    <3>4. exp[by[x]].front # "free"
      BY <1>1, <3>3 DEF Core, Shape, Exports, RestOK
    <3>5. Done(by[x], x)'
      BY <1>2, <1>3, <3>3, <3>4 DEF Done
    <3>6. QED
      BY <1>2, <3>3, <3>5 DEF OnDisk
  <2>4. QED
    BY <1>8, <2>2, <2>3 DEF IInv
<1>10. QED
  BY <1>8, <1>9

LEMMA NextStep ==
    ASSUME Core, SweepOK, [Next]_vars
    PROVE  Core' /\ (IInv => IInv')
<1>1. ASSUME NEW e \in Exports, Exporter(e) PROVE Core' /\ (IInv => IInv')
  BY <1>1, AppendStep, GiveUpStep, FinalizeStep, AbortStep, ReloadStep, TimesOutStep DEF Exporter
<1>2. ASSUME NEW e \in Exports, Task(e) PROVE Core' /\ (IInv => IInv')
  BY <1>2, SweepStep, CreateTempStep, CreateFailsStep, AppendWritesStep, AppendFailsStep, SyncStep,
     SyncFailsStep, RenameStep, RenameFailsStep, UnlinkStep, UnlinkFailsStep, CloseHandleStep,
     WholeWritesStep, WholeReplacesStep, WholeFailsStep DEF Task
<1>3. QED
  BY <1>1, <1>2, BeginStep, AgesStep, LockStep, CrashStep DEF Next

-----------------------------------------------------------------------------
(* The theorems.                                                               *)

(* Most actions leave the sweeps and what is remembered of them alone. *)
LEMMA SweepRests ==
    ASSUME \/ \E x \in Targets : BeginWhole(x)
           \/ \E p \in Temps : Ages(p)
           \/ \E e \in Exports :
                 \/ Exporter(e)
                 \/ CreateTemp(e) \/ AppendWrites(e) \/ AppendFails(e) \/ Sync(e) \/ SyncFails(e)
                 \/ RenameFails(e) \/ UnlinkFails(e) \/ CloseHandle(e) \/ WholeWrites(e) \/ WholeFails(e)
           \/ Lock \/ Unlock \/ UNCHANGED vars
    PROVE  UNCHANGED <<unseen, doomed, by, swept>>
<1>1. ASSUME NEW e \in Exports, Exporter(e) PROVE UNCHANGED <<unseen, doomed, by, swept>>
  <2>1. CASE Append(e) \/ GiveUp(e) \/ Finalize(e) \/ Abort(e) \/ Reload(e)
    BY <2>1 DEF Append, GiveUp, Finalize, Abort, Reload, sweep, history
  <2>2. QED
    BY <1>1, <2>1 DEF Exporter, TimesOut, sweep, history
<1>2. ASSUME NEW e \in Exports,
             \/ CreateTemp(e) \/ AppendWrites(e) \/ AppendFails(e) \/ Sync(e) \/ SyncFails(e)
             \/ RenameFails(e) \/ UnlinkFails(e) \/ CloseHandle(e) \/ WholeWrites(e) \/ WholeFails(e)
      PROVE  UNCHANGED <<unseen, doomed, by, swept>>
  <2>1. CASE CreateTemp(e) \/ AppendWrites(e) \/ AppendFails(e) \/ Sync(e) \/ SyncFails(e)
    BY <2>1 DEF CreateTemp, AppendWrites, AppendFails, Sync, SyncFails, sweep, history
  <2>2. QED
    BY <1>2, <2>1 DEF RenameFails, UnlinkFails, CloseHandle, WholeWrites, WholeFails, sweep, history
<1>3. ASSUME NEW x \in Targets, BeginWhole(x) PROVE UNCHANGED <<unseen, doomed, by, swept>>
  BY <1>3 DEF BeginWhole, sweep, history
<1>4. ASSUME NEW p \in Temps, Ages(p) PROVE UNCHANGED <<unseen, doomed, by, swept>>
  BY <1>4 DEF Ages, sweep, history
<1>5. CASE Lock \/ Unlock \/ UNCHANGED vars
  BY <1>5 DEF Lock, Unlock, vars, sweep, history
<1>6. QED
  BY <1>1, <1>2, <1>3, <1>4, <1>5

LEMMA SweepType ==
    ASSUME ExportsOK, SweepOK, [Next]_vars
    PROVE  SweepOK'
<1> USE BoundsAreNat
<1>1. \A p \in Temps : {temp[p]} \ {0} \subseteq Exports
  BY DEF ExportsOK, Exports
<1>2. CASE UNCHANGED <<unseen, doomed, by, swept>>
  BY <1>2 DEF SweepOK
<1>3. ASSUME NEW x \in Targets, BeginStream(x) PROVE SweepOK'
  BY <1>3 DEF BeginStream, history, SweepOK
<1>4. CASE Crash
  BY <1>4 DEF Crash, history, SweepOK
<1>5. ASSUME NEW e \in Exports, Task(e), ~UNCHANGED <<unseen, doomed, by, swept>> PROVE SweepOK'
  <2>1. Temp(e) \in Temps /\ {temp[Temp(e)]} \ {0, e} \subseteq Exports /\ exp[e].target \in Targets
    BY <1>1, TempsOfTargets DEF ExportsOK, Temp
  <2>2. Takes(e) \subseteq Exports
    BY <2>1 DEF Takes
  <2>3. e \in 0..MaxExports
    BY DEF Exports
  <2>4. ASSUME NEW p \in Temps, Look(e, p) PROVE SweepOK'
    BY <2>4 DEF Look, history, SweepOK
  <2>5. ASSUME NEW p \in Temps, RemoveOld(e, p) PROVE SweepOK'
    BY <1>1, <2>5 DEF RemoveOld, SweepOK
  <2>6. CASE CreateFails(e)
    BY <2>6 DEF CreateFails, history, SweepOK
  <2>7. CASE Rename(e)
    BY <2>1, <2>2, <2>3, <2>7 DEF Rename, sweep, SweepOK
  <2>8. CASE Unlink(e)
    BY <2>2, <2>8 DEF Unlink, sweep, SweepOK
  <2>9. CASE WholeReplaces(e)
    BY <2>1, <2>3, <2>9 DEF WholeReplaces, sweep, SweepOK
  <2>10. QED
    BY <1>5, <2>4, <2>5, <2>6, <2>7, <2>8, <2>9, SweepRests DEF Task
<1>6. QED
  BY <1>2, <1>3, <1>4, <1>5, SweepRests DEF Next

LEMMA Inductive == Spec => [](Core /\ SweepOK)
<1>1. Init => Core
  BY InitInv DEF IInv
<1>2. Init => SweepOK
  BY BoundsAreNat DEF Init, SweepOK
<1>3. Core /\ SweepOK /\ [Next]_vars => Core' /\ SweepOK'
  BY NextStep, SweepType DEF Core
<1>4. QED
  BY <1>1, <1>2, <1>3, PTL DEF Spec

(* In every reachable state of file_controller.rs's streams and writes, and of *)
(* the exporters that call them, each export is well-formed and writes no more *)
(* than its chunks, and each file is one that an export created.               *)
THEOREM TypeCorrect == Spec => []TypeOK
<1>1. Core /\ SweepOK => TypeOK
  BY DEF Core, TypeOK
<1>2. QED
  BY <1>1, Inductive, PTL

(* An export that has failed, with its tasks over, leaves no staging file - but *)
(* for a removal or a sync that failed, a creation nobody waited for, a lock, a *)
(* reload or a crash - even if staging files of running exports are swept.      *)
THEOREM ResidueIsExcused == Spec => []NoResidue
<1>1. Core => NoResidue
  <2> SUFFICES ASSUME Core, NEW p \in Temps, temp[p] # 0, exp[temp[p]].front = "failed",
                      exp[temp[p]].task = "none"
               PROVE  exp[temp[p]].excused
    BY DEF NoResidue
  <2>1. temp[p] \in Exports
    BY BoundsAreNat DEF Core, ExportsOK, Exports
  <2>2. QED
    BY <2>1 DEF Core, Excused
<1>2. QED
  BY <1>1, Inductive, PTL

(* A target holds what was there or the whole of what the export that replaced  *)
(* it last wrote for it, however many exports share a staging name, time out,   *)
(* fail or come late, and however the steps of their sweeps interleave - unless *)
(* a sweep removed that export's staging file, or it lost it to one so deprived.*)
THEOREM TargetsStayWhole == Spec => []TargetIsWhole
<1>1. Init => IInv
  BY InitInv
<1>2. SweepOK /\ IInv /\ [Next]_vars => IInv'
  BY NextStep DEF IInv
<1>3. IInv => TargetIsWhole
  BY DEF IInv, OnDisk, Done, TargetIsWhole
<1>4. QED
  BY <1>1, <1>2, <1>3, Inductive, PTL DEF Spec
=============================================================================
