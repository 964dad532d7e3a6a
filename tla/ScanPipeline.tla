---------------------------- MODULE ScanPipeline ----------------------------
(* How the records reach the front end after an unlock: a scan of the front  *)
(* end's cache (verthys-cache-domain.ts), the scan commands of the           *)
(* application with their prefetching task (scan_controller.rs,              *)
(* scan_pipeline.rs), and the worker that owns the one cursor and the one    *)
(* shared memory through which every page travels (worker.rs, scan_shm.rs,   *)
(* shared_memory.rs).  The application keeps one scan of each kind; the      *)
(* worker does not know about kinds.                                         *)
(* A page is a set of record numbers; who asked for it stands for the        *)
(* one-time key the page is authenticated with.  The direct fetch of         *)
(* scan_next is left out: no page is both empty and not the last.            *)
EXTENDS Naturals, FiniteSets, FiniteSetsExt

CONSTANTS
    Scans,          \* the front end's scanning loops
    KindOf,         \* the kind each of them scans
    None,           \* no value
    Batch,          \* records asked for at a time
    Records,        \* records in the vault at first
    MaxRecords,     \* bound: records in the vault
    MaxOpens,       \* bound: scans opened
    MaxFaults,      \* bound: requests that fail
    MaxBad,         \* bound: records that cannot be decrypted
    EarlyAdds,      \* a record may be added before a scan of each kind has ended
    Overlap,        \* a scan may start while another one, or the prefetch of the
                    \* other kind, still waits for an answer
    SlowShutdown    \* a prefetch may outlive the time a shutdown waits for it

Kinds == {KindOf[s] : s \in Scans}
Pipes == 1..MaxOpens

ASSUME BoundsAreNat ==
    /\ {Batch, Records, MaxRecords, MaxOpens, MaxFaults, MaxBad} \subseteq Nat
    /\ Batch > 0 /\ Records <= MaxRecords
ASSUME KindsAreTwo == KindOf \in [Scans -> {"records", "summary"}]
ASSUME NoneIsNoValue == None \notin Scans \cup Pipes
ASSUME SwitchesAreBoolean == {EarlyAdds, Overlap, SlowShutdown} \subseteq BOOLEAN

VARIABLES
    top,       \* the vault holds records 1 .. top
    bad,       \* those that cannot be decrypted
    cursor,    \* the worker's cursor
    shm,       \* the worker's shared memory and the page in it
    opened,    \* scans opened so far: the name of the last shared memory
    pipe,      \* the application's scan of each kind
    job,       \* the prefetching task of each scan opened
    loop,      \* what each scanning loop of the front end is doing
    owner,     \* the loop whose token is valid, per kind
    cache,     \* records the front end's cache got, per kind
    failed,    \* records reported as damaged, per kind
    maxId,     \* where the next scan goes on, per kind
    covered,   \* the last completed scan said: everything up to here
    faults

vault  == <<top, bad>>
worker  == <<cursor, shm, opened>>
front  == <<owner, cache, failed, maxId, covered>>
vars    == <<vault, worker, pipe, job, loop, front, faults>>

Largest(S) == IF S = {} THEN 0 ELSE Max(S)

Resting == [pc |-> "idle", shm |-> 0, start |-> 0, top |-> 0, cancelled |-> FALSE, held |-> None]

NoJob == [pc |-> "none", kind |-> "records", page |-> None]

Init ==
    /\ top = Records
    /\ bad \in {b \in SUBSET (1..Records) : Cardinality(b) <= MaxBad}
    /\ cursor = None /\ shm = None /\ opened = 0
    /\ pipe = [k \in Kinds |-> None]
    /\ job = [p \in Pipes |-> NoJob]
    /\ loop = [s \in Scans |-> Resting]
    /\ owner = [k \in Kinds |-> None]
    /\ cache = [k \in Kinds |-> {}]
    /\ failed = [k \in Kinds |-> {}]
    /\ maxId = [k \in Kinds |-> 0]
    /\ covered = [k \in Kinds |-> 0]
    /\ faults = 0

-----------------------------------------------------------------------------
(* The worker.                                                               *)

\* A summary reads no data and finds every record readable.
Good(k, c) == {r \in c.pos..c.top : k = "summary" \/ r \notin bad}

\* Variant: a page that is not full is the last.
PageOfShort(k, c, n) ==
    LET good == Good(k, c)
        recs == {r \in good : Cardinality({q \in good : q <= r}) <= n} IN
    [recs |-> recs, failed |-> {}, end |-> Cardinality(recs) < n,
     past |-> IF Cardinality(recs) = n THEN Largest(recs) + 1 ELSE c.top + 1]

\* The next n readable records from the cursor on, or all that are left; damaged
\* ones on the way are reported, at most as many as the caller asked records for.
PageOf(k, c, n) ==
    LET good == Good(k, c)
        recs == {r \in good : Cardinality({q \in good : q <= r}) <= n}
        past == IF Cardinality(recs) = n THEN Largest(recs) + 1 ELSE c.top + 1
        lost == (c.pos..(past - 1)) \ good
    IN  [recs |-> recs,
         failed |-> {r \in lost : Cardinality({q \in lost : q <= r}) <= Batch},
         end |-> recs = {},
         past |-> past]

Advance(c, pos) == [c EXCEPT !.pos = pos]

\* Variant: a page that closed early on its size is taken for the last.
PutPageShort(k, who) ==
    \E n \in 1..Batch :
        LET p == PageOf(k, cursor, n) IN
        /\ cursor' = Advance(cursor, p.past)
        /\ shm' = [shm EXCEPT !.page = [kind |-> k, who |-> who, recs |-> p.recs,
                      failed |-> p.failed, end |-> Cardinality(p.recs) < Batch]]

\* A page is written over the last one, for the one who asked.  A page may close
\* early on its size.
PutPage(k, who) ==
    \E n \in 1..Batch :
        LET p == PageOf(k, cursor, n) IN
        /\ cursor' = Advance(cursor, p.past)
        /\ shm' = [shm EXCEPT !.page =
               [kind |-> k, who |-> who, recs |-> p.recs, failed |-> p.failed, end |-> p.end]]

HasCursor == cursor # None /\ shm # None
CloseCursor == cursor' = None /\ shm' = None

\* The page is there, of the kind the reader expects and under its key; it is
\* wiped as it is read.
Readable(p, k, who) ==
    /\ shm # None /\ shm.id = p
    /\ shm.page # None
    /\ shm.page.kind = k /\ shm.page.who = who

Wipe == shm' = [shm EXCEPT !.page = None]

Fault == faults < MaxFaults /\ faults' = faults + 1

\* A request that fails: it never got there, the answer got lost on the way back,
\* the iterator broke on the way, or the vault was locked and the cursor revoked.
FetchFails(k, who) ==
    \/ ~HasCursor /\ UNCHANGED <<cursor, shm, faults>>
    \/ Fault /\ UNCHANGED <<cursor, shm>>
    \/ Fault /\ HasCursor /\ PutPage(k, who)
    \/ Fault /\ HasCursor /\ UNCHANGED shm
         /\ \E pos \in cursor.pos..(cursor.top + 1) : cursor' = Advance(cursor, pos)
    \/ Fault /\ HasCursor /\ CloseCursor

-----------------------------------------------------------------------------
(* The prefetching task.                                                     *)

SetJob(p, pc, page) == job' = [job EXCEPT ![p].pc = pc, ![p].page = page]
Quiet(p) == \A q \in Pipes : q = p => job[q].pc \notin {"asked", "fetched"}
Prefetcher(p) == <<"job", p>>

\* Shutting a scan down ends its task, one that is not waiting for the worker.
Shutdown(p) == job' = [q \in Pipes |-> IF q = p /\ Quiet(q) THEN NoJob ELSE job[q]]

\* It asks for a page of its kind from whatever cursor the worker has.
JobFetch(p) ==
    /\ job[p].pc = "asked"
    /\ \/ /\ HasCursor
          /\ PutPage(job[p].kind, Prefetcher(p))
          /\ SetJob(p, "fetched", None)
          /\ UNCHANGED faults
       \/ /\ FetchFails(job[p].kind, Prefetcher(p))
          /\ SetJob(p, "error", None)
    /\ UNCHANGED <<vault, opened, pipe, loop, front>>

JobRead(p) ==
    /\ job[p].pc = "fetched"
    /\ IF Readable(p, job[p].kind, Prefetcher(p))
       THEN /\ SetJob(p, "ready", shm.page)
            /\ Wipe
       ELSE /\ SetJob(p, "error", None)
            /\ UNCHANGED shm
    /\ UNCHANGED <<vault, cursor, opened, pipe, loop, front, faults>>

-----------------------------------------------------------------------------
(* The front end's loop: an answer arrives.                                  *)

Valid(s) == owner[KindOf[s]] = s /\ ~loop[s].cancelled
Goes(s, pc) == loop' = [loop EXCEPT ![s].pc = pc, ![s].held = None]

\* Records are merged as long as the token is valid; the last page ends the scan.
Answer(s, page) ==
    LET k == KindOf[s] IN
    /\ IF Valid(s)
       THEN /\ cache' = [cache EXCEPT ![k] = @ \cup page.recs]
            /\ failed' = [failed EXCEPT ![k] = @ \cup page.failed]
            /\ maxId' = [maxId EXCEPT ![k] = Largest({@} \cup page.recs)]
            /\ covered' = [covered EXCEPT ![k] = IF page.end THEN loop[s].top ELSE @]
       ELSE UNCHANGED <<cache, failed, maxId, covered>>
    /\ Goes(s, IF page.end THEN "closing" ELSE "between")
    /\ UNCHANGED owner

-----------------------------------------------------------------------------
(* scan_open.                                                                *)

MayStart(s) ==
    /\ loop[s].pc = "idle" /\ opened < MaxOpens
    /\ owner[KindOf[s]] = None
    /\ \/ Overlap
       \/ /\ \A t \in Scans : loop[t].pc = "idle"
          /\ \A p \in Pipes : job[p].kind = KindOf[s] \/ Quiet(p)

\* The scan of this kind that is still there is taken away first.
StartScan(s) ==
    LET k == KindOf[s] IN
    /\ MayStart(s)
    /\ owner' = [owner EXCEPT ![k] = s]
    /\ loop' = [loop EXCEPT ![s] =
          [pc |-> IF pipe[k] = None THEN "opening" ELSE "stopping", shm |-> 0,
           start |-> IF maxId[k] > 0 THEN maxId[k] + 1 ELSE 1, top |-> 0,
           cancelled |-> FALSE, held |-> pipe[k]]]
    /\ pipe' = [pipe EXCEPT ![k] = None]
    /\ UNCHANGED <<vault, worker, job, cache, failed, maxId, covered, faults>>

\* Its prefetch is waited for, then its cursor is aborted, whoever owns it by now.
StopOld(s) ==
    /\ loop[s].pc = "stopping"
    /\ SlowShutdown \/ Quiet(loop[s].held)
    /\ CloseCursor
    /\ Shutdown(loop[s].held)
    /\ Goes(s, "opening")
    /\ UNCHANGED <<vault, opened, pipe, front, faults>>

\* A new cursor and a new shared memory replace what the worker had, and the first
\* page is fetched: when that fails, they stay.
WorkerOpens(s) ==
    LET k == KindOf[s]
        fresh == [pos |-> loop[s].start, top |-> top] IN
    /\ loop[s].pc = "opening" /\ opened < MaxOpens
    /\ opened' = opened + 1
    /\ \/ \E n \in 1..Batch :
             LET p == PageOf(k, fresh, n) IN
             /\ cursor' = Advance(fresh, p.past)
             /\ shm' = [id |-> opened + 1, page |->
                   [kind |-> k, who |-> s, recs |-> p.recs, failed |-> p.failed, end |-> p.end]]
             /\ loop' = [loop EXCEPT ![s].pc = "reading", ![s].shm = opened + 1, ![s].top = top]
             /\ UNCHANGED faults
       \/ /\ Fault
          /\ cursor' = fresh
          /\ shm' = [id |-> opened + 1, page |-> None]
          /\ Goes(s, "failing")
    /\ UNCHANGED <<vault, pipe, job, front>>

OpenFails(s) ==
    /\ loop[s].pc = "opening"
    /\ Fault
    /\ Goes(s, "failing")
    /\ UNCHANGED <<vault, worker, pipe, job, front>>

\* Variant: the second page is not asked for.
OpenReadsOnly(s) ==
    /\ loop[s].pc = "reading"
    /\ IF Readable(loop[s].shm, KindOf[s], s)
       THEN /\ Wipe
            /\ Answer(s, shm.page)
            /\ pipe' = [pipe EXCEPT ![KindOf[s]] = loop[s].shm]
            /\ UNCHANGED job
       ELSE /\ Goes(s, "failing")
            /\ UNCHANGED <<shm, pipe, job, front>>
    /\ UNCHANGED <<vault, cursor, opened, faults>>

\* The first page is read, the prefetch of the second asked for, the scan stored.
OpenReads(s) ==
    LET k == KindOf[s]
        p == loop[s].shm IN
    /\ loop[s].pc = "reading"
    /\ IF Readable(p, k, s)
       THEN /\ Wipe
            /\ Answer(s, shm.page)
            /\ pipe' = [pipe EXCEPT ![k] = p]
            /\ job' = [job EXCEPT ![p] = [pc |-> IF shm.page.end THEN "none" ELSE "asked",
                                          kind |-> k, page |-> None]]
       ELSE /\ Goes(s, "failing")
            /\ UNCHANGED <<shm, pipe, job, front>>
    /\ UNCHANGED <<vault, cursor, opened, faults>>

-----------------------------------------------------------------------------
(* scan_next.                                                                *)

\* The scan is taken out of the application's state while its page is awaited.
NextTakes(s) ==
    LET k == KindOf[s] IN
    /\ loop[s].pc = "between" /\ Valid(s)
    /\ IF pipe[k] = None
       THEN Goes(s, "failing") /\ UNCHANGED pipe
       ELSE /\ loop' = [loop EXCEPT ![s].pc = "waiting", ![s].held = pipe[k]]
            /\ pipe' = [pipe EXCEPT ![k] = None]
    /\ UNCHANGED <<vault, worker, job, front, faults>>

\* A page that came is handed on, and the next one asked for at once.
NextAnswers(s) ==
    LET k == KindOf[s]
        p == loop[s].held
        page == job[p].page IN
    /\ loop[s].pc = "waiting" /\ job[p].pc = "ready"
    /\ Answer(s, page)
    /\ pipe' = [pipe EXCEPT ![k] = p]
    /\ SetJob(p, IF page.end THEN "none" ELSE "asked", None)
    /\ UNCHANGED <<vault, worker, faults>>

\* A failed prefetch ends the scan: the state is dropped and the cursor aborted.
NextFails(s) ==
    /\ loop[s].pc = "waiting" /\ job[loop[s].held].pc = "error"
    /\ CloseCursor
    /\ Shutdown(loop[s].held)
    /\ pipe' = [pipe EXCEPT ![KindOf[s]] = None]
    /\ Goes(s, "failing")
    /\ UNCHANGED <<vault, opened, front, faults>>

-----------------------------------------------------------------------------
(* The end of a loop.                                                        *)

\* The record scan goes on without a cursor: it lists the records from where it
\* started, and may break off; the summary scan gives up.
FallBack(s, upto) ==
    LET k == KindOf[s]
        recs == {r \in loop[s].start..upto : r \notin bad} IN
    /\ loop[s].pc = "failing"
    /\ IF k = "records" /\ Valid(s)
       THEN /\ cache' = [cache EXCEPT ![k] = @ \cup recs]
            /\ maxId' = [maxId EXCEPT ![k] = Largest({@} \cup recs)]
       ELSE UNCHANGED <<cache, maxId>>
    /\ Goes(s, "closing")
    /\ UNCHANGED <<vault, worker, pipe, job, owner, failed, covered, faults>>

\* A cancelled loop, or one whose cache was cleared, ends between two pages.
LeaveLoop(s) ==
    /\ loop[s].pc = "between" /\ ~Valid(s)
    /\ Goes(s, "closing")
    /\ UNCHANGED <<vault, worker, pipe, job, front, faults>>

\* Only the loop that still holds the token closes; the cursor of another one is
\* left to its owner.
CloseTakes(s) ==
    LET k == KindOf[s] IN
    /\ loop[s].pc = "closing"
    /\ IF owner[k] = s
       THEN /\ loop' = [loop EXCEPT ![s].pc = "ending", ![s].held = pipe[k]]
            /\ pipe' = [pipe EXCEPT ![k] = None]
       ELSE loop' = [loop EXCEPT ![s] = Resting] /\ UNCHANGED pipe
    /\ UNCHANGED <<vault, worker, job, front, faults>>

CloseEnds(s) ==
    LET k == KindOf[s] IN
    /\ loop[s].pc = "ending"
    /\ loop[s].held = None \/ SlowShutdown \/ Quiet(loop[s].held)
    /\ \/ CloseCursor /\ UNCHANGED faults
       \/ Fault /\ UNCHANGED <<cursor, shm>>
    /\ Shutdown(loop[s].held)
    /\ owner' = [owner EXCEPT ![k] = None]
    /\ loop' = [loop EXCEPT ![s] = Resting]
    /\ UNCHANGED <<vault, opened, pipe, cache, failed, maxId, covered>>

-----------------------------------------------------------------------------
(* What the user does meanwhile.                                             *)

Cancel(k) ==
    /\ owner[k] # None /\ ~loop[owner[k]].cancelled
    /\ loop' = [loop EXCEPT ![owner[k]].cancelled = TRUE]
    /\ UNCHANGED <<vault, worker, pipe, job, front, faults>>

ClearCache(k) ==
    /\ owner[k] # None \/ cache[k] # {}
    /\ IF owner[k] = None THEN UNCHANGED loop
       ELSE loop' = [loop EXCEPT ![owner[k]].cancelled = TRUE]
    /\ owner' = [owner EXCEPT ![k] = None]
    /\ cache' = [cache EXCEPT ![k] = {}]
    /\ failed' = [failed EXCEPT ![k] = {}]
    /\ maxId' = [maxId EXCEPT ![k] = 0]
    /\ covered' = [covered EXCEPT ![k] = 0]
    /\ UNCHANGED <<vault, worker, pipe, job, faults>>

\* A new record goes into the vault and into both caches.
AddRecord ==
    /\ top < MaxRecords
    /\ EarlyAdds \/ \A k \in Kinds : covered[k] = top
    /\ top' = top + 1
    /\ cache' = [k \in Kinds |-> cache[k] \cup {top + 1}]
    /\ maxId' = [k \in Kinds |-> top + 1]
    /\ UNCHANGED <<bad, worker, pipe, job, loop, owner, failed, covered, faults>>

-----------------------------------------------------------------------------
Step(s) ==
    \/ StartScan(s) \/ StopOld(s) \/ WorkerOpens(s) \/ OpenFails(s) \/ OpenReads(s)
    \/ NextTakes(s) \/ NextAnswers(s) \/ NextFails(s)
    \/ LeaveLoop(s) \/ CloseTakes(s) \/ CloseEnds(s)
    \/ \E upto \in 0..MaxRecords : upto <= top /\ FallBack(s, upto)

Next ==
    \/ \E s \in Scans : Step(s)
    \/ \E p \in Pipes : JobFetch(p) \/ JobRead(p)
    \/ \E k \in Kinds : Cancel(k) \/ ClearCache(k)
    \/ AddRecord

Spec == Init /\ [][Next]_vars

-----------------------------------------------------------------------------
(* Properties.                                                               *)

Page == [kind : Kinds, who : Scans \cup {Prefetcher(p) : p \in Pipes},
         recs : SUBSET (1..MaxRecords), failed : SUBSET (1..MaxRecords), end : BOOLEAN]

\* Types, and: a page says it is the last exactly when it is empty, which is why
\* scan_next never has to ask for a page itself.
TypeOK ==
    /\ top \in 0..MaxRecords /\ bad \subseteq 1..MaxRecords
    /\ cursor = None \/ cursor \in [pos : 1..(MaxRecords + 1), top : 0..MaxRecords]
    /\ shm = None \/ shm \in [id : Pipes, page : Page \cup {None}]
    /\ shm # None =>
          shm.page = None \/ (shm.page.end <=> shm.page.recs = {})
    /\ opened \in 0..MaxOpens
    /\ pipe \in [Kinds -> Pipes \cup {None}]
    /\ owner \in [Kinds -> Scans \cup {None}]
    /\ cache \in [Kinds -> SUBSET (1..MaxRecords)]
    /\ failed \in [Kinds -> SUBSET (1..MaxRecords)]
    /\ maxId \in [Kinds -> 0..MaxRecords] /\ covered \in [Kinds -> 0..MaxRecords]

Shows(k, r) == r \in cache[k] \/ (k = "records" /\ r \in bad)

\* A scan goes on after the largest number in the cache, and the one that saw an
\* empty page said that this was all: so up to both the cache holds every readable
\* record, whatever page was lost, cancelled, wiped or fetched twice.
CacheIsComplete ==
    \A k \in Kinds : \A r \in 1..Largest({maxId[k], covered[k]}) : Shows(k, r)

\* Every scanning loop comes to an end and hands its token back: no loop waits for
\* a prefetch that was never asked for or whose task is gone.
Fairness ==
    /\ \A s \in Scans : WF_vars(Step(s) /\ loop[s].pc # "idle")
    /\ \A p \in Pipes : WF_vars(JobFetch(p) \/ JobRead(p))

ScansEnd == \A s \in Scans : loop[s].pc # "idle" ~> loop[s].pc = "idle"

FairSpec == Spec /\ Fairness
=============================================================================
