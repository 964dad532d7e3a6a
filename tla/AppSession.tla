------------------------------ MODULE AppSession ------------------------------
(* The desktop application around one container: the commands of the front    *)
(* end (controller/verthys_controller.rs, key_controller.rs,                   *)
(* worker_controller.rs), the state they share (state/mod.rs,                  *)
(* worker_lifecycle.rs, key_lifecycle.rs, verthys_session.rs), and the worker  *)
(* process that holds the container, behind an actor that writes one request   *)
(* and reads one line at a time (worker/session.rs, actor.rs, graceful.rs).    *)
(*                                                                             *)
(* Commands run concurrently: each takes its copy of the session, waits for    *)
(* its answer, and acts on the shared state afterwards, whatever happened in   *)
(* between.  A worker may hang, die, or answer when nobody waits any more.     *)
EXTENDS Naturals, Sequences

CONSTANTS
    Calls,        \* places for commands that run at the same time
    None,
    MaxWorkers,   \* bound: workers started
    MaxStarts,    \* bound: commands issued
    MaxCrashes,   \* bound: workers that die on their own
    Issued,       \* bound: the commands the front end sends
    Large         \* commands whose request does not fit the pipe of a busy worker

ASSUME AppAssumption ==
    MaxWorkers \in Nat \ {0} /\ MaxStarts \in Nat /\ MaxCrashes \in Nat

MaxRecovery == 3        \* MAX_RECOVERY_ATTEMPTS
Workers == 1..MaxWorkers

VARIABLES
    lc, recovered,      \* WorkerLifecycle: state and recovery_count
    key,                \* KeyLifecycle: NoKey, Locked, Unlocked
    guard,              \* verthys_session: the worker whose unlock installed it, or None
    session,            \* the worker the application talks to, or None
    call,               \* the commands in progress
    starts, crashes,    \* how much of the bounds is used up
    proc,               \* the process of a worker: none, alive, dead
    flag,               \* its child_alive
    queue, actor,       \* calls that wait for its actor; the call the actor serves
    asked,              \* its standard input: requests it has not handled
    answers,            \* its standard output: answers nobody has read
    open, gmk,          \* in the worker: the container is open; a key is in memory
    stored,             \* in the container: there is a record of a global key
    slow,               \* history: workers one of whose requests timed out
    verified,           \* history: the worker whose answer made the key Unlocked
    crossed,            \* history: two key commands were in progress at the same time
    unlockedAt,         \* history: how many commands had been issued when an unlock returned last
    locked              \* history: verthys_lock has returned and no unlock ran since it was issued

pipe == <<asked, answers>>
app == <<lc, recovered, key, guard, session>>
bounds == <<starts, crashes>>
worker == <<proc, flag, queue, actor, pipe, open, gmk, stored>>
history == <<slow, verified, crossed, unlockedAt, locked>>
vars == <<app, call, bounds, worker, history>>

KeyCommands == {"derive", "derive_store", "verify", "clear", "reset"}
Sending == KeyCommands \cup {"unlock", "lock_persist", "flush", "record"}
Commands == Sending \cup {"lock", "init", "destroy"}

Places == {"sent", "writing", "answered", "guard", "wait_io", "drop", "reset", "end",
           "shutting_down", "transition", "spawn", "ready", "finish"}
Answers == {"ok", "ok_has_key", "err"}

Call == [cmd : Commands, n : 1..MaxStarts, w : Workers \cup {None},
         ans : Answers \cup {"none", "fail"}, at : Places]

ASSUME NoneAssumption == None \notin Calls /\ None \notin Workers /\ None \notin Call
ASSUME IssuedAssumption == Issued \subseteq Commands

Running(cmds) == \E c \in Calls : call[c] # None /\ call[c].cmd \in cmds

(* begin_io and end_io bracket these two commands. *)
IoPending == Running({"flush", "lock_persist"})

(* The session object of a worker is shared: it lives as long as the           *)
(* application, a call that waits for an answer or a call that starts the      *)
(* worker has a copy.                                                          *)
Held(w) == session = w \/ \E c \in Calls : call[c] # None /\ call[c].w = w
                                             /\ call[c].at \notin {"answered", "guard"}

Done(c) == call' = [call EXCEPT ![c] = None]
Goto(c, at) == call' = [call EXCEPT ![c].at = at]

-------------------------------------------------------------------------------
(* A command is issued.                                                        *)

(* Variant: a key may be derived and stored over one that is in use. *)
AdmittedOverKey(cmd) ==
    CASE cmd \in {"derive", "derive_store"} -> key \in {"NoKey", "Unlocked"}
      [] cmd = "verify" -> key = "Locked"
      [] cmd \in {"flush", "record"} -> guard # None
      [] cmd = "init" -> ~Running({"init"})
      [] OTHER -> TRUE

(* What a command asks before it touches the worker. *)
Admitted(cmd) ==
    CASE cmd = "derive" -> key \in {"NoKey", "Unlocked"}
      [] cmd = "derive_store" -> key = "NoKey"
      [] cmd = "verify" -> key = "Locked"
      [] cmd \in {"flush", "record"} -> guard # None      \* require_unlocked
      [] cmd = "init" -> ~Running({"init"})
      [] OTHER -> TRUE

First(cmd) == CASE cmd = "init" -> "transition"
                [] cmd = "destroy" -> "shutting_down"
                [] cmd = "lock" -> "wait_io"
                [] OTHER -> "sent"

Start(c, cmd) ==
    /\ call[c] = None /\ starts < MaxStarts /\ starts' = starts + 1
    /\ Admitted(cmd)
    /\ LET w == IF cmd \in Sending THEN session ELSE None
           lost == cmd \in Sending /\ session = None     \* "worker not initialized"
       IN  /\ call' = [call EXCEPT ![c] =
                 [cmd |-> cmd, n |-> starts', w |-> w, ans |-> IF lost THEN "fail" ELSE "none",
                  at |-> IF lost THEN "answered" ELSE First(cmd)]]
           /\ queue' = IF w = None THEN queue ELSE [queue EXCEPT ![w] = Append(@, c)]
    /\ crossed' = (crossed \/ (cmd \in KeyCommands /\ Running(KeyCommands)))
    /\ locked' = (locked /\ cmd # "unlock")
    /\ UNCHANGED <<app, crashes, proc, flag, actor, pipe, open, gmk, stored, slow, verified, unlockedAt>>

-------------------------------------------------------------------------------
(* The actor of a worker.                                                      *)

Reply(w, c, ans) ==
    /\ call' = [call EXCEPT ![c].at = "answered", ![c].ans = ans]
    /\ actor' = [actor EXCEPT ![w] = None]

(* A dead worker refuses a request. *)
ActorTake(w) ==
    /\ actor[w] = None /\ queue[w] # <<>>
    /\ queue' = [queue EXCEPT ![w] = Tail(@)]
    /\ LET c == Head(queue[w])
       IN  \/ /\ flag[w] /\ proc[w] = "alive"
              /\ actor' = [actor EXCEPT ![w] = c]
              /\ Goto(c, "writing")
              /\ UNCHANGED flag
           \/ /\ ~flag[w] \/ proc[w] = "dead"
              /\ Reply(w, c, "fail")
              /\ flag' = [flag EXCEPT ![w] = FALSE]
    /\ UNCHANGED <<app, bounds, proc, pipe, open, gmk, stored, history>>

Writing(w) == actor[w] # None /\ call[actor[w]].at = "writing"
Reading(w) == actor[w] # None /\ call[actor[w]].at = "sent"

(* No deadline covers the write: a request that does not fit waits until the   *)
(* worker has read the ones before it.                                         *)
ActorWrite(w) ==
    /\ Writing(w)
    /\ LET r == call[actor[w]]
       IN  \/ /\ proc[w] = "alive"
              /\ r.cmd \in Large => asked[w] = <<>>
              /\ asked' = [asked EXCEPT ![w] = Append(@, [op |-> r.cmd, n |-> r.n])]
              /\ Goto(actor[w], "sent")
              /\ UNCHANGED <<actor, flag>>
           \/ /\ proc[w] = "dead"
              /\ Reply(w, actor[w], "fail")
              /\ flag' = [flag EXCEPT ![w] = FALSE]
              /\ UNCHANGED asked
    /\ UNCHANGED <<app, bounds, proc, queue, answers, open, gmk, stored, history>>

(* The next line on the pipe is the answer, whichever request it was for. *)
ActorRead(w) ==
    /\ Reading(w)
    /\ answers[w] # <<>>
    /\ Reply(w, actor[w], Head(answers[w]).ans)
    /\ answers' = [answers EXCEPT ![w] = Tail(@)]
    /\ UNCHANGED <<app, bounds, proc, flag, queue, asked, open, gmk, stored, history>>

ActorEof(w) ==
    /\ Reading(w)
    /\ answers[w] = <<>> /\ proc[w] = "dead"
    /\ Reply(w, actor[w], "fail")
    /\ flag' = [flag EXCEPT ![w] = FALSE]
    /\ UNCHANGED <<app, bounds, proc, queue, pipe, open, gmk, stored, history>>

(* Variant: the deadline is noticed only when the worker has exited. *)
ActorTimeoutOnExit(w) ==
    /\ Reading(w) /\ proc[w] = "dead" /\ answers[w] = <<>>
    /\ Reply(w, actor[w], "fail")
    /\ slow' = slow \cup {w}
    /\ UNCHANGED <<app, bounds, proc, flag, queue, pipe, open, gmk, stored, verified, crossed, unlockedAt, locked>>

(* Variant: the call is answered and the actor goes on waiting for it. *)
ActorTimeoutWaitsOn(w) ==
    /\ Reading(w) /\ proc[w] = "alive" /\ answers[w] = <<>>
    /\ call' = [call EXCEPT ![actor[w]].at = "answered", ![actor[w]].ans = "fail"]
    /\ slow' = slow \cup {w}
    /\ UNCHANGED <<app, bounds, proc, flag, queue, actor, pipe, open, gmk, stored, verified, crossed, unlockedAt, locked>>

(* The deadline passes; the worker is neither told nor killed, and its answer  *)
(* stays on the way.                                                           *)
ActorTimeout(w) ==
    /\ Reading(w) /\ proc[w] = "alive" /\ answers[w] = <<>>
    /\ Reply(w, actor[w], "fail")
    /\ slow' = slow \cup {w}
    /\ UNCHANGED <<app, bounds, proc, flag, queue, pipe, open, gmk, stored, verified, crossed, unlockedAt, locked>>

(* What a worker has written can still be read, the rest is lost. *)
Die(ws) ==
    /\ proc' = [w \in Workers |-> IF w \in ws THEN "dead" ELSE proc[w]]
    /\ asked' = [w \in Workers |-> IF w \in ws THEN <<>> ELSE asked[w]]
    /\ UNCHANGED answers
    /\ open' = [w \in Workers |-> w \notin ws /\ open[w]]
    /\ gmk' = [w \in Workers |-> w \notin ws /\ gmk[w]]

(* Variant: the actor asks the worker to leave and never kills it. *)
ActorShutdownPolitely(w) ==
    /\ ~Held(w)
    /\ actor[w] = None /\ queue[w] = <<>> /\ proc[w] = "alive"
    /\ asked[w] = <<>>
    /\ Die({w})
    /\ flag' = [flag EXCEPT ![w] = FALSE]
    /\ UNCHANGED <<app, call, bounds, queue, actor, stored, history>>

(* When the last copy of the session is gone the actor serves what is queued,  *)
(* asks the worker to leave and kills it when it does not.                     *)
ActorShutdown(w) ==
    /\ ~Held(w)
    /\ actor[w] = None /\ queue[w] = <<>> /\ proc[w] = "alive"
    /\ Die({w})
    /\ flag' = [flag EXCEPT ![w] = FALSE]
    /\ UNCHANGED <<app, call, bounds, queue, actor, stored, history>>

-------------------------------------------------------------------------------
(* The worker process: one request after the other.                            *)

(* The container admits one process. *)
Free(w) == \A v \in Workers \ {w} : ~open[v]

Outcome(w, op, ans) ==
    CASE op = "unlock" ->
           \* an open container is locked first and opened again; the search for
           \* the record of the key may fail, and then the answer does not say
           \/ /\ Free(w) /\ open' = [open EXCEPT ![w] = TRUE]
              /\ ans = "ok" \/ (stored /\ ans = "ok_has_key")
              /\ UNCHANGED <<gmk, stored>>
           \/ /\ ans = "err"
              /\ \E o \in {FALSE, open[w]} : open' = [open EXCEPT ![w] = o]
              /\ UNCHANGED <<gmk, stored>>
      [] op = "lock_persist" ->
           /\ \/ ans = "ok" /\ open[w] /\ open' = [open EXCEPT ![w] = FALSE]
              \/ ans = "err" /\ UNCHANGED open
           /\ UNCHANGED <<gmk, stored>>
      [] op = "flush" ->
           /\ ans = "err" \/ (ans = "ok" /\ open[w])
           /\ UNCHANGED <<open, gmk, stored>>
      [] op = "verify" ->
           /\ \/ ans = "ok" /\ gmk' = [gmk EXCEPT ![w] = TRUE]
              \/ ans = "err" /\ UNCHANGED gmk
           /\ UNCHANGED <<open, stored>>
      [] op = "derive" ->
           /\ \/ ans = "ok" /\ gmk' = [gmk EXCEPT ![w] = TRUE]
              \/ ans = "err" /\ UNCHANGED gmk
           /\ UNCHANGED <<open, stored>>
      [] op = "derive_store" ->
           \* on a failure the key goes, and the record that was there may be gone
           /\ \/ ans = "ok" /\ open[w] /\ gmk' = [gmk EXCEPT ![w] = TRUE] /\ stored' = TRUE
              \/ ans = "err" /\ UNCHANGED <<gmk, stored>>
              \/ /\ ans = "err" /\ gmk' = [gmk EXCEPT ![w] = FALSE]
                 /\ stored' \in (IF open[w] THEN {FALSE, stored} ELSE {stored})
           /\ UNCHANGED open
      [] op = "record" ->
           /\ ans = "err" \/ (ans = "ok" /\ open[w])
           /\ UNCHANGED <<open, gmk, stored>>
      [] OTHER ->  \* clear, reset
           /\ ans = "ok" /\ gmk' = [gmk EXCEPT ![w] = FALSE]
           /\ UNCHANGED <<open, stored>>

Handle(w) ==
    /\ proc[w] = "alive" /\ asked[w] # <<>>
    /\ asked' = [asked EXCEPT ![w] = Tail(@)]
    /\ \E ans \in {"ok", "ok_has_key", "err"} :
         /\ Outcome(w, Head(asked[w]).op, ans)
         /\ answers' = [answers EXCEPT ![w] = Append(@, [n |-> Head(asked[w]).n, ans |-> ans])]
    /\ UNCHANGED <<app, call, bounds, proc, flag, queue, actor, history>>

WorkerCrash(w) ==
    /\ proc[w] = "alive" /\ crashes < MaxCrashes /\ crashes' = crashes + 1
    /\ Die({w})
    /\ UNCHANGED <<app, call, starts, flag, queue, actor, stored, history>>

-------------------------------------------------------------------------------
(* What a command does with its answer.                                        *)

Answered(c, cmds) == call[c] # None /\ call[c].at = "answered" /\ call[c].cmd \in cmds
Ok(c) == call[c].ans \in {"ok", "ok_has_key"}

(* A lost answer to an unlock drops the session the application has now. *)
UnlockAnswered(c) ==
    /\ Answered(c, {"unlock"})
    /\ \/ Ok(c) /\ Goto(c, "guard") /\ UNCHANGED <<session, unlockedAt>>
          /\ key' = IF call[c].ans = "ok_has_key" THEN "Locked" ELSE "NoKey"
       \/ ~Ok(c) /\ Done(c) /\ unlockedAt' = starts /\ UNCHANGED key
          /\ session' = IF call[c].ans = "fail" THEN None ELSE session
    /\ UNCHANGED <<lc, recovered, guard, bounds, worker, slow, verified, crossed, locked>>

(* The file may refuse the guard its lock; the unlock succeeds all the same. *)
UnlockGuard(c) ==
    /\ call[c] # None /\ call[c].at = "guard"
    /\ guard' \in {guard, call[c].w}
    /\ Done(c) /\ unlockedAt' = starts
    /\ UNCHANGED <<lc, recovered, key, session, bounds, worker, slow, verified, crossed, locked>>

(* Variant: the answer counts whatever state the key is in by then. *)
VerifyAnsweredAnyState(c) ==
    /\ Answered(c, {"verify"})
    /\ \/ Ok(c) /\ key' = "Unlocked" /\ verified' = call[c].w
       \/ ~Ok(c) /\ UNCHANGED <<key, verified>>
    /\ Done(c)
    /\ UNCHANGED <<lc, recovered, guard, session, bounds, worker, slow, crossed, unlockedAt, locked>>

VerifyAnswered(c) ==
    /\ Answered(c, {"verify"})
    /\ \/ Ok(c) /\ key = "Locked" /\ key' = "Unlocked" /\ verified' = call[c].w
       \/ ~(Ok(c) /\ key = "Locked") /\ UNCHANGED <<key, verified>>
    /\ Done(c)
    /\ UNCHANGED <<lc, recovered, guard, session, bounds, worker, slow, crossed, unlockedAt, locked>>

ClearAnswered(c) ==
    /\ Answered(c, {"clear"})
    /\ key' = IF Ok(c) /\ key = "Unlocked" THEN "Locked" ELSE key
    /\ Done(c)
    /\ UNCHANGED <<lc, recovered, guard, session, bounds, worker, history>>

ResetAnswered(c) ==
    /\ Answered(c, {"reset"})
    /\ key' = "NoKey" /\ Done(c)
    /\ UNCHANGED <<lc, recovered, guard, session, bounds, worker, history>>

(* These leave the shared state alone, whatever the answer was. *)
OtherAnswered(c) ==
    /\ Answered(c, {"derive", "derive_store", "flush", "lock_persist", "record"})
    /\ Done(c)
    /\ UNCHANGED <<app, bounds, worker, history>>

(* The front end tells what it found when it looked for the record itself,     *)
(* after an unlock and with no command in progress.                            *)
Reconcile(has) ==
    /\ guard # None /\ \A c \in Calls : call[c] = None
    /\ has => stored
    /\ key' = IF ~has THEN "NoKey" ELSE IF key = "NoKey" THEN "Locked" ELSE key
    /\ UNCHANGED <<lc, recovered, guard, session, call, bounds, worker, history>>

-------------------------------------------------------------------------------
(* The commands that replace the worker.                                       *)

At(c, cmds, at) == call[c] # None /\ call[c].cmd \in cmds /\ call[c].at = at

WaitIo(c) ==
    /\ At(c, {"lock", "destroy"}, "wait_io") /\ ~IoPending
    /\ Goto(c, "drop")
    /\ UNCHANGED <<app, bounds, worker, history>>

(* 10 s for a lock, 2 s for a destroy. *)
WaitIoDeadline(c) ==
    /\ At(c, {"lock", "destroy"}, "wait_io") /\ IoPending
    /\ Goto(c, "drop")
    /\ UNCHANGED <<app, bounds, worker, history>>

DropSession(c) ==
    /\ At(c, {"lock", "destroy"}, "drop")
    /\ session' = None /\ Goto(c, "reset")
    /\ UNCHANGED <<lc, recovered, key, guard, bounds, worker, history>>

ResetKey(c) ==
    /\ At(c, {"lock", "destroy"}, "reset")
    /\ key' = "NoKey" /\ Goto(c, "end")
    /\ UNCHANGED <<lc, recovered, guard, session, bounds, worker, history>>

LockEnd(c) ==
    /\ At(c, {"lock"}, "end")
    /\ guard' = None /\ Done(c)
    /\ locked' = (unlockedAt < call[c].n /\ ~Running({"unlock"}))
    /\ UNCHANGED <<lc, recovered, key, session, bounds, worker, slow, verified, crossed, unlockedAt>>

DestroyBegin(c) ==
    /\ At(c, {"destroy"}, "shutting_down")
    /\ lc' = IF lc = "Uninitialized" THEN lc ELSE "ShuttingDown"
    /\ Goto(c, IF session = None THEN "reset" ELSE "wait_io")
    /\ UNCHANGED <<recovered, key, guard, session, bounds, worker, history>>

DestroyEnd(c) ==
    /\ At(c, {"destroy"}, "end")
    /\ lc' = "Uninitialized" /\ Done(c)
    /\ UNCHANGED <<recovered, key, guard, session, bounds, worker, history>>

(* Every worker process of the machine is killed first, the one in use         *)
(* included; on some systems none is.                                          *)
InitTransition(c) ==
    /\ At(c, {"init"}, "transition")
    /\ \E ws \in {{}, {w \in Workers : proc[w] = "alive"}} : Die(ws)
    /\ LET again == lc = "Failed" /\ recovered < MaxRecovery
       IN  \/ /\ lc = "Uninitialized" \/ again
              /\ lc' = "Initializing" /\ Goto(c, "spawn")
              /\ recovered' = IF again THEN recovered + 1 ELSE 0
           \/ /\ lc # "Uninitialized" /\ ~again
              /\ lc' = "Failed" /\ Done(c) /\ UNCHANGED recovered
    /\ UNCHANGED <<key, guard, session, bounds, flag, queue, actor, stored, history>>

(* Variant: a worker that cannot be started leaves the state as it is. *)
InitSpawnForgetsFailure(c) ==
    /\ At(c, {"init"}, "spawn") /\ session' = None
    /\ \/ Done(c) /\ UNCHANGED <<lc, proc, flag>>
       \/ \E w \in Workers :
            /\ proc[w] = "none" /\ \A v \in 1..(w - 1) : proc[v] # "none"
            /\ proc' = [proc EXCEPT ![w] = "alive"] /\ flag' = [flag EXCEPT ![w] = TRUE]
            /\ call' = [call EXCEPT ![c].w = w, ![c].at = "ready"]
            /\ UNCHANGED lc
    /\ UNCHANGED <<recovered, key, guard, bounds, queue, actor, pipe, open, gmk, stored, history>>

InitSpawn(c) ==
    /\ At(c, {"init"}, "spawn") /\ session' = None
    /\ \/ lc' = "Failed" /\ Done(c) /\ UNCHANGED <<proc, flag>>
       \/ \E w \in Workers :
            /\ proc[w] = "none" /\ \A v \in 1..(w - 1) : proc[v] # "none"
            /\ proc' = [proc EXCEPT ![w] = "alive"] /\ flag' = [flag EXCEPT ![w] = TRUE]
            /\ call' = [call EXCEPT ![c].w = w, ![c].at = "ready"]
            /\ UNCHANGED lc
    /\ UNCHANGED <<recovered, key, guard, bounds, queue, actor, pipe, open, gmk, stored, history>>

(* No line within the deadline, or the end of the pipe: the worker is killed. *)
InitReady(c) ==
    /\ At(c, {"init"}, "ready")
    /\ \/ session' = call[c].w /\ Goto(c, "finish") /\ UNCHANGED lc
       \/ lc' = "Failed" /\ Done(c) /\ UNCHANGED session
    /\ UNCHANGED <<recovered, key, guard, bounds, worker, history>>

InitFinish(c) ==
    /\ At(c, {"init"}, "finish")
    /\ lc' = IF lc = "Initializing" THEN "Ready" ELSE lc
    /\ Done(c)
    /\ UNCHANGED <<recovered, key, guard, session, bounds, worker, history>>

-------------------------------------------------------------------------------
(* The application has just started, or its first worker_init has returned. *)
Init ==
    /\ \/ /\ lc = "Uninitialized" /\ session = None
          /\ proc = [w \in Workers |-> "none"] /\ flag = [w \in Workers |-> FALSE]
       \/ /\ lc = "Ready" /\ session = 1
          /\ proc = [w \in Workers |-> IF w = 1 THEN "alive" ELSE "none"]
          /\ flag = [w \in Workers |-> w = 1]
    /\ recovered = 0 /\ key = "NoKey" /\ guard = None
    /\ call = [c \in Calls |-> None] /\ starts = 0 /\ crashes = 0
    /\ queue = [w \in Workers |-> <<>>] /\ actor = [w \in Workers |-> None]
    /\ asked = [w \in Workers |-> <<>>] /\ answers = [w \in Workers |-> <<>>]
    /\ open = [w \in Workers |-> FALSE] /\ gmk = [w \in Workers |-> FALSE]
    /\ stored \in BOOLEAN
    /\ slow = {} /\ verified = None /\ crossed = FALSE /\ unlockedAt = 0 /\ locked = FALSE

CallStep(c) ==
    \/ UnlockAnswered(c) \/ UnlockGuard(c) \/ VerifyAnswered(c) \/ ClearAnswered(c)
    \/ ResetAnswered(c) \/ OtherAnswered(c)
    \/ WaitIo(c) \/ WaitIoDeadline(c) \/ DropSession(c) \/ ResetKey(c)
    \/ LockEnd(c) \/ DestroyBegin(c) \/ DestroyEnd(c)
    \/ InitTransition(c) \/ InitSpawn(c) \/ InitReady(c) \/ InitFinish(c)

ActorStep(w) ==
    \/ ActorTake(w) \/ ActorWrite(w) \/ ActorRead(w) \/ ActorEof(w) \/ ActorTimeout(w)
    \/ ActorShutdown(w)

Next ==
    \/ \E c \in Calls : CallStep(c) \/ \E cmd \in Issued : Start(c, cmd)
    \/ \E has \in BOOLEAN : Reconcile(has)
    \/ \E w \in Workers : ActorStep(w) \/ Handle(w) \/ WorkerCrash(w)

(* The application runs; nothing is assumed of the worker, which may hang. *)
Fairness == /\ \A c \in Calls : WF_vars(CallStep(c))
            /\ \A w \in Workers : WF_vars(ActorStep(w))

Spec == Init /\ [][Next]_vars /\ Fairness

-------------------------------------------------------------------------------
Serves(w) == /\ call[actor[w]] # None /\ call[actor[w]].w = w
             /\ call[actor[w]].at \in {"writing", "sent"}
             /\ call[actor[w]].cmd \in Sending

Waits(w, c) == /\ call[c] # None /\ call[c].w = w /\ call[c].at = "sent"
               /\ actor[w] # c

Types ==
    /\ lc \in {"Uninitialized", "Initializing", "Ready", "ShuttingDown", "Failed"}
    /\ recovered \in 0..MaxRecovery /\ key \in {"NoKey", "Locked", "Unlocked"}
    /\ guard \in Workers \cup {None} /\ session \in Workers \cup {None}
    /\ call \in [Calls -> {None} \cup Call]
    /\ starts \in 0..MaxStarts /\ crashes \in 0..MaxCrashes
    /\ proc \in [Workers -> {"none", "alive", "dead"}] /\ flag \in [Workers -> BOOLEAN]
    /\ queue \in [Workers -> Seq(Calls)] /\ actor \in [Workers -> Calls \cup {None}]
    /\ asked \in [Workers -> Seq([op : Sending, n : 1..MaxStarts])]
    /\ answers \in [Workers -> Seq([n : 1..MaxStarts, ans : Answers])]
    /\ open \in [Workers -> BOOLEAN] /\ gmk \in [Workers -> BOOLEAN] /\ stored \in BOOLEAN
    /\ slow \subseteq Workers /\ verified \in Workers \cup {None}
    /\ crossed \in BOOLEAN /\ locked \in BOOLEAN /\ unlockedAt \in 0..MaxStarts

InLine ==
    \A w \in Workers :
        /\ actor[w] # None => Serves(w)
        /\ \A i, j \in DOMAIN queue[w] : queue[w][i] = queue[w][j] => i = j
        /\ \A c \in Calls : Waits(w, c) <=> \E i \in DOMAIN queue[w] : queue[w][i] = c

(* The types of the variables; an actor serves one call of its own worker, and *)
(* the calls that wait for it are in its queue once.                           *)
TypeOK == Types /\ InLine

(* Unlocked means what key_lifecycle.rs says it means: the worker has the key  *)
(* in memory - as long as that worker lives, answered in time, and the front   *)
(* end sent one key command at a time.                                         *)
KeyStateTrue ==
    /\ key = "Unlocked" /\ ~crossed /\ ~Running(KeyCommands)
    /\ verified \notin slow /\ proc[verified] = "alive"
    => gmk[verified]

(* After verthys_lock nothing that was under way brings the key or the guard   *)
(* back: the state stays locked until the next unlock.                         *)
LockedStaysLocked == locked => key # "Unlocked" /\ guard = None

(* Initializing and ShuttingDown are never left behind by a command that ended *)
(* on one of its error paths: worker_init would refuse for ever.               *)
LifecycleNotStuck ==
    /\ lc = "Initializing" => Running({"init"})
    /\ lc = "ShuttingDown" => Running({"destroy"})

(* The line the actor is about to hand to a caller answers that caller's       *)
(* request, as handle_send's comment has it (worker/actor.rs).                 *)
AnswerIsOwn ==
    \A w \in Workers :
        Reading(w) /\ answers[w] # <<>> => Head(answers[w]).n = call[actor[w]].n

(* Every command returns, though the worker hangs or dies: each wait has a     *)
(* deadline.                                                                   *)
CallsReturn == \A c \in Calls : call[c] # None ~> call[c] = None

(* A worker nobody has a session of any more is stopped, hung or not. *)
DroppedWorkersDie == \A w \in Workers : proc[w] = "alive" /\ ~Held(w) ~> proc[w] = "dead"

===============================================================================
