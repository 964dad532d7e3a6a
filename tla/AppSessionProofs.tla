--------------------------- MODULE AppSessionProofs ---------------------------
(* Proofs about AppSession: the types, the life cycle that is never stuck, the *)
(* lock that stays, and the key that the worker has when it counts as unlocked.*)
(* They hold for any number of commands, workers and crashes.                  *)
EXTENDS AppSession, SequenceTheorems, TLAPS

(* Where a command of each kind may be.                                        *)
PlacesOf(cmd) ==
    CASE cmd = "init" -> {"transition", "spawn", "ready", "finish"}
      [] cmd = "destroy" -> {"shutting_down", "wait_io", "drop", "reset", "end"}
      [] cmd = "lock" -> {"wait_io", "drop", "reset", "end"}
      [] cmd = "unlock" -> {"sent", "writing", "answered", "guard"}
      [] OTHER -> {"sent", "writing", "answered"}

(* A command that waits for an answer has a worker, and so has one that got a  *)
(* good answer.                                                                *)
Shape(c) ==
    call[c] # None =>
        /\ call[c].at \in PlacesOf(call[c].cmd)
        /\ call[c].n <= starts
        /\ call[c].at \in {"sent", "writing"} => call[c].w \in Workers
        /\ call[c].at = "answered" /\ Ok(c) => call[c].w \in Workers

(* A life cycle in transition has the command that will end it.                *)
LifeInv ==
    /\ \A c, d \in Calls : call[c] # None /\ call[d] # None /\ call[c].cmd = "init"
                              /\ call[d].cmd = "init" => c = d
    /\ lc = "Initializing" => \E c \in Calls : call[c] # None /\ call[c].cmd = "init"
                                                  /\ call[c].at # "transition"
    /\ lc = "ShuttingDown" => \E c \in Calls : call[c] # None /\ call[c].cmd = "destroy"
                                                  /\ call[c].at # "shutting_down"

(* A lock that is about to end has reset the key, and whatever set it again is *)
(* an unlock that is still there or returned after the lock was issued.        *)
LockInv ==
    /\ locked => key = "NoKey" /\ guard = None /\ ~Running({"unlock"})
    /\ \A c \in Calls : At(c, {"lock"}, "end") /\ unlockedAt < call[c].n /\ ~Running({"unlock"})
                           => key = "NoKey"

(* A worker that always answered in time has at most one request or answer on  *)
(* the way, that of the call its actor waits for.                              *)
InTurn(w) ==
    w \notin slow =>
        \/ asked[w] = <<>> /\ answers[w] = <<>>
        \/ Reading(w) /\ asked[w] = <<>> /\ Len(answers[w]) = 1
        \/ Reading(w) /\ Len(asked[w]) = 1 /\ asked[w][1].op = call[actor[w]].cmd /\ answers[w] = <<>>

(* A dead worker handles nothing any more.                                     *)
Quiet == \A w \in Workers : proc[w] = "dead" => asked[w] = <<>>

(* The worker has said yes to command c.                                       *)
Said(c) ==
    \/ call[c].at = "answered" /\ Ok(c)
    \/ \E w \in Workers : /\ actor[w] = c /\ Reading(w) /\ answers[w] # <<>>
                          /\ Head(answers[w]).ans \in {"ok", "ok_has_key"}

Sound(w) == w \notin slow /\ proc[w] # "dead"

KeyInv ==
    /\ key = "Unlocked" => verified \in Workers
    /\ ~crossed =>
        /\ \A c, d \in Calls : call[c] # None /\ call[d] # None /\ call[c].cmd \in KeyCommands
                                  /\ call[d].cmd \in KeyCommands => c = d
        /\ \A c \in Calls : call[c] # None /\ call[c].cmd = "derive_store" => key # "Unlocked"
        /\ \A c \in Calls : call[c] # None /\ call[c].cmd = "verify" /\ Said(c)
                               /\ Sound(call[c].w) => gmk[call[c].w]
        /\ key = "Unlocked" /\ Sound(verified) =>
              \/ gmk[verified]
              \/ \E c \in Calls : /\ call[c] # None /\ call[c].cmd \in {"clear", "reset"}
                                  /\ call[c].w = verified /\ Said(c)

IInv ==
    /\ TypeOK
    /\ \A c \in Calls : Shape(c)
    /\ LifeInv
    /\ LockInv
    /\ \A w \in Workers : InTurn(w)
    /\ Quiet
    /\ KeyInv

-------------------------------------------------------------------------------
(* Where a call does not stand in line.                                        *)
Idle(x) == x = None \/ x.at \notin {"sent", "writing"}

LEMMA CallMoves ==
  ASSUME TypeOK, NEW c \in Calls, NEW x \in {None} \cup Call,
         call' = [call EXCEPT ![c] = x], Idle(call[c]), Idle(x), UNCHANGED <<queue, actor>>
  PROVE  InLine'
<1> SUFFICES ASSUME NEW w \in Workers
             PROVE  /\ actor[w] # None => Serves(w)'
                    /\ \A d \in Calls : Waits(w, d)' <=> Waits(w, d)
  BY DEF InLine, TypeOK
<1>1. ASSUME actor[w] # None PROVE Serves(w)'
  <2>1. Serves(w) /\ actor[w] \in Calls
    BY <1>1 DEF TypeOK, Types, InLine
  <2>2. actor[w] # c
    BY <2>1 DEF Serves, Idle
  <2>3. call'[actor[w]] = call[actor[w]]
    BY <2>1, <2>2 DEF TypeOK, Types
  <2>4. QED
    BY <2>1, <2>3 DEF Serves
<1>2. ASSUME NEW d \in Calls PROVE Waits(w, d)' <=> Waits(w, d)
  BY DEF TypeOK, Types, Waits, Idle
<1>3. QED
  BY <1>1, <1>2

LEMMA TurnMoves ==
  ASSUME TypeOK, \A w \in Workers : InTurn(w), NEW c \in Calls, NEW x \in {None} \cup Call,
         call' = [call EXCEPT ![c] = x], Idle(call[c]), Idle(x),
         UNCHANGED <<actor, answers, slow>>,
         \A w \in Workers : asked'[w] = asked[w] \/ asked'[w] = <<>>
  PROVE  \A w \in Workers : InTurn(w)'
<1> SUFFICES ASSUME NEW w \in Workers, w \notin slow PROVE InTurn(w)'
  BY DEF InTurn
<1>1. actor[w] # None => actor[w] \in Calls /\ actor[w] # c /\ call'[actor[w]] = call[actor[w]]
  BY NoneAssumption DEF TypeOK, Types, InLine, Serves, Idle
<1>2. (Reading(w) <=> Reading(w)') /\ (Reading(w) => call'[actor[w]].cmd = call[actor[w]].cmd)
  BY <1>1 DEF Reading
<1>3. CASE asked'[w] = asked[w]
  BY <1>2, <1>3 DEF InTurn
<1>4. CASE asked'[w] = <<>>
  <2>1. answers[w] = <<>> \/ (Len(answers[w]) = 1 /\ Reading(w))
    BY DEF InTurn
  <2>2. QED
    BY <1>2, <1>4, <2>1 DEF InTurn
<1>5. QED
  BY <1>3, <1>4

LEMMA SaidHasWorker ==
  ASSUME TypeOK, NEW c \in Calls, Shape(c), call[c] # None, Said(c)
  PROVE  call[c].w \in Workers
<1>1. CASE call[c].at = "answered" /\ Ok(c)
  BY <1>1 DEF Shape
<1>2. ASSUME NEW w \in Workers, actor[w] = c PROVE call[c].w \in Workers
  BY <1>2, NoneAssumption DEF TypeOK, InLine, Serves
<1>3. QED
  BY <1>1, <1>2 DEF Said

LEMMA KeyMoves ==
  ASSUME TypeOK, \A d \in Calls : Shape(d), KeyInv, NEW c \in Calls, NEW x \in {None} \cup Call,
         call' = [call EXCEPT ![c] = x], Idle(call[c]), Idle(x),
         call[c] # None, x = None \/ x.cmd = call[c].cmd,
         call[c].cmd \notin KeyCommands,
         key' \in {key, "NoKey", "Locked"}, UNCHANGED <<actor, answers, verified, crossed>>,
         \A w \in Workers : Sound(w)' => Sound(w) /\ gmk'[w] = gmk[w]
  PROVE  KeyInv'
<1>1. \A d \in Calls : call'[d] # None /\ call'[d].cmd \in KeyCommands =>
         d # c /\ call[d] # None /\ call'[d] = call[d]
  BY DEF TypeOK, Types
<1>2. \A w \in Workers : actor[w] # None => actor[w] # c /\ call'[actor[w]] = call[actor[w]]
  BY NoneAssumption DEF TypeOK, Types, InLine, Serves, Idle
<1>3. \A d \in Calls : d # c => (Said(d)' <=> Said(d))
  <2> SUFFICES ASSUME NEW d \in Calls, d # c PROVE Said(d)' <=> Said(d)
    OBVIOUS
  <2>1. call'[d] = call[d]
    BY DEF TypeOK, Types
  <2>2. \A w \in Workers : Reading(w)' <=> Reading(w)
    BY <1>2 DEF Reading
  <2>3. QED
    BY <2>1, <2>2 DEF Said, Ok
<1>4. key' = "Unlocked" => key = "Unlocked"
  OBVIOUS
<1>5. CASE crossed
  BY <1>4, <1>5 DEF KeyInv
<1>6. CASE ~crossed
  <2>1. \A d, e \in Calls : call'[d] # None /\ call'[e] # None /\ call'[d].cmd \in KeyCommands
                                /\ call'[e].cmd \in KeyCommands => d = e
    BY <1>1, <1>6 DEF KeyInv
  <2>2. \A d \in Calls : call'[d] # None /\ call'[d].cmd = "derive_store" => key' # "Unlocked"
    BY <1>1, <1>4, <1>6 DEF KeyInv, KeyCommands
  <2>3. ASSUME NEW d \in Calls, call'[d] # None, call'[d].cmd = "verify", Said(d)', Sound(call[d].w)'
        PROVE  gmk'[call'[d].w]
    <3>1. d # c /\ call'[d] = call[d] /\ Said(d)
      BY <1>1, <1>3, <2>3 DEF KeyCommands
    <3>2. call[d].w \in Workers
      BY <1>1, <2>3, <3>1, SaidHasWorker
    <3>3. Sound(call[d].w) /\ gmk'[call[d].w] = gmk[call[d].w]
      BY <2>3, <3>1, <3>2
    <3>4. gmk[call[d].w]
      BY <1>6, <2>3, <3>1, <3>3 DEF KeyInv
    <3>5. QED
      BY <3>1, <3>3, <3>4
  <2>4. ASSUME key' = "Unlocked", Sound(verified)'
        PROVE  \/ gmk'[verified]
               \/ \E d \in Calls : /\ call'[d] # None /\ call'[d].cmd \in {"clear", "reset"}
                                   /\ call'[d].w = verified /\ Said(d)'
    <3>1. verified \in Workers /\ Sound(verified) /\ gmk'[verified] = gmk[verified]
      BY <1>4, <2>4 DEF KeyInv
    <3>2. CASE gmk[verified]
      BY <3>1, <3>2
    <3>3. CASE \E d \in Calls : /\ call[d] # None /\ call[d].cmd \in {"clear", "reset"}
                                /\ call[d].w = verified /\ Said(d)
      <4>1. PICK d \in Calls : /\ call[d] # None /\ call[d].cmd \in {"clear", "reset"}
                              /\ call[d].w = verified /\ Said(d)
        BY <3>3
      <4>2. d # c /\ call'[d] = call[d]
        BY <4>1 DEF KeyCommands, TypeOK, Types
      <4>3. QED
        BY <1>3, <4>1, <4>2
    <3>4. QED
      BY <1>4, <1>6, <2>4, <3>1, <3>2, <3>3 DEF KeyInv
  <2>5. key' = "Unlocked" => verified' \in Workers
    BY <1>4 DEF KeyInv
  <2>6. verified' = verified /\ ~crossed'
    BY <1>6
  <2>7. QED
    BY <2>1, <2>2, <2>3, <2>4, <2>5, <2>6 DEF KeyInv
<1>7. QED
  BY <1>5, <1>6 DEF TypeOK, Types

-------------------------------------------------------------------------------
(* The steps of a command.  None of them touches a line: the command has its   *)
(* answer already or never asks for one.                                       *)
Moved(c, x) ==
    /\ call' = [call EXCEPT ![c] = x] /\ Idle(call[c]) /\ Idle(x)
    /\ x # None => x.cmd = call[c].cmd /\ x.n = call[c].n
    /\ UNCHANGED <<starts, queue, actor, answers, slow>>
    /\ \A w \in Workers : asked'[w] = asked[w] \/ asked'[w] = <<>>

LEMMA CallIsCall ==
  ASSUME TypeOK, NEW c \in Calls, call[c] # None
  PROVE  /\ call[c] \in Call
         /\ call[c] = [cmd |-> call[c].cmd, n |-> call[c].n, w |-> call[c].w,
                       ans |-> call[c].ans, at |-> call[c].at]
  BY DEF TypeOK, Types, Call

LEMMA CallStepMoves ==
  ASSUME IInv, NEW c \in Calls, CallStep(c)
  PROVE  call[c] # None /\ \E x \in {None} \cup Call : Moved(c, x)
<1> USE DEF worker, history, app, bounds, pipe
<1>1. call[c] # None
  BY DEF CallStep, UnlockAnswered, UnlockGuard, VerifyAnswered, ClearAnswered, ResetAnswered,
         OtherAnswered, WaitIo, WaitIoDeadline, DropSession, ResetKey, LockEnd, DestroyBegin,
         DestroyEnd, InitTransition, InitSpawn, InitReady, InitFinish, Answered, At
<1>2. call[c] \in Call
  BY <1>1, CallIsCall DEF IInv
<1>3. ASSUME Idle(call[c]), Done(c), UNCHANGED <<starts, queue, actor, answers, slow>>,
             \A w \in Workers : asked'[w] = asked[w] \/ asked'[w] = <<>>
      PROVE  Moved(c, None)
  BY <1>3 DEF Moved, Done, Idle
<1>4. ASSUME NEW p \in Places \ {"sent", "writing"}, Idle(call[c]), Goto(c, p),
             UNCHANGED <<starts, queue, actor, answers, slow>>,
             \A w \in Workers : asked'[w] = asked[w] \/ asked'[w] = <<>>
      PROVE  \E x \in Call : Moved(c, x)
  <2> DEFINE x == [call[c] EXCEPT !.at = p]
  <2>1. x \in Call /\ x # None /\ Idle(x) /\ x.cmd = call[c].cmd /\ x.n = call[c].n
    BY <1>2, NoneAssumption DEF Call, Idle
  <2>2. call' = [call EXCEPT ![c] = x]
    BY <1>4 DEF Goto
  <2>3. QED
    BY <1>4, <2>1, <2>2 DEF Moved
<1>5. CASE UnlockAnswered(c)
  BY <1>3, <1>4, <1>5 DEF UnlockAnswered, Answered, Idle, Places
<1>6. CASE UnlockGuard(c)
  BY <1>3, <1>6 DEF UnlockGuard, Idle, Places
<1>7. CASE VerifyAnswered(c)
  BY <1>3, <1>7 DEF VerifyAnswered, Answered, Idle, Places
<1>8. CASE ClearAnswered(c)
  BY <1>3, <1>8 DEF ClearAnswered, Answered, Idle, Places
<1>9. CASE ResetAnswered(c)
  BY <1>3, <1>9 DEF ResetAnswered, Answered, Idle, Places
<1>10. CASE OtherAnswered(c)
  BY <1>3, <1>10 DEF OtherAnswered, Answered, Idle, Places
<1>11. CASE WaitIo(c)
  BY <1>4, <1>11 DEF WaitIo, At, Idle, Places
<1>12. CASE WaitIoDeadline(c)
  BY <1>4, <1>12 DEF WaitIoDeadline, At, Idle, Places
<1>13. CASE DropSession(c)
  BY <1>4, <1>13 DEF DropSession, At, Idle, Places
<1>14. CASE ResetKey(c)
  BY <1>4, <1>14 DEF ResetKey, At, Idle, Places
<1>15. CASE LockEnd(c)
  BY <1>3, <1>15 DEF LockEnd, At, Idle, Places
<1>16. CASE DestroyBegin(c)
  BY <1>3, <1>4, <1>16 DEF DestroyBegin, At, Idle, Places
<1>17. CASE DestroyEnd(c)
  BY <1>3, <1>17 DEF DestroyEnd, At, Idle, Places
<1>18. CASE InitTransition(c)
  BY <1>3, <1>4, <1>18 DEF InitTransition, At, Idle, Places, Die, IInv, TypeOK, Types
<1>19. CASE InitSpawn(c)
  <2>1. CASE Done(c)
    BY <1>3, <1>19, <2>1 DEF InitSpawn, At, Idle
  <2>2. ASSUME NEW w \in Workers, call' = [call EXCEPT ![c].w = w, ![c].at = "ready"]
        PROVE  \E x \in Call : Moved(c, x)
    <3> DEFINE x == [call[c] EXCEPT !.w = w, !.at = "ready"]
    <3>1. x \in Call /\ x # None /\ Idle(x) /\ x.cmd = call[c].cmd /\ x.n = call[c].n
      BY <1>2, NoneAssumption DEF Call, Idle, Places
    <3>2. call' = [call EXCEPT ![c] = x]
      BY <2>2
    <3>3. QED
      BY <1>19, <3>1, <3>2 DEF Moved, InitSpawn, At, Idle
  <2>3. QED
    BY <1>1, <1>19, <2>1, <2>2 DEF InitSpawn
<1>20. CASE InitReady(c)
  BY <1>3, <1>4, <1>20 DEF InitReady, At, Idle, Places
<1>21. CASE InitFinish(c)
  BY <1>3, <1>21 DEF InitFinish, At, Idle, Places
<1>22. QED
  BY <1>1, <1>5, <1>6, <1>7, <1>8, <1>9, <1>10, <1>11, <1>12, <1>13, <1>14, <1>15, <1>16, <1>17, <1>18, <1>19, <1>20, <1>21 DEF CallStep

LEMMA DieTypes ==
  ASSUME Types, NEW ws, Die(ws)
  PROVE  /\ proc' \in [Workers -> {"none", "alive", "dead"}]
         /\ asked' \in [Workers -> Seq([op : Sending, n : 1..MaxStarts])]
         /\ open' \in [Workers -> BOOLEAN] /\ gmk' \in [Workers -> BOOLEAN]
         /\ answers' = answers
<1>1. proc' \in [Workers -> {"none", "alive", "dead"}]
  BY DEF Types, Die
<1>2. asked' \in [Workers -> Seq([op : Sending, n : 1..MaxStarts])]
  <2>1. ASSUME NEW w \in Workers
        PROVE  (IF w \in ws THEN <<>> ELSE asked[w]) \in Seq([op : Sending, n : 1..MaxStarts])
    <3>1. asked[w] \in Seq([op : Sending, n : 1..MaxStarts])
      BY DEF Types
    <3>2. <<>> \in Seq([op : Sending, n : 1..MaxStarts])
      BY EmptySeq
    <3>3. QED
      BY <3>1, <3>2
  <2>2. QED
    BY <2>1, Zenon DEF Die
<1>3. open' \in [Workers -> BOOLEAN] /\ gmk' \in [Workers -> BOOLEAN] /\ answers' = answers
  BY DEF Types, Die
<1>4. QED
  BY <1>1, <1>2, <1>3

(* The state of the application, of the bounds and of the history; and the     *)
(* rest, which a command only changes when it replaces the worker.             *)
AppTypes ==
    /\ lc \in {"Uninitialized", "Initializing", "Ready", "ShuttingDown", "Failed"}
    /\ recovered \in 0..3 /\ key \in {"NoKey", "Locked", "Unlocked"}
    /\ guard \in Workers \cup {None} /\ session \in Workers \cup {None}
    /\ starts \in 0..MaxStarts /\ crashes \in 0..MaxCrashes
    /\ slow \subseteq Workers /\ verified \in Workers \cup {None}
    /\ crossed \in BOOLEAN /\ locked \in BOOLEAN /\ unlockedAt \in 0..MaxStarts

WorkerTypes ==
    /\ proc \in [Workers -> {"none", "alive", "dead"}] /\ flag \in [Workers -> BOOLEAN]
    /\ queue \in [Workers -> Seq(Calls)] /\ actor \in [Workers -> Calls \cup {None}]
    /\ asked \in [Workers -> Seq([op : Sending, n : 1..MaxStarts])]
    /\ answers \in [Workers -> Seq([n : 1..MaxStarts, ans : Answers])]
    /\ open \in [Workers -> BOOLEAN] /\ gmk \in [Workers -> BOOLEAN] /\ stored \in BOOLEAN

LEMMA TypesApart == Types <=> AppTypes /\ WorkerTypes /\ call \in [Calls -> {None} \cup Call]
  BY DEF Types, AppTypes, WorkerTypes, MaxRecovery

LEMMA TypesTogether ==
  ASSUME AppTypes', WorkerTypes', call' \in [Calls -> {None} \cup Call]
  PROVE  Types'
  BY DEF Types, AppTypes, WorkerTypes, MaxRecovery

LEMMA AppTypesStay ==
  ASSUME AppTypes, UNCHANGED <<app, bounds, history>>
  PROVE  AppTypes'
  BY DEF AppTypes, app, bounds, history

LEMMA InLineStays ==
  ASSUME InLine, UNCHANGED <<call, queue, actor>>
  PROVE  InLine'
  BY DEF InLine, Serves, Waits

LEMMA CallStepTypes ==
  ASSUME IInv, NEW c \in Calls, CallStep(c)
  PROVE  Types'
<1>1. Types' <=> AppTypes' /\ WorkerTypes' /\ (call \in [Calls -> {None} \cup Call])'
  BY DEF Types, AppTypes, WorkerTypes, MaxRecovery
<1>2. call[c] \in Call /\ Shape(c) /\ call[c].w \in Workers \cup {None}
  BY CallStepMoves, CallIsCall DEF IInv, Call
<1>3. call' \in [Calls -> {None} \cup Call]
  BY CallStepMoves DEF Moved, IInv, TypeOK, Types
<1>4. AppTypes /\ WorkerTypes
  BY TypesApart DEF IInv, TypeOK
<1>5. AppTypes'
  <2> USE <1>4 DEF app, bounds, history, AppTypes
  <2>1. CASE UnlockAnswered(c)
    BY <2>1 DEF UnlockAnswered
  <2>2. CASE UnlockGuard(c)
    BY <1>2, <2>2 DEF UnlockGuard
  <2>3. CASE VerifyAnswered(c)
    BY <1>2, <2>3 DEF VerifyAnswered, Answered, Ok, Shape
  <2>4. CASE ClearAnswered(c)
    BY <2>4 DEF ClearAnswered
  <2>5. CASE ResetAnswered(c)
    BY <2>5 DEF ResetAnswered
  <2>6. CASE OtherAnswered(c)
    BY <2>6 DEF OtherAnswered
  <2>7. CASE WaitIo(c)
    BY <2>7 DEF WaitIo
  <2>8. CASE WaitIoDeadline(c)
    BY <2>8 DEF WaitIoDeadline
  <2>9. CASE DropSession(c)
    BY <2>9 DEF DropSession
  <2>10. CASE ResetKey(c)
    BY <2>10 DEF ResetKey
  <2>11. CASE LockEnd(c)
    BY <2>11 DEF LockEnd
  <2>12. CASE DestroyBegin(c)
    BY <2>12 DEF DestroyBegin
  <2>13. CASE DestroyEnd(c)
    BY <2>13 DEF DestroyEnd
  <2>14. CASE InitTransition(c)
    BY <2>14 DEF InitTransition, MaxRecovery
  <2>15. CASE InitSpawn(c)
    BY <2>15 DEF InitSpawn
  <2>16. CASE InitReady(c)
    BY <1>2, <2>16 DEF InitReady, At
  <2>17. CASE InitFinish(c)
    BY <2>17 DEF InitFinish
  <2>18. QED
    BY <2>1, <2>2, <2>3, <2>4, <2>5, <2>6, <2>7, <2>8, <2>9, <2>10, <2>11, <2>12, <2>13, <2>14, <2>15, <2>16, <2>17 DEF CallStep
<1>6. WorkerTypes'
  <2>1. CASE UNCHANGED worker
    BY <1>4, <2>1 DEF worker, pipe, WorkerTypes
  <2>2. CASE InitTransition(c)
    <3>1. PICK ws : Die(ws)
      BY <2>2 DEF InitTransition
    <3>2. UNCHANGED <<flag, queue, actor, stored>>
      BY <2>2 DEF InitTransition
    <3>3. QED
      BY <1>4, <3>1, <3>2, DieTypes DEF WorkerTypes, IInv, TypeOK
  <2>3. CASE InitSpawn(c)
    BY <1>4, <2>3 DEF InitSpawn, pipe, WorkerTypes
  <2>4. CallStep(c) => UNCHANGED worker \/ InitTransition(c) \/ InitSpawn(c)
    BY DEF CallStep, UnlockAnswered, UnlockGuard, VerifyAnswered, ClearAnswered, ResetAnswered,
         OtherAnswered, WaitIo, WaitIoDeadline, DropSession, ResetKey, LockEnd, DestroyBegin,
         DestroyEnd, InitReady, InitFinish
  <2>5. QED
    BY <2>1, <2>2, <2>3, <2>4
<1>7. QED
  BY <1>1, <1>3, <1>5, <1>6

LEMMA CallStepInLine ==
  ASSUME IInv, NEW c \in Calls, CallStep(c)
  PROVE  InLine' /\ \A w \in Workers : InTurn(w)'
<1>1. PICK x \in {None} \cup Call : Moved(c, x)
  BY CallStepMoves
<1>2. QED
  BY <1>1, CallMoves, TurnMoves DEF Moved, IInv

LEMMA CallStepShape ==
  ASSUME IInv, NEW c \in Calls, CallStep(c)
  PROVE  \A d \in Calls : Shape(d)'
<1>1. PICK x \in {None} \cup Call : Moved(c, x)
  BY CallStepMoves
<1>2. ASSUME NEW d \in Calls, d # c PROVE Shape(d)'
  BY <1>1, <1>2 DEF Moved, Shape, IInv, TypeOK, Types, Ok
<1>3. call[c] \in Call /\ Shape(c) /\ call'[c] = x
  BY <1>1, CallStepMoves, CallIsCall DEF Moved, IInv, TypeOK, Types
<1>4. SUFFICES ASSUME x # None
               PROVE  x.at \in PlacesOf(x.cmd) /\ x.at # "answered"
  <2>1. SUFFICES Shape(c)'
    BY <1>2
  <2>2. x # None => x.n <= starts' /\ x.at \notin {"sent", "writing"}
    BY <1>1, <1>3, NoneAssumption DEF Moved, Shape, Idle
  <2>3. QED
    BY <1>3, <2>2 DEF Shape
<1>5. x.cmd = call[c].cmd /\ ~Done(c)
  BY <1>1, <1>3, <1>4 DEF Moved, Done, IInv, TypeOK, Types
<1>6. ASSUME NEW p, Goto(c, p) PROVE x.at = p
  <2>1. call'[c] = [call[c] EXCEPT !.at = p]
    BY <1>6 DEF Goto, IInv, TypeOK, Types
  <2>2. QED
    BY <1>3, <2>1 DEF Call
<1>7. CASE UnlockAnswered(c)
  BY <1>5, <1>6, <1>7 DEF UnlockAnswered, Answered, PlacesOf
<1>8. CASE UnlockGuard(c)
  BY <1>5, <1>8 DEF UnlockGuard
<1>9. CASE VerifyAnswered(c)
  BY <1>5, <1>6, <1>9 DEF VerifyAnswered, Answered, PlacesOf
<1>10. CASE ClearAnswered(c)
  BY <1>5, <1>6, <1>10 DEF ClearAnswered, Answered, PlacesOf
<1>11. CASE ResetAnswered(c)
  BY <1>5, <1>6, <1>11 DEF ResetAnswered, Answered, PlacesOf
<1>12. CASE OtherAnswered(c)
  BY <1>5, <1>6, <1>12 DEF OtherAnswered, Answered, PlacesOf
<1>13. CASE WaitIo(c)
  BY <1>5, <1>6, <1>13 DEF WaitIo, At, PlacesOf
<1>14. CASE WaitIoDeadline(c)
  BY <1>5, <1>6, <1>14 DEF WaitIoDeadline, At, PlacesOf
<1>15. CASE DropSession(c)
  BY <1>5, <1>6, <1>15 DEF DropSession, At, PlacesOf
<1>16. CASE ResetKey(c)
  BY <1>5, <1>6, <1>16 DEF ResetKey, At, PlacesOf
<1>17. CASE LockEnd(c)
  BY <1>5, <1>6, <1>17 DEF LockEnd, At, PlacesOf
<1>18. CASE DestroyBegin(c)
  BY <1>5, <1>6, <1>18 DEF DestroyBegin, At, PlacesOf
<1>19. CASE DestroyEnd(c)
  BY <1>5, <1>6, <1>19 DEF DestroyEnd, At, PlacesOf
<1>20. CASE InitTransition(c)
  BY <1>5, <1>6, <1>20 DEF InitTransition, At, PlacesOf
<1>21. CASE InitSpawn(c)
  <2>1. PICK w \in Workers : call' = [call EXCEPT ![c].w = w, ![c].at = "ready"]
    BY <1>5, <1>21 DEF InitSpawn
  <2>2. call'[c] = [call[c] EXCEPT !.w = w, !.at = "ready"]
    BY <2>1 DEF IInv, TypeOK, Types
  <2>3. x.at = "ready"
    BY <1>3, <2>2 DEF Call
  <2>4. QED
    BY <1>5, <1>21, <2>3 DEF InitSpawn, At, PlacesOf
<1>22. CASE InitReady(c)
  BY <1>5, <1>6, <1>22 DEF InitReady, At, PlacesOf
<1>23. CASE InitFinish(c)
  BY <1>5, <1>6, <1>23 DEF InitFinish, At, PlacesOf
<1>24. QED
  BY <1>7, <1>8, <1>9, <1>10, <1>11, <1>12, <1>13, <1>14, <1>15, <1>16, <1>17, <1>18, <1>19, <1>20, <1>21, <1>22, <1>23 DEF CallStep

LEMMA GotoIs ==
  ASSUME TypeOK, NEW c \in Calls, call[c] # None, NEW p \in Places, Goto(c, p)
  PROVE  /\ call'[c] # None /\ call'[c].at = p /\ call'[c].cmd = call[c].cmd
         /\ call'[c].n = call[c].n /\ call'[c].w = call[c].w /\ call'[c].ans = call[c].ans
         /\ \A d \in Calls \ {c} : call'[d] = call[d]
<1>1. call'[c] = [call[c] EXCEPT !.at = p] /\ \A d \in Calls \ {c} : call'[d] = call[d]
  BY DEF Goto, TypeOK, Types
<1>2. call[c] \in Call
  BY CallIsCall
<1>3. call'[c] \in Call
  BY <1>1, <1>2 DEF Call
<1>4. QED
  BY <1>1, <1>2, <1>3, NoneAssumption DEF Call

LEMMA DoneIs ==
  ASSUME TypeOK, NEW c \in Calls, Done(c)
  PROVE  call'[c] = None /\ \A d \in Calls \ {c} : call'[d] = call[d]
BY DEF Done, TypeOK, Types

LEMMA CallStepKeeps ==
  ASSUME IInv, NEW c \in Calls, CallStep(c)
  PROVE  /\ call[c] # None
         /\ \A d \in Calls : call'[d] # None =>
               call[d] # None /\ call'[d].cmd = call[d].cmd /\ call'[d].n = call[d].n
         /\ \A d \in Calls \ {c} : call'[d] = call[d]
         /\ starts' = starts
BY CallStepMoves DEF Moved, IInv, TypeOK, Types

LEMMA CallStepLife ==
  ASSUME IInv, NEW c \in Calls, CallStep(c)
  PROVE  LifeInv'
<1> DEFINE Ends == \E d \in Calls : call[d] # None /\ call[d].cmd = "init" /\ call[d].at # "transition"
           Shuts == \E d \in Calls : call[d] # None /\ call[d].cmd = "destroy"
                                        /\ call[d].at # "shutting_down"
           Kept == call'[c] # None /\ call'[c].cmd = call[c].cmd
<1>1. /\ \A d \in Calls : call'[d] # None => call[d] # None /\ call'[d].cmd = call[d].cmd
      /\ \A d \in Calls \ {c} : call'[d] = call[d]
      /\ call[c] # None /\ TypeOK /\ Shape(c)
  BY CallStepKeeps DEF IInv
<1>2. \A d, e \in Calls : call'[d] # None /\ call'[e] # None /\ call'[d].cmd = "init"
                             /\ call'[e].cmd = "init" => d = e
  BY <1>1 DEF IInv, LifeInv
<1>3. (lc = "Initializing" => Ends) /\ (lc = "ShuttingDown" => Shuts)
  BY DEF IInv, LifeInv
<1>4. SUFFICES (lc' = "Initializing" => Ends') /\ (lc' = "ShuttingDown" => Shuts')
  BY <1>2 DEF LifeInv
<1>5. CASE call[c].cmd \notin {"init", "destroy"}
  <2>1. lc' = lc
    BY <1>1, <1>5 DEF CallStep, UnlockAnswered, UnlockGuard, VerifyAnswered, ClearAnswered,
         ResetAnswered, OtherAnswered, WaitIo, WaitIoDeadline, DropSession, ResetKey, LockEnd,
         DestroyBegin, DestroyEnd, InitTransition, InitSpawn, InitReady, InitFinish, At, app
  <2>2. QED
    BY <1>1, <1>3, <1>5, <2>1
<1>6. CASE call[c].cmd = "destroy"
  <2>1. Ends => Ends'
    BY <1>1, <1>6
  <2>2. CASE DestroyEnd(c)
    BY <1>3, <2>1, <2>2 DEF DestroyEnd
  <2>3. CASE DestroyBegin(c)
    <3>1. Goto(c, "reset") \/ Goto(c, "wait_io")
      BY <2>3 DEF DestroyBegin
    <3>2. Shuts'
      BY <1>1, <1>6, <3>1, GotoIs DEF Places
    <3>3. QED
      BY <1>3, <2>1, <2>3, <3>2 DEF DestroyBegin
  <2>4. CASE WaitIo(c) \/ WaitIoDeadline(c) \/ DropSession(c) \/ ResetKey(c)
    <3>1. lc' = lc /\ (Goto(c, "drop") \/ Goto(c, "reset") \/ Goto(c, "end"))
      BY <2>4 DEF WaitIo, WaitIoDeadline, DropSession, ResetKey, app
    <3>2. Shuts'
      BY <1>1, <1>6, <3>1, GotoIs DEF Places
    <3>3. QED
      BY <1>3, <2>1, <3>1, <3>2
  <2>5. QED
    BY <1>1, <1>6, <2>2, <2>3, <2>4 DEF CallStep, UnlockAnswered, UnlockGuard, VerifyAnswered,
         ClearAnswered, ResetAnswered, OtherAnswered, LockEnd, InitTransition, InitSpawn, InitReady,
         InitFinish, At, Answered, Shape, PlacesOf
<1>7. CASE call[c].cmd = "init"
  <2>1. Shuts => Shuts'
    BY <1>1, <1>7
  <2>2. CASE InitTransition(c)
    <3>1. CASE lc' = "Failed"
      BY <3>1
    <3>2. CASE lc' = "Initializing" /\ Goto(c, "spawn")
      BY <1>1, <1>7, <3>2, GotoIs DEF Places
    <3>3. QED
      BY <2>2, <3>1, <3>2 DEF InitTransition
  <2>3. CASE InitSpawn(c)
    <3>1. CASE lc' = "Failed"
      BY <3>1
    <3>2. ASSUME lc' = lc, NEW w \in Workers, call' = [call EXCEPT ![c].w = w, ![c].at = "ready"]
          PROVE  Ends'
      <4>1. call[c] \in Call
        BY <1>1, CallIsCall
      <4>2. call'[c] = [call[c] EXCEPT !.w = w, !.at = "ready"]
        BY <1>1, <3>2 DEF TypeOK, Types
      <4>3. call'[c] \in Call /\ call'[c].at = "ready" /\ call'[c].cmd = "init"
        BY <1>7, <4>1, <4>2 DEF Call, Places
      <4>4. QED
        BY <4>3, NoneAssumption
    <3>3. QED
      BY <1>3, <2>1, <2>3, <3>1, <3>2 DEF InitSpawn
  <2>4. CASE InitReady(c)
    <3>1. CASE lc' = "Failed"
      BY <3>1
    <3>2. CASE lc' = lc /\ Goto(c, "finish")
      BY <1>1, <1>3, <1>7, <2>1, <3>2, GotoIs DEF Places
    <3>3. QED
      BY <2>4, <3>1, <3>2 DEF InitReady
  <2>5. CASE InitFinish(c)
    BY <1>3, <2>1, <2>5 DEF InitFinish
  <2>6. QED
    BY <1>1, <1>7, <2>2, <2>3, <2>4, <2>5 DEF CallStep, UnlockAnswered, UnlockGuard,
         VerifyAnswered, ClearAnswered, ResetAnswered, OtherAnswered, LockEnd, WaitIo, WaitIoDeadline,
         DropSession, ResetKey, DestroyBegin, DestroyEnd, At, Answered, Shape, PlacesOf
<1>8. QED
  BY <1>5, <1>6, <1>7

LEMMA CallStepLock ==
  ASSUME IInv, NEW c \in Calls, CallStep(c)
  PROVE  LockInv'
<1> DEFINE Unlocking == Running({"unlock"})
<1>1. /\ \A d \in Calls : call'[d] # None => call[d] # None /\ call'[d].cmd = call[d].cmd
                                                /\ call'[d].n = call[d].n
      /\ \A d \in Calls \ {c} : call'[d] = call[d]
      /\ call[c] # None /\ TypeOK /\ Shape(c) /\ starts' = starts
  BY CallStepKeeps DEF IInv
<1>2. (Unlocking' => Unlocking) /\ (call[c].cmd # "unlock" => (Unlocking <=> Unlocking'))
  BY <1>1 DEF Running
<1>3. LockInv /\ \A d \in Calls : call[d] # None => call[d].n \in Nat /\ call[d].n <= starts
  <2>1. ASSUME NEW d \in Calls, call[d] # None PROVE call[d].n \in Nat /\ call[d].n <= starts
    <3>1. call[d] \in Call /\ call[d].n <= starts
      BY <2>1, CallIsCall DEF IInv, Shape
    <3>2. QED
      BY <3>1, AppAssumption DEF Call
  <2>2. QED
    BY <2>1 DEF IInv
<1>4. starts \in Nat /\ unlockedAt \in Nat
  BY DEF IInv, TypeOK, Types
(* An unlock that ends was there, or dates itself after every lock.            *)
<1>5. CASE UnlockAnswered(c) \/ UnlockGuard(c)
  <2>1. call[c].cmd = "unlock" /\ Unlocking /\ ~locked'
    BY <1>1, <1>3, <1>5 DEF UnlockAnswered, UnlockGuard, Answered, Shape, PlacesOf, Running, LockInv
  <2>2. CASE Goto(c, "guard")
    <3>1. Unlocking'
      BY <1>1, <2>1, <2>2, GotoIs DEF Running, Places
    <3>2. QED
      BY <2>1, <3>1 DEF LockInv
  <2>3. CASE unlockedAt' = starts
    BY <1>1, <1>3, <1>4, <2>1, <2>3 DEF LockInv, At
  <2>4. QED
    BY <1>5, <2>2, <2>3 DEF UnlockAnswered, UnlockGuard
<1>6. ASSUME call[c].cmd # "unlock", key' = key \/ key' = "NoKey" \/ key # "NoKey",
             guard' = guard, locked' = locked, unlockedAt' = unlockedAt,
             At(c, {"lock"}, "end")' => key' = "NoKey"
      PROVE  LockInv'
  BY <1>1, <1>2, <1>3, <1>6 DEF LockInv, At
<1>7. ASSUME NEW p \in Places \ {"end"}, Goto(c, p) PROVE ~At(c, {"lock"}, "end")'
  BY <1>1, <1>7, GotoIs DEF At
<1>8. ASSUME Done(c) PROVE ~At(c, {"lock"}, "end")'
  BY <1>1, <1>8, DoneIs DEF At
<1>9. CASE VerifyAnswered(c)
  BY <1>6, <1>8, <1>9 DEF VerifyAnswered, Answered
<1>10. CASE ClearAnswered(c)
  BY <1>6, <1>8, <1>10 DEF ClearAnswered, Answered, history
<1>11. CASE ResetAnswered(c)
  BY <1>6, <1>8, <1>11 DEF ResetAnswered, Answered, history
<1>12. CASE OtherAnswered(c)
  BY <1>6, <1>8, <1>12 DEF OtherAnswered, Answered, history, app
<1>13. CASE WaitIo(c) \/ WaitIoDeadline(c)
  BY <1>6, <1>7, <1>13 DEF WaitIo, WaitIoDeadline, At, history, app, Places
<1>14. CASE DropSession(c)
  BY <1>6, <1>7, <1>14 DEF DropSession, At, history, Places
<1>15. CASE ResetKey(c)
  BY <1>6, <1>15 DEF ResetKey, At, history
<1>16. CASE LockEnd(c)
  <2>1. call[c].cmd = "lock" /\ key' = key /\ guard' = None /\ unlockedAt' = unlockedAt
    BY <1>16 DEF LockEnd, At
  <2>2. locked' => key = "NoKey" /\ ~Unlocking
    BY <1>3, <1>16 DEF LockEnd, LockInv
  <2>3. QED
    BY <1>1, <1>2, <1>3, <1>8, <1>16, <2>1, <2>2 DEF LockInv, LockEnd, At
<1>17. CASE DestroyBegin(c)
  BY <1>6, <1>7, <1>17 DEF DestroyBegin, At, history, Places
<1>18. CASE DestroyEnd(c)
  BY <1>6, <1>8, <1>18 DEF DestroyEnd, At, history
<1>19. CASE InitTransition(c) \/ InitSpawn(c) \/ InitReady(c) \/ InitFinish(c)
  <2>1. call[c].cmd = "init" /\ UNCHANGED <<key, guard, locked, unlockedAt>>
    BY <1>19 DEF InitTransition, InitSpawn, InitReady, InitFinish, At, history
  <2>2. ~At(c, {"lock"}, "end")'
    BY <1>1, <2>1 DEF At
  <2>3. QED
    BY <1>6, <2>1, <2>2
<1>20. QED
  BY <1>5, <1>9, <1>10, <1>11, <1>12, <1>13, <1>14, <1>15, <1>16, <1>17, <1>18, <1>19 DEF CallStep

LEMMA CallStepKey ==
  ASSUME IInv, NEW c \in Calls, CallStep(c)
  PROVE  KeyInv'
<1>1. PICK x \in {None} \cup Call : Moved(c, x)
  BY CallStepMoves
<1>2. call[c] # None /\ TypeOK /\ KeyInv /\ (\A d \in Calls : Shape(d))
  BY CallStepMoves DEF IInv
<1>3. CASE call[c].cmd \notin KeyCommands
  <2>1. verified' = verified /\ crossed' = crossed /\ key' \in {key, "NoKey", "Locked"}
    BY <1>3 DEF CallStep, UnlockAnswered, UnlockGuard, VerifyAnswered, ClearAnswered,
         ResetAnswered, OtherAnswered, WaitIo, WaitIoDeadline, DropSession, ResetKey, LockEnd,
         DestroyBegin, DestroyEnd, InitTransition, InitSpawn, InitReady, InitFinish, app, history,
         Answered, KeyCommands
  <2>2. ASSUME NEW w \in Workers, Sound(w)' PROVE Sound(w) /\ gmk'[w] = gmk[w]
    <3>1. CASE UNCHANGED worker
      BY <1>1, <2>2, <3>1 DEF worker, Sound, Moved
    <3>2. CASE InitTransition(c)
      <4>1. PICK ws : Die(ws)
        BY <3>2 DEF InitTransition
      <4>2. w \notin ws /\ proc'[w] = proc[w]
        <5>1. proc'[w] = IF w \in ws THEN "dead" ELSE proc[w]
          BY <4>1 DEF Die
        <5>2. proc'[w] # "dead"
          BY <2>2 DEF Sound
        <5>3. QED
          BY <5>1, <5>2
      <4>3. gmk'[w] = gmk[w]
        BY <1>2, <4>1, <4>2 DEF Die, TypeOK, Types
      <4>4. QED
        BY <1>1, <2>2, <4>2, <4>3 DEF Sound, Moved
    <3>3. CASE InitSpawn(c)
      <4>1. gmk' = gmk /\ (proc' = proc \/ \E v \in Workers : proc[v] = "none"
                                                            /\ proc' = [proc EXCEPT ![v] = "alive"])
        BY <3>3 DEF InitSpawn
      <4>2. proc'[w] # "dead" /\ slow' = slow /\ w \notin slow
        BY <1>1, <2>2 DEF Sound, Moved
      <4>3. proc[w] # "dead"
        BY <1>2, <4>1, <4>2 DEF TypeOK, Types
      <4>4. QED
        BY <4>1, <4>2, <4>3 DEF Sound
    <3>4. CallStep(c) => UNCHANGED worker \/ InitTransition(c) \/ InitSpawn(c)
      BY DEF CallStep, UnlockAnswered, UnlockGuard, VerifyAnswered, ClearAnswered, ResetAnswered,
           OtherAnswered, WaitIo, WaitIoDeadline, DropSession, ResetKey, LockEnd, DestroyBegin,
           DestroyEnd, InitReady, InitFinish
    <3>5. QED
      BY <3>1, <3>2, <3>3, <3>4
  <2>3. QED
    BY <1>1, <1>2, <1>3, <2>1, <2>2, KeyMoves DEF Moved
(* The only key command there is has its answer and goes.                      *)
<1>4. CASE call[c].cmd \in KeyCommands
  <2>1. VerifyAnswered(c) \/ ClearAnswered(c) \/ ResetAnswered(c) \/ OtherAnswered(c)
    BY <1>2, <1>4 DEF CallStep, UnlockAnswered, UnlockGuard, WaitIo, WaitIoDeadline, DropSession,
         ResetKey, LockEnd, DestroyBegin, DestroyEnd, InitTransition, InitSpawn, InitReady, InitFinish,
         At, Answered, Shape, PlacesOf, KeyCommands
  <2>2. Done(c) /\ call[c].at = "answered" /\ UNCHANGED <<worker, slow, crossed>>
    BY <2>1 DEF VerifyAnswered, ClearAnswered, ResetAnswered, OtherAnswered, Answered, history
  <2>3. /\ \A w \in Workers : Sound(w)' <=> Sound(w)
        /\ gmk' = gmk
    BY <2>2 DEF worker, Sound
  <2>4. key' = "Unlocked" =>
           \/ key = "Unlocked" /\ verified' = verified
                /\ ~(call[c].cmd = "clear" /\ Ok(c)) /\ call[c].cmd # "reset"
           \/ call[c].cmd = "verify" /\ Ok(c) /\ verified' = call[c].w
    BY <2>1 DEF VerifyAnswered, ClearAnswered, ResetAnswered, OtherAnswered, Answered, app, history
  <2>5. Ok(c) => call[c].w \in Workers /\ Said(c)
    BY <1>2, <2>2 DEF Said, Shape
  <2>6. key' = "Unlocked" => verified' \in Workers
    BY <1>2, <2>4, <2>5 DEF KeyInv
  <2>7. CASE crossed
    BY <2>2, <2>6, <2>7 DEF KeyInv
  <2>8. CASE ~crossed
    <3>1. \A d \in Calls : call'[d] # None => call'[d].cmd \notin KeyCommands
      BY <1>2, <1>4, <2>2, <2>8, DoneIs DEF KeyInv
    <3>2. ASSUME key' = "Unlocked", Sound(verified)' PROVE gmk'[verified']
      <4>1. CASE call[c].cmd = "verify" /\ Ok(c) /\ verified' = call[c].w
        <5>1. Sound(call[c].w)
          BY <2>3, <2>5, <3>2, <4>1 DEF Sound
        <5>2. gmk[call[c].w]
          BY <1>2, <2>5, <2>8, <4>1, <5>1 DEF KeyInv
        <5>3. QED
          BY <2>3, <4>1, <5>2
      <4>2. CASE key = "Unlocked" /\ verified' = verified
                   /\ ~(call[c].cmd = "clear" /\ Ok(c)) /\ call[c].cmd # "reset"
        <5>1. Sound(verified)
          BY <1>2, <2>3, <3>2, <4>2 DEF Sound, KeyInv
        <5>2. ASSUME NEW d \in Calls, call[d] # None, call[d].cmd \in {"clear", "reset"}, Said(d)
              PROVE  FALSE
          <6>1. d = c
            BY <1>2, <1>4, <2>8, <5>2 DEF KeyInv, KeyCommands
          <6>2. ~Said(c)
            BY <2>2, <4>2, <5>2, <6>1 DEF Said, Reading
          <6>3. QED
            BY <5>2, <6>1, <6>2
        <5>3. QED
          BY <1>2, <2>3, <2>8, <4>2, <5>1, <5>2 DEF KeyInv
      <4>3. QED
        BY <2>4, <3>2, <4>1, <4>2
    <3>3. ~crossed'
      BY <2>2, <2>8
    <3>4. QED
      BY <2>6, <3>1, <3>2, <3>3 DEF KeyInv, KeyCommands
  <2>9. QED
    BY <2>7, <2>8 DEF IInv, TypeOK, Types
<1>5. QED
  BY <1>3, <1>4

LEMMA CallStepQuiet ==
  ASSUME IInv, NEW c \in Calls, CallStep(c)
  PROVE  Quiet'
<1>1. CASE UNCHANGED worker
  BY <1>1 DEF worker, pipe, IInv, Quiet
<1>2. CASE InitTransition(c)
  <2>1. PICK ws : Die(ws)
    BY <1>2 DEF InitTransition
  <2>2. QED
    BY <2>1 DEF Die, IInv, Quiet
<1>3. CASE InitSpawn(c)
  BY <1>3 DEF InitSpawn, pipe, IInv, TypeOK, Types, Quiet
<1>4. CallStep(c) => UNCHANGED worker \/ InitTransition(c) \/ InitSpawn(c)
  BY DEF CallStep, UnlockAnswered, UnlockGuard, VerifyAnswered, ClearAnswered, ResetAnswered,
       OtherAnswered, WaitIo, WaitIoDeadline, DropSession, ResetKey, LockEnd, DestroyBegin,
       DestroyEnd, InitReady, InitFinish
<1>5. QED
  BY <1>1, <1>2, <1>3, <1>4

LEMMA CallStepInv ==
  ASSUME IInv, NEW c \in Calls, CallStep(c)
  PROVE  IInv'
BY CallStepTypes, CallStepInLine, CallStepShape, CallStepLife, CallStepLock, CallStepKey,
   CallStepQuiet DEF IInv, TypeOK

-------------------------------------------------------------------------------
(* A command is issued, and stands in line when it needs the worker.           *)
Alone(q) == \A i, j \in DOMAIN q : q[i] = q[j] => i = j
In(q, e) == \E i \in DOMAIN q : q[i] = e

LEMMA AppendOne ==
  ASSUME NEW S, NEW q \in Seq(S), NEW e \in S, Alone(q), ~In(q, e)
  PROVE  /\ Append(q, e) \in Seq(S) /\ Alone(Append(q, e))
         /\ \A d : In(Append(q, e), d) <=> In(q, d) \/ d = e
<1> DEFINE a == Append(q, e)
<1>1. /\ a \in Seq(S) /\ Len(a) = Len(q) + 1 /\ DOMAIN a = 1..(Len(q) + 1)
      /\ a[Len(q) + 1] = e /\ Len(q) \in Nat /\ DOMAIN q = 1..Len(q)
  BY AppendProperties
<1>2. \A i \in 1..Len(q) : a[i] = q[i]
  BY AppendProperties
<1>3. Alone(a)
  BY <1>1, <1>2 DEF Alone, In
<1>4. ASSUME NEW d PROVE In(a, d) <=> In(q, d) \/ d = e
  BY <1>1, <1>2 DEF In
<1>5. QED
  BY <1>1, <1>3, <1>4

LEMMA StartMoves ==
  ASSUME IInv, NEW c \in Calls, NEW cmd \in Issued, Start(c, cmd)
  PROVE  \E x \in Call :
           /\ call' = [call EXCEPT ![c] = x] /\ x.cmd = cmd /\ x.n = starts'
           /\ x.at \in PlacesOf(cmd) \ {"writing", "end"}
           /\ x.at = "answered" => x.ans = "fail"
           /\ x.at = "sent" => x.w \in Workers /\ queue' = [queue EXCEPT ![x.w] = Append(@, c)]
           /\ x.at # "sent" => queue' = queue
<1> DEFINE w == IF cmd \in Sending THEN session ELSE None
           lost == cmd \in Sending /\ session = None
           x == [cmd |-> cmd, n |-> starts', w |-> w, ans |-> IF lost THEN "fail" ELSE "none",
                 at |-> IF lost THEN "answered" ELSE First(cmd)]
<1>1. call' = [call EXCEPT ![c] = x] /\ queue' = IF w = None THEN queue ELSE [queue EXCEPT ![w] = Append(@, c)]
  BY DEF Start
<1>2. cmd \in Commands /\ starts' \in 1..MaxStarts /\ w \in Workers \cup {None}
  <2>1. starts \in 0..MaxStarts /\ session \in Workers \cup {None}
    BY DEF IInv, TypeOK, Types
  <2>2. starts < MaxStarts /\ starts' = starts + 1
    BY DEF Start
  <2>3. QED
    BY <2>1, <2>2, IssuedAssumption, AppAssumption
<1>3. x \in Call
  BY <1>2 DEF Call, First, Places, Answers
<1>4. x.at \in PlacesOf(cmd) \ {"writing", "end"}
  BY <1>2 DEF First, PlacesOf, Commands, Sending, KeyCommands
<1>5. x.at = "sent" <=> w # None
  BY <1>2 DEF First, Commands, Sending, KeyCommands
<1>6. QED
  BY <1>1, <1>2, <1>3, <1>4, <1>5 DEF First

LEMMA StartTypes ==
  ASSUME IInv, NEW c \in Calls, NEW cmd \in Issued, Start(c, cmd)
  PROVE  Types'
<1>1. PICK x \in Call : /\ call' = [call EXCEPT ![c] = x]
                        /\ x.at = "sent" => x.w \in Workers /\ queue' = [queue EXCEPT ![x.w] = Append(@, c)]
                        /\ x.at # "sent" => queue' = queue
  BY StartMoves
<1>2. Types
  BY DEF IInv, TypeOK
<1>3. queue' \in [Workers -> Seq(Calls)]
  <2>1. CASE x.at = "sent"
    <3>1. Append(queue[x.w], c) \in Seq(Calls)
      BY <1>1, <1>2, <2>1, AppendProperties DEF Types
    <3>2. QED
      BY <1>1, <1>2, <2>1, <3>1 DEF Types
  <2>2. QED
    BY <1>1, <1>2, <2>1 DEF Types
<1>4. call' \in [Calls -> {None} \cup Call]
  BY <1>1, <1>2 DEF Types
<1>5. starts' \in 0..MaxStarts
  BY <1>2, AppAssumption DEF Types, Start
<1>6. crossed' \in BOOLEAN /\ locked' \in BOOLEAN
  BY DEF Start
<1>7. UNCHANGED <<app, crashes, proc, flag, actor, pipe, open, gmk, stored, slow, verified, unlockedAt>>
  BY DEF Start
<1>8. QED
  BY <1>2, <1>3, <1>4, <1>5, <1>6, <1>7 DEF Types, app, pipe

(* Nobody had to do with the place of the new command.                         *)
LEMMA StartApart ==
  ASSUME IInv, NEW c \in Calls, NEW cmd \in Issued, Start(c, cmd)
  PROVE  /\ call[c] = None /\ \A d \in Calls \ {c} : call'[d] = call[d]
         /\ \A w \in Workers : /\ actor[w] # c /\ ~In(queue[w], c)
                               /\ Reading(w)' <=> Reading(w)
                               /\ actor[w] # None => call'[actor[w]] = call[actor[w]]
         /\ \A d \in Calls \ {c} : Said(d)' <=> Said(d)
<1>1. call[c] = None /\ UNCHANGED <<actor, answers>>
  BY DEF Start, pipe
<1>2. \A d \in Calls \ {c} : call'[d] = call[d]
  <2>1. PICK x : call' = [call EXCEPT ![c] = x]
    BY StartMoves
  <2>2. QED
    BY <2>1 DEF IInv, TypeOK, Types
<1>3. ASSUME NEW w \in Workers PROVE actor[w] # c /\ ~In(queue[w], c)
  BY <1>1, NoneAssumption DEF IInv, TypeOK, InLine, Serves, Waits, In
<1>4. \A w \in Workers : actor[w] # None => actor[w] \in Calls /\ call'[actor[w]] = call[actor[w]]
  BY <1>2, <1>3 DEF IInv, TypeOK, Types
<1>5. \A w \in Workers : Reading(w)' <=> Reading(w)
  BY <1>1, <1>4 DEF Reading
<1>6. \A d \in Calls \ {c} : Said(d)' <=> Said(d)
  BY <1>1, <1>2, <1>5 DEF Said, Ok
<1>7. QED
  BY <1>1, <1>2, <1>3, <1>4, <1>5, <1>6

LEMMA StartInLine ==
  ASSUME IInv, NEW c \in Calls, NEW cmd \in Issued, Start(c, cmd)
  PROVE  InLine'
<1>1. PICK x \in Call : /\ call' = [call EXCEPT ![c] = x]
                        /\ x.at = "sent" => x.w \in Workers /\ queue' = [queue EXCEPT ![x.w] = Append(@, c)]
                        /\ x.at # "sent" => queue' = queue
  BY StartMoves
<1>2. call'[c] = x /\ x # None /\ actor' = actor
  BY <1>1, NoneAssumption DEF IInv, TypeOK, Types, Start
<1>3. ASSUME NEW w \in Workers, actor[w] # None PROVE Serves(w)'
  BY <1>2, <1>3, StartApart DEF IInv, TypeOK, InLine, Serves
<1>4. ASSUME NEW w \in Workers
      PROVE  Alone(queue'[w]) /\ \A d \in Calls : Waits(w, d)' <=> In(queue'[w], d)
  <2>1. queue[w] \in Seq(Calls) /\ Alone(queue[w]) /\ \A d \in Calls : Waits(w, d) <=> In(queue[w], d)
    BY DEF IInv, TypeOK, Types, InLine, Alone, In
  <2>2. ~In(queue[w], c) /\ actor[w] # c
    BY StartApart
  <2>3. \A d \in Calls \ {c} : Waits(w, d)' <=> Waits(w, d)
    BY <1>2, StartApart DEF Waits
  <2>4. Waits(w, c)' <=> x.w = w /\ x.at = "sent"
    BY <1>2, <2>2 DEF Waits
  <2>5. CASE x.w = w /\ x.at = "sent"
    <3>1. queue'[w] = Append(queue[w], c)
      BY <1>1, <2>5 DEF IInv, TypeOK, Types
    <3>2. Alone(queue'[w]) /\ \A d \in Calls : In(queue'[w], d) <=> In(queue[w], d) \/ d = c
      BY <2>1, <2>2, <3>1, AppendOne
    <3>3. QED
      BY <2>1, <2>3, <2>4, <2>5, <3>2
  <2>6. CASE ~(x.w = w /\ x.at = "sent")
    <3>1. queue'[w] = queue[w]
      BY <1>1, <2>6 DEF IInv, TypeOK, Types
    <3>2. QED
      BY <2>1, <2>2, <2>3, <2>4, <2>6, <3>1
  <2>7. QED
    BY <2>5, <2>6
<1>5. QED
  BY <1>2, <1>3, <1>4 DEF InLine, Alone, In

LEMMA StartRest ==
  ASSUME IInv, NEW c \in Calls, NEW cmd \in Issued, Start(c, cmd)
  PROVE  /\ \A d \in Calls : Shape(d)'
         /\ LifeInv' /\ LockInv'
         /\ \A w \in Workers : InTurn(w)'
         /\ KeyInv'
<1>1. PICK x \in Call : /\ call' = [call EXCEPT ![c] = x] /\ x.cmd = cmd /\ x.n = starts'
                        /\ x.at \in PlacesOf(cmd) \ {"writing", "end"}
                        /\ x.at = "answered" => x.ans = "fail"
                        /\ x.at = "sent" => x.w \in Workers
  BY StartMoves
<1>2. call'[c] = x /\ x # None /\ starts' = starts + 1 /\ starts \in Nat
  BY <1>1, NoneAssumption DEF IInv, TypeOK, Types, Start
<1>3. /\ call[c] = None /\ \A d \in Calls \ {c} : call'[d] = call[d]
      /\ \A d \in Calls \ {c} : Said(d)' <=> Said(d)
  BY StartApart
<1>4. /\ Admitted(cmd) /\ locked' = (locked /\ cmd # "unlock")
      /\ crossed' = (crossed \/ (cmd \in KeyCommands /\ Running(KeyCommands)))
      /\ UNCHANGED <<app, crashes, proc, flag, actor, pipe, open, gmk, stored, slow, verified, unlockedAt>>
  BY DEF Start
<1>5. ASSUME NEW d \in Calls PROVE Shape(d)'
  <2>1. CASE d = c
    BY <1>1, <1>2, <2>1 DEF Shape, Ok
  <2>2. CASE d # c /\ call[d] # None
    <3>1. call[d].n \in Nat
      <4>1. call[d] \in Call
        BY <2>2, CallIsCall DEF IInv
      <4>2. QED
        BY <4>1, AppAssumption DEF Call
    <3>2. QED
      BY <1>2, <1>3, <2>2, <3>1 DEF Shape, Ok, IInv
  <2>3. QED
    BY <1>3, <2>1, <2>2 DEF Shape
<1>6. LifeInv'
  <2>1. \A d, e \in Calls : call'[d] # None /\ call'[e] # None /\ call'[d].cmd = "init"
                               /\ call'[e].cmd = "init" => d = e
    BY <1>1, <1>2, <1>3, <1>4 DEF IInv, LifeInv, Admitted, Running
  <2>2. lc' = lc
    BY <1>4 DEF app
  <2>3. QED
    BY <1>3, <2>1, <2>2 DEF IInv, LifeInv
<1>7. LockInv'
  <2>1. Running({"unlock"}) => Running({"unlock"})'
    BY <1>3 DEF Running
  <2>2. Running({"unlock"})' => Running({"unlock"}) \/ cmd = "unlock"
    BY <1>1, <1>2, <1>3 DEF Running
  <2>3. ~At(c, {"lock"}, "end")'
    BY <1>1, <1>2 DEF At
  <2>4. QED
    BY <1>3, <1>4, <2>1, <2>2, <2>3 DEF IInv, LockInv, At, app
<1>8. ASSUME NEW w \in Workers PROVE InTurn(w)'
  <2>1. (Reading(w)' <=> Reading(w)) /\ (Reading(w) => call'[actor[w]] = call[actor[w]])
    BY StartApart DEF Reading
  <2>2. QED
    BY <1>4, <2>1 DEF IInv, InTurn, pipe
<1>9. KeyInv'
  <2>1. ~Said(c)'
    <3>1. ~(call'[c].at = "answered" /\ Ok(c)')
      BY <1>1, <1>2 DEF Ok
    <3>2. \A w \in Workers : actor'[w] # c
      BY <1>4, StartApart
    <3>3. QED
      BY <3>1, <3>2 DEF Said
  <2>2. CASE crossed'
    BY <1>4, <2>2 DEF IInv, KeyInv, app
  <2>3. CASE ~crossed'
    <3>1. ~crossed /\ (cmd \in KeyCommands => ~Running(KeyCommands))
      BY <1>4, <2>3
    <3>2. \A d, e \in Calls : call'[d] # None /\ call'[e] # None /\ call'[d].cmd \in KeyCommands
                                 /\ call'[e].cmd \in KeyCommands => d = e
      BY <1>1, <1>2, <1>3, <3>1 DEF IInv, KeyInv, Running
    <3>3. \A d \in Calls : call'[d] # None /\ call'[d].cmd = "derive_store" => key' # "Unlocked"
      BY <1>1, <1>2, <1>3, <1>4, <3>1 DEF IInv, KeyInv, Admitted, app
    <3>4. \A w : Sound(w)' <=> Sound(w)
      BY <1>4 DEF Sound
    <3>5. \A d \in Calls : call'[d] # None /\ call'[d].cmd = "verify" /\ Said(d)' /\ Sound(call[d].w)'
             => gmk'[call'[d].w]
      <4>1. SUFFICES ASSUME NEW d \in Calls \ {c}, call[d] # None, call[d].cmd = "verify", Said(d),
                            Sound(call[d].w)
                     PROVE  gmk[call[d].w]
        BY <1>3, <1>4, <2>1 DEF Sound
      <4>2. QED
        BY <3>1, <4>1 DEF IInv, KeyInv
    <3>6. key' = key /\ verified' = verified /\ gmk' = gmk
      BY <1>4 DEF app
    <3>7. ASSUME key = "Unlocked", Sound(verified)
          PROVE  \/ gmk[verified]
                 \/ \E d \in Calls : /\ call'[d] # None /\ call'[d].cmd \in {"clear", "reset"}
                                     /\ call'[d].w = verified /\ Said(d)'
      BY <1>3, <3>1, <3>7 DEF IInv, KeyInv
    <3>8. QED
      BY <2>3, <3>2, <3>3, <3>4, <3>5, <3>6, <3>7 DEF IInv, KeyInv
  <2>4. QED
    BY <2>2, <2>3
<1>10. QED
  BY <1>5, <1>6, <1>7, <1>8, <1>9

LEMMA StartInv ==
  ASSUME IInv, NEW c \in Calls, NEW cmd \in Issued, Start(c, cmd)
  PROVE  IInv'
<1>1. Quiet'
  BY DEF Start, pipe, IInv, Quiet
<1>2. QED
  BY <1>1, StartTypes, StartInLine, StartRest DEF IInv, TypeOK

(* The front end tells what it found.                                          *)
LEMMA ReconcileInv ==
  ASSUME IInv, NEW has \in BOOLEAN, Reconcile(has)
  PROVE  IInv'
<1>1. /\ guard # None /\ (\A c \in Calls : call[c] = None)
      /\ UNCHANGED <<lc, recovered, guard, session, call, bounds, worker, history>>
      /\ key' \in {"NoKey", "Locked", key}
  BY DEF Reconcile
<1> USE <1>1 DEF bounds, worker, pipe, history
<1>2. Types'
  <2>1. AppTypes /\ WorkerTypes /\ call' \in [Calls -> {None} \cup Call]
    BY TypesApart DEF IInv, TypeOK, Types
  <2>2. AppTypes'
    BY <2>1 DEF AppTypes
  <2>3. WorkerTypes'
    BY <2>1 DEF WorkerTypes
  <2>4. QED
    BY <2>1, <2>2, <2>3, TypesTogether
<1>3. InLine'
  BY DEF IInv, TypeOK, InLine, Serves, Waits
<1>4. (\A c \in Calls : Shape(c)') /\ LifeInv'
  BY DEF IInv, LifeInv, Shape
<1>5. LockInv'
  BY DEF IInv, LockInv, At, Running
<1>6. \A w \in Workers : InTurn(w)'
  BY DEF IInv, InTurn, Reading
<1>7. KeyInv' /\ Quiet'
  BY DEF IInv, KeyInv, Sound, Quiet
<1>8. QED
  BY <1>2, <1>3, <1>4, <1>5, <1>6, <1>7 DEF IInv, TypeOK

-------------------------------------------------------------------------------
(* A worker dies.                                                              *)
LEMMA DieInv ==
  ASSUME IInv, NEW w \in Workers, Die({w}), flag' \in [Workers -> BOOLEAN],
         crashes' \in 0..MaxCrashes,
         UNCHANGED <<app, call, starts, queue, actor, stored, history>>
  PROVE  IInv'
<1> USE DEF app, history
<1>1. Types'
  <2>1. AppTypes /\ WorkerTypes /\ Types
    BY TypesApart DEF IInv, TypeOK
  <2>2. AppTypes'
    BY <2>1 DEF AppTypes
  <2>3. WorkerTypes'
    BY <2>1, DieTypes DEF WorkerTypes
  <2>4. call' \in [Calls -> {None} \cup Call]
    BY <2>1 DEF Types
  <2>5. QED
    BY <2>2, <2>3, <2>4, TypesTogether
<1>2. InLine'
  BY InLineStays DEF IInv, TypeOK
<1>3. (\A c \in Calls : Shape(c)') /\ LifeInv'
  BY DEF IInv, LifeInv, Shape, Ok
<1>4. LockInv'
  BY DEF IInv, LockInv, At, Running
<1>5. answers' = answers /\ \A v \in Workers : asked'[v] = IF v = w THEN <<>> ELSE asked[v]
  BY DEF Die
<1>6. ASSUME NEW v \in Workers PROVE InTurn(v)'
  <2>1. Reading(v)' <=> Reading(v)
    BY DEF Reading
  <2>2. CASE v = w
    BY <1>5, <2>1, <2>2 DEF IInv, InTurn
  <2>3. CASE v # w
    BY <1>5, <2>1, <2>3 DEF IInv, InTurn
  <2>4. QED
    BY <2>2, <2>3
<1>7. Quiet'
  BY DEF IInv, Quiet, Die
<1>8. KeyInv'
  <2>1. \A c \in Calls : Said(c)' <=> Said(c)
    BY <1>5 DEF Said, Reading, Ok
  <2>2. \A v \in Workers : Sound(v)' => v # w
    BY DEF Sound, Die
  <2>3. \A v \in Workers : v # w => (Sound(v)' <=> Sound(v)) /\ gmk'[v] = gmk[v]
    BY DEF Sound, Die, IInv, TypeOK, Types
  <2>4. \A c \in Calls : call[c] # None /\ Said(c) => call[c].w \in Workers
    BY SaidHasWorker DEF IInv
  <2>5. CASE crossed
    BY <2>5 DEF KeyInv, IInv
  <2>6. CASE ~crossed
    <3>1. ASSUME NEW c \in Calls, call[c] # None, call[c].cmd = "verify", Said(c), Sound(call[c].w)'
          PROVE  gmk'[call[c].w]
      BY <2>2, <2>3, <2>4, <2>6, <3>1 DEF KeyInv, IInv
    <3>2. ASSUME key = "Unlocked", Sound(verified)'
          PROVE  gmk'[verified] \/ \E c \in Calls : /\ call[c] # None /\ call[c].cmd \in {"clear", "reset"}
                                                    /\ call[c].w = verified /\ Said(c)
      BY <2>2, <2>3, <2>6, <3>2 DEF KeyInv, IInv
    <3>3. QED
      BY <2>1, <2>6, <3>1, <3>2 DEF KeyInv, IInv
  <2>7. QED
    BY <2>5, <2>6 DEF IInv, TypeOK, Types
<1>9. QED
  BY <1>1, <1>2, <1>3, <1>4, <1>6, <1>7, <1>8 DEF IInv, TypeOK

LEMMA ActorShutdownInv ==
  ASSUME IInv, NEW w \in Workers, ActorShutdown(w)
  PROVE  IInv'
<1>1. flag' \in [Workers -> BOOLEAN] /\ crashes' \in 0..MaxCrashes
  BY DEF ActorShutdown, bounds, IInv, TypeOK, Types
<1>2. Die({w}) /\ UNCHANGED <<app, call, starts, queue, actor, stored, history>>
  BY DEF ActorShutdown, bounds
<1>3. QED
  BY <1>1, <1>2, DieInv

LEMMA WorkerCrashInv ==
  ASSUME IInv, NEW w \in Workers, WorkerCrash(w)
  PROVE  IInv'
<1>1. flag' \in [Workers -> BOOLEAN] /\ crashes' \in 0..MaxCrashes
  BY AppAssumption DEF WorkerCrash, IInv, TypeOK, Types
<1>2. Die({w}) /\ UNCHANGED <<app, call, starts, queue, actor, stored, history>>
  BY DEF WorkerCrash
<1>3. QED
  BY <1>1, <1>2, DieInv

-------------------------------------------------------------------------------
(* The worker handles a request.                                               *)
LEMMA OutcomeTypes ==
  ASSUME Types, NEW w \in Workers, NEW op, NEW ans, Outcome(w, op, ans)
  PROVE  /\ open' \in [Workers -> BOOLEAN] /\ gmk' \in [Workers -> BOOLEAN] /\ stored' \in BOOLEAN
         /\ \A v \in Workers \ {w} : gmk'[v] = gmk[v]
<1> USE DEF Types
<1>1. open' \in [Workers -> BOOLEAN]
  <2>1. open' = open \/ \E o \in BOOLEAN : open' = [open EXCEPT ![w] = o]
    BY DEF Outcome
  <2>2. QED
    BY <2>1
<1>2. gmk' = gmk \/ \E o \in BOOLEAN : gmk' = [gmk EXCEPT ![w] = o]
  BY DEF Outcome
<1>3. stored' \in BOOLEAN
  BY DEF Outcome
<1>4. QED
  BY <1>1, <1>2, <1>3

LEMMA HandleTypes ==
  ASSUME IInv, NEW w \in Workers, Handle(w)
  PROVE  /\ Types' /\ asked[w] # <<>>
         /\ \A v \in Workers \ {w} : asked'[v] = asked[v] /\ answers'[v] = answers[v] /\ gmk'[v] = gmk[v]
         /\ \E ans \in Answers :
              /\ Outcome(w, Head(asked[w]).op, ans)
              /\ asked'[w] = Tail(asked[w])
              /\ answers'[w] = Append(answers[w], [n |-> Head(asked[w]).n, ans |-> ans])
<1>1. Types /\ asked[w] # <<>> /\ asked' = [asked EXCEPT ![w] = Tail(@)]
  BY DEF IInv, TypeOK, Handle
<1>2. PICK ans \in Answers :
         /\ Outcome(w, Head(asked[w]).op, ans)
         /\ answers' = [answers EXCEPT ![w] = Append(@, [n |-> Head(asked[w]).n, ans |-> ans])]
  BY DEF Handle, Answers
<1>3. /\ Tail(asked[w]) \in Seq([op : Sending, n : 1..MaxStarts])
      /\ Head(asked[w]) \in [op : Sending, n : 1..MaxStarts]
  <2>1. asked[w] \in Seq([op : Sending, n : 1..MaxStarts])
    BY <1>1 DEF Types
  <2>2. QED
    BY <1>1, <2>1, HeadTailProperties
<1>4. Append(answers[w], [n |-> Head(asked[w]).n, ans |-> ans]) \in Seq([n : 1..MaxStarts, ans : Answers])
  <2>1. answers[w] \in Seq([n : 1..MaxStarts, ans : Answers])
    BY <1>1 DEF Types
  <2>2. [n |-> Head(asked[w]).n, ans |-> ans] \in [n : 1..MaxStarts, ans : Answers]
    BY <1>3
  <2>3. QED
    BY <2>1, <2>2, AppendProperties
<1>5. asked' \in [Workers -> Seq([op : Sending, n : 1..MaxStarts])]
  BY <1>1, <1>3 DEF Types
<1>6. answers' \in [Workers -> Seq([n : 1..MaxStarts, ans : Answers])]
  BY <1>1, <1>2, <1>4 DEF Types
<1>7. /\ open' \in [Workers -> BOOLEAN] /\ gmk' \in [Workers -> BOOLEAN] /\ stored' \in BOOLEAN
      /\ \A v \in Workers \ {w} : gmk'[v] = gmk[v]
  BY <1>1, <1>2, OutcomeTypes
<1>8. UNCHANGED <<app, call, bounds, proc, flag, queue, actor, history>>
  BY DEF Handle
<1>9. Types'
  <2>1. AppTypes /\ WorkerTypes /\ call' \in [Calls -> {None} \cup Call]
    BY <1>1, <1>8, TypesApart DEF Types
  <2>2. AppTypes'
    BY <1>8, <2>1, AppTypesStay
  <2>3. WorkerTypes'
    BY <1>5, <1>6, <1>7, <1>8, <2>1 DEF WorkerTypes
  <2>4. QED
    BY <2>1, <2>2, <2>3, TypesTogether
<1>10. QED
  BY <1>1, <1>2, <1>7, <1>9 DEF Types

LEMMA HandleTurn ==
  ASSUME IInv, NEW w \in Workers, Handle(w)
  PROVE  /\ \A v \in Workers : InTurn(v)'
         /\ w \notin slow => /\ Reading(w) /\ Head(asked[w]).op = call[actor[w]].cmd
                             /\ answers[w] = <<>>
<1>1. PICK ans \in Answers : /\ asked[w] # <<>> /\ asked'[w] = Tail(asked[w])
                             /\ answers'[w] = Append(answers[w], [n |-> Head(asked[w]).n, ans |-> ans])
  BY HandleTypes
<1>2. UNCHANGED <<call, actor, slow>> /\ asked[w] \in Seq([op : Sending, n : 1..MaxStarts])
  BY DEF Handle, history, IInv, TypeOK, Types
<1>3. ASSUME w \notin slow
      PROVE  /\ Reading(w) /\ Len(asked[w]) = 1 /\ asked[w][1].op = call[actor[w]].cmd
             /\ answers[w] = <<>>
  BY <1>1, <1>3 DEF IInv, InTurn
<1>4. ASSUME w \notin slow PROVE asked'[w] = <<>> /\ Len(answers'[w]) = 1
  <2>1. Tail(asked[w]) = <<>>
    <3> DEFINE q == asked[w]
    <3>1. q \in Seq([op : Sending, n : 1..MaxStarts]) /\ q # <<>> /\ Len(q) = 1
      BY <1>1, <1>2, <1>3, <1>4
    <3> HIDE DEF q
    <3>2. Tail(q) \in Seq([op : Sending, n : 1..MaxStarts]) /\ Len(Tail(q)) = 0
      BY <3>1, HeadTailProperties
    <3>3. Tail(q) = <<>>
      BY <3>2, EmptySeq
    <3>4. QED
      BY <3>3 DEF q
  <2>2. QED
    BY <1>1, <1>3, <1>4, <2>1
<1>5. ASSUME NEW v \in Workers PROVE InTurn(v)'
  <2>1. Reading(v)' <=> Reading(v)
    BY <1>2 DEF Reading
  <2>2. CASE v = w
    BY <1>2, <1>3, <1>4, <2>1, <2>2 DEF InTurn
  <2>3. CASE v # w
    BY <1>2, <2>1, <2>3, HandleTypes DEF IInv, InTurn
  <2>4. QED
    BY <2>2, <2>3
<1>6. w \notin slow => Head(asked[w]) = asked[w][1]
  BY <1>1
<1>7. QED
  BY <1>3, <1>5, <1>6

LEMMA HandleKey ==
  ASSUME IInv, NEW w \in Workers, Handle(w)
  PROVE  KeyInv'
<1>1. UNCHANGED <<call, actor, slow, key, verified, crossed, proc>>
  BY DEF Handle, history, app
<1>2. PICK ans \in Answers :
         /\ Outcome(w, Head(asked[w]).op, ans)
         /\ answers'[w] = Append(answers[w], [n |-> Head(asked[w]).n, ans |-> ans])
  BY HandleTypes
<1>3. \A v \in Workers \ {w} : answers'[v] = answers[v] /\ gmk'[v] = gmk[v]
  BY HandleTypes
<1>4. \A v : Sound(v)' <=> Sound(v)
  BY <1>1 DEF Sound
<1>5. answers[w] \in Seq([n : 1..MaxStarts, ans : Answers])
  BY DEF IInv, TypeOK, Types
<1>6. \A v \in Workers : Reading(v)' <=> Reading(v)
  BY <1>1 DEF Reading
(* A second line behind the first one says nothing yet.                        *)
<1>7. /\ answers'[w] # <<>>
      /\ answers[w] # <<>> => Head(answers'[w]) = Head(answers[w])
      /\ answers[w] = <<>> => Head(answers'[w]).ans = ans
  BY <1>2, <1>5
<1>8. ASSUME NEW c \in Calls, Said(c) PROVE Said(c)'
  BY <1>1, <1>3, <1>6, <1>7, <1>8 DEF Said, Ok
<1>9. ASSUME NEW c \in Calls, call[c] # None, Said(c)', ~Said(c)
      PROVE  actor[w] = c /\ call[c].w = w /\ ans \in {"ok", "ok_has_key"}
  <2>1. PICK v \in Workers : /\ actor[v] = c /\ Reading(v) /\ answers'[v] # <<>>
                             /\ Head(answers'[v]).ans \in {"ok", "ok_has_key"}
    BY <1>1, <1>6, <1>9 DEF Said, Ok
  <2>2. v = w
    BY <1>3, <1>9, <2>1 DEF Said
  <2>3. ans \in {"ok", "ok_has_key"}
    BY <1>7, <1>9, <2>1, <2>2 DEF Said
  <2>4. call[c].w = w
    BY <2>1, <2>2, NoneAssumption DEF IInv, TypeOK, InLine, Serves
  <2>5. QED
    BY <2>1, <2>2, <2>3, <2>4
<1>10. CASE crossed
  BY <1>1, <1>10 DEF IInv, KeyInv
<1>11. CASE ~crossed /\ w \in slow
  <2>1. ASSUME NEW c \in Calls, call[c] # None, call[c].cmd = "verify", Said(c)', Sound(call[c].w)
        PROVE  gmk'[call[c].w]
    <3>1. call[c].w # w
      BY <1>11, <2>1 DEF Sound
    <3>2. Said(c)
      BY <1>9, <2>1, <3>1
    <3>3. call[c].w \in Workers
      BY <2>1, <3>2, SaidHasWorker DEF IInv
    <3>4. QED
      BY <1>3, <1>11, <2>1, <3>1, <3>2, <3>3 DEF IInv, KeyInv
  <2>2. ASSUME key = "Unlocked", Sound(verified)
        PROVE  gmk'[verified] \/ \E c \in Calls : /\ call[c] # None /\ call[c].cmd \in {"clear", "reset"}
                                                  /\ call[c].w = verified /\ Said(c)'
    <3>1. verified \in Workers /\ verified # w
      BY <1>11, <2>2 DEF IInv, KeyInv, Sound
    <3>2. gmk'[verified] = gmk[verified]
      BY <1>3, <3>1
    <3>3. gmk[verified] \/ \E c \in Calls : /\ call[c] # None /\ call[c].cmd \in {"clear", "reset"}
                                            /\ call[c].w = verified /\ Said(c)
      BY <1>11, <2>2 DEF IInv, KeyInv
    <3>4. QED
      BY <1>8, <3>2, <3>3
  <2>3. QED
    BY <1>1, <1>4, <1>11, <2>1, <2>2 DEF IInv, KeyInv
<1>12. CASE ~crossed /\ w \notin slow
  <2> PICK a : a = actor[w]
    OBVIOUS
  <2>1. Reading(w) /\ Head(asked[w]).op = call[a].cmd /\ answers[w] = <<>>
    BY <1>12, HandleTurn
  <2>2. /\ a \in Calls /\ call[a] # None /\ call[a].w = w /\ call[a].at = "sent"
        /\ call[a].cmd \in Sending
    BY <2>1, NoneAssumption DEF Reading, IInv, TypeOK, Types, InLine, Serves
  <2>3. Outcome(w, call[a].cmd, ans) /\ gmk \in [Workers -> BOOLEAN]
    BY <1>2, <2>1 DEF IInv, TypeOK, Types
  <2>4. call[a].cmd \notin KeyCommands => gmk' = gmk
    BY <2>2, <2>3 DEF Outcome, Sending, KeyCommands
  <2>5. call[a].cmd = "verify" => (gmk[w] \/ ans = "ok" => gmk'[w]) /\ ans # "ok_has_key"
    BY <2>3 DEF Outcome
  <2>6. call[a].cmd = "derive" => (gmk[w] \/ ans = "ok" => gmk'[w])
    BY <2>3 DEF Outcome
  <2>7. call[a].cmd \in {"clear", "reset"} => ans = "ok"
    BY <2>3 DEF Outcome
  <2>8. ans = "ok" => Said(a)'
    BY <1>1, <1>6, <1>7, <2>1 DEF Said
  <2>9. ASSUME NEW c \in Calls, call[c] # None, call[c].cmd = "verify", Said(c)', Sound(call[c].w)
        PROVE  gmk'[call[c].w]
    <3>1. CASE ~Said(c)
      BY <1>9, <2>5, <2>9, <3>1
    <3>2. CASE Said(c)
      <4>1. call[c].w \in Workers /\ gmk[call[c].w]
        BY <1>12, <2>9, <3>2, SaidHasWorker DEF IInv, KeyInv
      <4>2. CASE call[c].w # w
        BY <1>3, <4>1, <4>2
      <4>3. CASE call[c].w = w /\ call[a].cmd \notin KeyCommands
        BY <2>4, <4>1, <4>3
      <4>4. CASE call[c].w = w /\ call[a].cmd \in KeyCommands
        <5>1. c = a
          BY <1>12, <2>2, <2>9, <4>4 DEF IInv, KeyInv, KeyCommands
        <5>2. QED
          BY <2>5, <2>9, <4>1, <4>4, <5>1
      <4>5. QED
        BY <4>2, <4>3, <4>4
    <3>3. QED
      BY <3>1, <3>2
  <2>10. ASSUME key = "Unlocked", Sound(verified)
         PROVE  gmk'[verified] \/ \E c \in Calls : /\ call[c] # None /\ call[c].cmd \in {"clear", "reset"}
                                                   /\ call[c].w = verified /\ Said(c)'
    <3>1. verified \in Workers
      BY <2>10 DEF IInv, KeyInv
    <3>2. gmk[verified] \/ \E c \in Calls : /\ call[c] # None /\ call[c].cmd \in {"clear", "reset"}
                                            /\ call[c].w = verified /\ Said(c)
      BY <1>12, <2>10 DEF IInv, KeyInv
    <3>3. CASE ~gmk[verified]
      BY <1>8, <3>2, <3>3
    <3>4. CASE gmk[verified] /\ verified # w
      BY <1>3, <3>1, <3>4
    <3>5. CASE gmk[verified] /\ verified = w
      <4>1. call[a].cmd # "derive_store"
        BY <1>12, <2>2, <2>10 DEF IInv, KeyInv
      <4>2. CASE call[a].cmd \in {"clear", "reset"}
        BY <2>2, <2>7, <2>8, <3>5, <4>2
      <4>3. CASE call[a].cmd \notin {"clear", "reset"}
        <5>1. CASE call[a].cmd \notin KeyCommands
          BY <2>4, <3>5, <5>1
        <5>2. CASE call[a].cmd \in {"verify", "derive"}
          BY <2>5, <2>6, <3>5, <5>2
        <5>3. QED
          BY <4>1, <4>3, <5>1, <5>2 DEF KeyCommands
      <4>4. QED
        BY <4>2, <4>3
    <3>6. QED
      BY <3>3, <3>4, <3>5
  <2>11. QED
    BY <1>1, <1>4, <1>12, <2>9, <2>10 DEF IInv, KeyInv
<1>13. QED
  BY <1>10, <1>11, <1>12 DEF IInv, TypeOK, Types

LEMMA HandleInv ==
  ASSUME IInv, NEW w \in Workers, Handle(w)
  PROVE  IInv'
<1>1. UNCHANGED <<app, call, bounds, proc, queue, actor, history>>
  BY DEF Handle
<1> USE <1>1 DEF app, bounds, history
<1>2. InLine'
  BY DEF IInv, TypeOK, InLine, Serves, Waits
<1>3. (\A c \in Calls : Shape(c)') /\ LifeInv'
  BY DEF IInv, LifeInv, Shape, Ok
<1>4. LockInv'
  BY DEF IInv, LockInv, At, Running
<1>5. Quiet'
  <2>1. proc[w] = "alive" /\ \A v \in Workers \ {w} : asked'[v] = asked[v]
    BY HandleTypes DEF Handle
  <2>2. QED
    BY <2>1 DEF IInv, Quiet
<1>6. QED
  BY <1>2, <1>3, <1>4, <1>5, HandleTypes, HandleTurn, HandleKey DEF IInv, TypeOK

-------------------------------------------------------------------------------
(* The actor moves a call along: it is written, then answered.                 *)
Along(c, y) ==
    /\ call[c] # None /\ call[c].at \in {"sent", "writing"}
    /\ call' = [call EXCEPT ![c] = y]
    /\ y.cmd = call[c].cmd /\ y.n = call[c].n /\ y.w = call[c].w
    /\ y.at \in {"sent", "writing", "answered"}

LEMMA ReplyMoves ==
  ASSUME TypeOK, NEW c \in Calls, call[c] # None, call[c].at \in {"sent", "writing"},
         NEW w \in Workers, NEW ans \in Answers \cup {"fail"}, Reply(w, c, ans)
  PROVE  \E y \in Call : Along(c, y) /\ y.at = "answered" /\ y.ans = ans
<1> DEFINE y == [call[c] EXCEPT !.at = "answered", !.ans = ans]
<1>1. call[c] \in Call
  BY CallIsCall
<1>2. y \in Call /\ y.at = "answered" /\ y.ans = ans /\ y.cmd = call[c].cmd /\ y.n = call[c].n
      /\ y.w = call[c].w
  BY <1>1 DEF Call, Places
<1>3. call' = [call EXCEPT ![c] = y]
  BY DEF Reply
<1>4. QED
  BY <1>2, <1>3 DEF Along

LEMMA GotoMoves ==
  ASSUME TypeOK, NEW c \in Calls, call[c] # None, call[c].at \in {"sent", "writing"},
         NEW at \in {"sent", "writing"}, Goto(c, at)
  PROVE  \E y \in Call : Along(c, y) /\ y.at = at
<1> DEFINE y == [call[c] EXCEPT !.at = at]
<1>1. call[c] \in Call
  BY CallIsCall
<1>2. y \in Call /\ y.at = at /\ y.cmd = call[c].cmd /\ y.n = call[c].n /\ y.w = call[c].w
  BY <1>1 DEF Call, Places
<1>3. call' = [call EXCEPT ![c] = y]
  BY DEF Goto
<1>4. QED
  BY <1>2, <1>3 DEF Along

LEMMA AlongKeeps ==
  ASSUME IInv, NEW c \in Calls, NEW y \in Call, Along(c, y),
         UNCHANGED <<lc, key, guard, starts, unlockedAt, locked>>
  PROVE  /\ \A d \in Calls : Shape(d)'
         /\ LifeInv' /\ LockInv'
<1>1. call'[c] = y /\ y # None /\ \A d \in Calls \ {c} : call'[d] = call[d]
  BY NoneAssumption DEF Along, IInv, TypeOK, Types
<1>2. call[c].cmd \notin {"init", "destroy", "lock"} /\ call[c].w \in Workers
  BY DEF Along, IInv, Shape, PlacesOf
<1>3. ASSUME NEW d \in Calls PROVE Shape(d)'
  <2>1. CASE d = c
    <3>1. y.n <= starts'
      BY DEF Along, IInv, Shape
    <3>2. y.at \in PlacesOf(y.cmd)
      BY <1>2 DEF Along, PlacesOf
    <3>3. QED
      BY <1>1, <1>2, <2>1, <3>1, <3>2 DEF Along, Shape
  <2>2. CASE d # c
    BY <1>1, <2>2 DEF IInv, Shape, Ok
  <2>3. QED
    BY <2>1, <2>2
<1>4. \A d \in Calls : /\ call'[d] # None <=> call[d] # None
                       /\ call[d] # None => call'[d].cmd = call[d].cmd
  BY <1>1 DEF Along
<1>5. LifeInv'
  <2>1. \A d \in Calls : call[d] # None /\ call[d].cmd \in {"init", "destroy"} => call'[d] = call[d]
    BY <1>1, <1>2
  <2>2. QED
    BY <1>4, <2>1 DEF IInv, LifeInv
<1>6. LockInv'
  <2>1. Running({"unlock"})' <=> Running({"unlock"})
    BY <1>4 DEF Running
  <2>2. \A d \in Calls : At(d, {"lock"}, "end")' => d # c
    BY <1>1, <1>2 DEF At, Along
  <2>3. QED
    BY <1>1, <2>1, <2>2 DEF IInv, LockInv, At
<1>7. QED
  BY <1>3, <1>5, <1>6

LEMMA AlongKey ==
  ASSUME IInv, NEW c \in Calls, NEW y \in Call, Along(c, y),
         UNCHANGED <<key, verified, crossed, gmk>>,
         \A w \in Workers : Sound(w)' => Sound(w),
         \A d \in Calls : call[d] # None /\ Said(d) => Said(d)',
         \A d \in Calls : call[d] # None /\ Said(d)' /\ Sound(call[d].w)' => Said(d)
  PROVE  KeyInv'
<1>1. call'[c] = y /\ y # None /\ \A d \in Calls \ {c} : call'[d] = call[d]
  BY NoneAssumption DEF Along, IInv, TypeOK, Types
<1>2. \A d \in Calls : /\ call'[d] # None <=> call[d] # None
                       /\ call[d] # None => call'[d].cmd = call[d].cmd /\ call'[d].w = call[d].w
  BY <1>1 DEF Along
<1>3. CASE crossed
  BY <1>3 DEF IInv, KeyInv
<1>4. CASE ~crossed
  <2>1. ASSUME NEW d \in Calls, call'[d] # None, call'[d].cmd = "verify", Said(d)', Sound(call[d].w)'
        PROVE  gmk'[call'[d].w]
    <3>1. call[d] # None /\ call[d].cmd = "verify" /\ call'[d].w = call[d].w /\ Said(d)
      BY <1>2, <2>1
    <3>2. PICK v \in Workers : v = call[d].w
      BY <3>1, SaidHasWorker DEF IInv
    <3>3. Sound(v)'
      BY <2>1, <3>1, <3>2 DEF Sound
    <3>4. gmk[v]
      BY <1>4, <3>1, <3>2, <3>3 DEF IInv, KeyInv
    <3>5. QED
      BY <3>1, <3>2, <3>4
  <2>2. ASSUME key' = "Unlocked", Sound(verified)'
        PROVE  gmk'[verified] \/ \E d \in Calls : /\ call'[d] # None /\ call'[d].cmd \in {"clear", "reset"}
                                                  /\ call'[d].w = verified /\ Said(d)'
    <3>1. PICK v \in Workers : v = verified
      BY <2>2 DEF IInv, KeyInv
    <3>2. Sound(v)'
      BY <2>2, <3>1 DEF Sound
    <3>3. gmk[verified] \/ \E d \in Calls : /\ call[d] # None /\ call[d].cmd \in {"clear", "reset"}
                                            /\ call[d].w = verified /\ Said(d)
      BY <1>4, <2>2, <3>1, <3>2 DEF IInv, KeyInv
    <3>4. QED
      BY <1>2, <3>3
  <2>3. QED
    BY <1>2, <1>4, <2>1, <2>2 DEF IInv, KeyInv
<1>5. QED
  BY <1>3, <1>4 DEF IInv, TypeOK, Types

LEMMA AtActor ==
  ASSUME IInv, NEW w \in Workers, NEW c, c = actor[w], c # None
  PROVE  /\ c \in Calls /\ Serves(w) /\ call[c] # None /\ call[c].w = w
         /\ \A v \in Workers \ {w} : actor[v] # c
         /\ Said(c) <=> Reading(w) /\ answers[w] # <<>> /\ Head(answers[w]).ans \in {"ok", "ok_has_key"}
<1>1. c \in Calls /\ Serves(w)
  BY DEF IInv, TypeOK, Types, InLine
<1>2. ASSUME NEW v \in Workers \ {w}, actor[v] = c PROVE FALSE
  BY <1>1, <1>2 DEF IInv, TypeOK, InLine, Serves
<1>3. call[c].at # "answered" /\ call[c] # None /\ call[c].w = w
  BY <1>1 DEF Serves
<1>4. QED
  BY <1>1, <1>2, <1>3 DEF Said

(* The actor answers the call it serves.                                       *)
LEMMA ReplyInLine ==
  ASSUME IInv, NEW w \in Workers, NEW c, c = actor[w], c # None, NEW y \in Call, Along(c, y),
         y.at = "answered", actor' = [actor EXCEPT ![w] = None], queue' = queue
  PROVE  /\ InLine' /\ ~Reading(w)'
         /\ \A v \in Workers \ {w} : /\ Reading(v)' <=> Reading(v)
                                     /\ Reading(v) => call'[actor'[v]] = call[actor[v]]
<1>1. /\ c \in Calls /\ call[c] # None /\ call[c].w = w
      /\ \A v \in Workers \ {w} : actor[v] # c
  BY AtActor
<1>2. call'[c] = y /\ y # None /\ \A d \in Calls \ {c} : call'[d] = call[d]
  BY <1>1, NoneAssumption DEF Along, IInv, TypeOK, Types
<1>3. actor'[w] = None /\ \A v \in Workers \ {w} : actor'[v] = actor[v]
  BY DEF IInv, TypeOK, Types
<1>4. ASSUME NEW v \in Workers, actor'[v] # None PROVE Serves(v)'
  <2>1. v # w /\ actor'[v] = actor[v] /\ actor[v] # c
    BY <1>1, <1>3, <1>4
  <2>2. Serves(v) /\ actor[v] \in Calls \ {c}
    BY <1>4, <2>1 DEF IInv, TypeOK, Types, InLine
  <2>3. call'[actor'[v]] = call[actor[v]]
    BY <1>2, <2>1, <2>2
  <2>4. QED
    BY <2>1, <2>2, <2>3 DEF Serves
<1>5. ASSUME NEW v \in Workers, NEW d \in Calls PROVE Waits(v, d)' <=> Waits(v, d)
  <2>1. CASE d = c
    BY <1>1, <1>2, <2>1 DEF Waits, Along
  <2>2. CASE d # c
    <3>1. actor'[v] = d <=> actor[v] = d
      BY <1>3, <2>2, NoneAssumption
    <3>2. QED
      BY <1>2, <2>2, <3>1 DEF Waits
  <2>3. QED
    BY <2>1, <2>2
<1>6. InLine'
  BY <1>4, <1>5 DEF IInv, TypeOK, InLine
<1>7. ASSUME NEW v \in Workers \ {w}
      PROVE  (Reading(v)' <=> Reading(v)) /\ (Reading(v) => call'[actor'[v]] = call[actor[v]])
  BY <1>1, <1>2, <1>3 DEF IInv, TypeOK, Types, Reading
<1>8. QED
  BY <1>3, <1>6, <1>7 DEF Reading

LEMMA ReplyKey ==
  ASSUME IInv, NEW w \in Workers, NEW c, c = actor[w], c # None, NEW y \in Call, Along(c, y),
         y.at = "answered", actor' = [actor EXCEPT ![w] = None], queue' = queue,
         UNCHANGED <<key, verified, crossed, gmk, proc>>, slow \subseteq slow',
         \A v \in Workers \ {w} : answers'[v] = answers[v],
         y.ans \in {"ok", "ok_has_key"} <=> Said(c)
  PROVE  KeyInv'
<1>1. c \in Calls /\ call[c] # None /\ call[c].w = w /\ \A v \in Workers \ {w} : actor[v] # c
  BY AtActor
<1>2. call'[c] = y /\ \A d \in Calls \ {c} : call'[d] = call[d]
  BY <1>1 DEF Along, IInv, TypeOK, Types
<1>3. actor'[w] = None /\ \A v \in Workers \ {w} : actor'[v] = actor[v]
  BY DEF IInv, TypeOK, Types
<1>4. \A v \in Workers \ {w} : Reading(v)' <=> Reading(v)
  BY ReplyInLine
<1>5. Said(c)' <=> Said(c)
  BY <1>1, <1>2, <1>3, NoneAssumption DEF Said, Ok
<1>6. ASSUME NEW d \in Calls \ {c} PROVE Said(d)' <=> Said(d)
  <2>1. ASSUME NEW v \in Workers
        PROVE  (actor'[v] = d /\ Reading(v)' /\ answers'[v] # <<>> /\ Head(answers'[v]).ans \in {"ok", "ok_has_key"})
               <=> (actor[v] = d /\ Reading(v) /\ answers[v] # <<>> /\ Head(answers[v]).ans \in {"ok", "ok_has_key"})
    <3>1. CASE v = w
      BY <1>3, <3>1, NoneAssumption
    <3>2. CASE v # w
      BY <1>3, <1>4, <3>2
    <3>3. QED
      BY <3>1, <3>2
  <2>2. QED
    BY <1>2, <2>1 DEF Said, Ok
<1>7. \A v \in Workers : Sound(v)' => Sound(v)
  BY DEF Sound
<1>8. \A d \in Calls : Said(d)' <=> Said(d)
  BY <1>5, <1>6
<1>9. QED
  BY <1>1, <1>7, <1>8, AlongKey

LEMMA ReplyInv ==
  ASSUME IInv, NEW w \in Workers, NEW c, c = actor[w], c # None, NEW ans \in Answers \cup {"fail"},
         Reply(w, c, ans), UNCHANGED <<app, bounds, proc, queue, open, gmk, stored, verified, crossed, unlockedAt, locked>>,
         ans \in {"ok", "ok_has_key"} <=> Said(c),
         flag' \in [Workers -> BOOLEAN], slow' \in {slow, slow \cup {w}},
         asked' = asked,
         answers' \in [Workers -> Seq([n : 1..MaxStarts, ans : Answers])],
         \A v \in Workers \ {w} : answers'[v] = answers[v],
         w \notin slow' => asked[w] = <<>> /\ answers'[w] = <<>>
  PROVE  IInv'
<1>1. c \in Calls /\ call[c] # None /\ call[c].w = w /\ call[c].at \in {"sent", "writing"}
  BY AtActor DEF Serves
<1>2. PICK y \in Call : Along(c, y) /\ y.at = "answered" /\ y.ans = ans
  BY <1>1, ReplyMoves DEF IInv
<1>3. actor' = [actor EXCEPT ![w] = None]
  BY DEF Reply
<1>4. Types'
  <2>1. Types
    BY DEF IInv, TypeOK
  <2>2. call' \in [Calls -> {None} \cup Call] /\ actor' \in [Workers -> Calls \cup {None}]
    BY <1>1, <1>2, <1>3, <2>1 DEF Along, Types
  <2>3. slow' \subseteq Workers
    BY <2>1 DEF Types
  <2>4. AppTypes /\ WorkerTypes
    BY <2>1, TypesApart
  <2>5. AppTypes'
    BY <2>3, <2>4 DEF AppTypes, app, bounds
  <2>6. WorkerTypes'
    BY <2>2, <2>4 DEF WorkerTypes
  <2>7. QED
    BY <2>2, <2>5, <2>6, TypesTogether
<1>5. /\ InLine' /\ ~Reading(w)'
      /\ \A v \in Workers \ {w} : /\ Reading(v)' <=> Reading(v)
                                  /\ Reading(v) => call'[actor'[v]] = call[actor[v]]
  BY <1>2, <1>3, ReplyInLine
<1>6. (\A d \in Calls : Shape(d)') /\ LifeInv' /\ LockInv'
  BY <1>1, <1>2, AlongKeeps DEF app, bounds
<1>7. ASSUME NEW v \in Workers PROVE InTurn(v)'
  <2>1. CASE v = w
    BY <2>1 DEF InTurn
  <2>2. CASE v # w
    BY <1>5, <2>2 DEF InTurn, IInv
  <2>3. QED
    BY <2>1, <2>2
<1>8. KeyInv'
  BY <1>1, <1>2, <1>3, ReplyKey DEF app
<1>9. Quiet'
  BY DEF IInv, Quiet
<1>10. QED
  BY <1>4, <1>5, <1>6, <1>7, <1>8, <1>9 DEF IInv, TypeOK

LEMMA ActorReadInv ==
  ASSUME IInv, NEW w \in Workers, ActorRead(w)
  PROVE  IInv'
<1> PICK c : c = actor[w]
  OBVIOUS
<1>1. /\ Reading(w) /\ answers[w] # <<>> /\ c # None /\ Reply(w, c, Head(answers[w]).ans)
      /\ answers' = [answers EXCEPT ![w] = Tail(@)]
      /\ UNCHANGED <<app, bounds, proc, flag, queue, asked, open, gmk, stored, history>>
  BY DEF ActorRead, Reading
<1>2. answers[w] \in Seq([n : 1..MaxStarts, ans : Answers]) /\ flag \in [Workers -> BOOLEAN]
  BY DEF IInv, TypeOK, Types
<1>3. /\ Tail(answers[w]) \in Seq([n : 1..MaxStarts, ans : Answers])
      /\ Head(answers[w]).ans \in Answers /\ Len(Tail(answers[w])) = Len(answers[w]) - 1
  <2>1. /\ Head(answers[w]) \in [n : 1..MaxStarts, ans : Answers]
        /\ Tail(answers[w]) \in Seq([n : 1..MaxStarts, ans : Answers])
        /\ Len(Tail(answers[w])) = Len(answers[w]) - 1
    BY <1>1, <1>2, HeadTailProperties
  <2>2. QED
    BY <2>1
<1>4. answers' \in [Workers -> Seq([n : 1..MaxStarts, ans : Answers])]
  BY <1>1, <1>3 DEF IInv, TypeOK, Types
<1>5. /\ answers'[w] = Tail(answers[w])
      /\ \A v \in Workers \ {w} : answers'[v] = answers[v]
  BY <1>1 DEF IInv, TypeOK, Types
<1>6. w \notin slow => asked[w] = <<>> /\ answers'[w] = <<>>
  <2>1. w \notin slow => asked[w] = <<>> /\ Len(answers[w]) = 1
    BY <1>1 DEF IInv, InTurn
  <2>2. Len(answers[w]) = 1 => Tail(answers[w]) = <<>>
    <3>1. Tail(answers[w]) # <<>> => Len(Tail(answers[w])) \in Nat \ {0}
      BY <1>3, EmptySeq
    <3>2. QED
      BY <1>3, <3>1
  <2>3. QED
    BY <1>5, <2>1, <2>2
<1>7. Head(answers[w]).ans \in {"ok", "ok_has_key"} <=> Said(c)
  BY <1>1, AtActor
<1>8. QED
  BY <1>1, <1>2, <1>3, <1>4, <1>5, <1>6, <1>7, ReplyInv DEF history

LEMMA ActorEofInv ==
  ASSUME IInv, NEW w \in Workers, ActorEof(w)
  PROVE  IInv'
<1> PICK c : c = actor[w]
  OBVIOUS
<1>1. /\ c # None /\ answers[w] = <<>> /\ proc[w] = "dead" /\ Reply(w, c, "fail")
      /\ flag' = [flag EXCEPT ![w] = FALSE]
      /\ UNCHANGED <<app, bounds, proc, queue, pipe, open, gmk, stored, history>>
  BY DEF ActorEof, Reading
<1>2. answers \in [Workers -> Seq([n : 1..MaxStarts, ans : Answers])] /\ flag' \in [Workers -> BOOLEAN]
  BY <1>1 DEF IInv, TypeOK, Types
<1>3. asked[w] = <<>> /\ ~Said(c)
  BY <1>1, AtActor DEF IInv, Quiet
<1>4. QED
  BY <1>1, <1>2, <1>3, ReplyInv DEF pipe, history

LEMMA ActorTimeoutInv ==
  ASSUME IInv, NEW w \in Workers, ActorTimeout(w)
  PROVE  IInv'
<1> PICK c : c = actor[w]
  OBVIOUS
<1>1. /\ c # None /\ answers[w] = <<>> /\ Reply(w, c, "fail")
      /\ slow' = slow \cup {w}
      /\ UNCHANGED <<app, bounds, proc, flag, queue, pipe, open, gmk, stored, verified, crossed, unlockedAt, locked>>
  BY DEF ActorTimeout, Reading
<1>2. answers \in [Workers -> Seq([n : 1..MaxStarts, ans : Answers])] /\ flag \in [Workers -> BOOLEAN]
  BY DEF IInv, TypeOK, Types
<1>3. ~Said(c)
  BY <1>1, AtActor
<1>4. QED
  BY <1>1, <1>2, <1>3, ReplyInv DEF pipe

LEMMA ActorWriteInv ==
  ASSUME IInv, NEW w \in Workers, ActorWrite(w)
  PROVE  IInv'
<1> PICK c : c = actor[w]
  OBVIOUS
<1>1. /\ c # None /\ call[c].at = "writing"
      /\ UNCHANGED <<app, bounds, proc, queue, answers, open, gmk, stored, history>>
  BY DEF ActorWrite, Writing
<1>2. /\ c \in Calls /\ call[c] # None /\ call[c].w = w /\ call[c].cmd \in Sending
      /\ (\A v \in Workers \ {w} : actor[v] # c) /\ ~Said(c) /\ ~Reading(w)
  BY <1>1, AtActor DEF Serves, Reading
<1>3. answers \in [Workers -> Seq([n : 1..MaxStarts, ans : Answers])] /\ Types
  BY DEF IInv, TypeOK, Types
<1>4. w \notin slow => asked[w] = <<>> /\ answers[w] = <<>>
  BY <1>2 DEF IInv, InTurn
<1>5. CASE Reply(w, c, "fail") /\ flag' = [flag EXCEPT ![w] = FALSE] /\ UNCHANGED asked
  <2>1. flag' \in [Workers -> BOOLEAN]
    BY <1>3, <1>5 DEF Types
  <2>2. QED
    BY <1>1, <1>2, <1>3, <1>4, <1>5, <2>1, ReplyInv DEF history
<1>6. CASE /\ proc[w] = "alive" /\ Goto(c, "sent") /\ UNCHANGED <<actor, flag>>
           /\ asked' = [asked EXCEPT ![w] = Append(@, [op |-> call[c].cmd, n |-> call[c].n])]
  <2>1. PICK y \in Call : Along(c, y) /\ y.at = "sent"
    BY <1>1, <1>2, <1>6, GotoMoves DEF IInv
  <2>2. call'[c] = y /\ y # None /\ \A d \in Calls \ {c} : call'[d] = call[d]
    BY <1>2, <1>3, <2>1, NoneAssumption DEF Along, Types
  <2>3. [op |-> call[c].cmd, n |-> call[c].n] \in [op : Sending, n : 1..MaxStarts]
    BY <1>2, CallIsCall DEF IInv, Call
  <2>4. asked' \in [Workers -> Seq([op : Sending, n : 1..MaxStarts])]
    <3>1. Append(asked[w], [op |-> call[c].cmd, n |-> call[c].n]) \in Seq([op : Sending, n : 1..MaxStarts])
      BY <1>3, <2>3, AppendProperties DEF Types
    <3>2. QED
      BY <1>3, <1>6, <3>1 DEF Types
  <2>5. Types'
    <3>1. call' \in [Calls -> {None} \cup Call]
      BY <1>2, <1>3, <2>1 DEF Along, Types
    <3>2. AppTypes /\ WorkerTypes
      BY <1>3, TypesApart
    <3>3. AppTypes'
      BY <1>1, <3>2, AppTypesStay
    <3>4. WorkerTypes'
      BY <1>1, <1>6, <2>4, <3>2 DEF WorkerTypes
    <3>5. QED
      BY <3>1, <3>3, <3>4, TypesTogether
  <2>6. InLine'
    <3>1. ASSUME NEW v \in Workers, actor[v] # None PROVE Serves(v)'
      <4>1. Serves(v) /\ actor[v] \in Calls /\ actor'[v] = actor[v]
        BY <1>6, <3>1 DEF IInv, TypeOK, Types, InLine
      <4>2. CASE actor[v] = c
        <5>1. v = w /\ y.cmd = call[c].cmd /\ y.w = call[c].w
          BY <1>2, <2>1, <4>2 DEF Along
        <5>2. QED
          BY <1>2, <2>1, <2>2, <4>1, <4>2, <5>1 DEF Serves
      <4>3. CASE actor[v] # c
        BY <2>2, <4>1, <4>3 DEF Serves
      <4>4. QED
        BY <4>2, <4>3
    <3>2. ASSUME NEW v \in Workers, NEW d \in Calls PROVE Waits(v, d)' <=> Waits(v, d)
      BY <1>1, <1>2, <1>6, <2>1, <2>2 DEF Waits, Along
    <3>3. QED
      BY <1>1, <1>6, <3>1, <3>2 DEF IInv, TypeOK, InLine
  <2>7. (\A d \in Calls : Shape(d)') /\ LifeInv' /\ LockInv'
    BY <1>1, <1>2, <2>1, AlongKeeps DEF app, bounds, history
  <2>8. ASSUME NEW v \in Workers \ {w}
        PROVE  asked'[v] = asked[v] /\ (Reading(v)' <=> Reading(v))
               /\ (Reading(v) => call'[actor[v]] = call[actor[v]])
    BY <1>2, <1>3, <1>6, <2>2 DEF Reading, Types
  <2>9. ASSUME NEW v \in Workers PROVE InTurn(v)'
    <3>1. CASE v # w
      BY <1>1, <1>6, <2>8, <3>1 DEF IInv, InTurn, history
    <3>2. CASE v = w /\ w \notin slow
      <4>1. asked'[w] = Append(<<>>, [op |-> call[c].cmd, n |-> call[c].n])
        BY <1>3, <1>4, <1>6, <3>2 DEF Types
      <4>2. Len(asked'[w]) = 1 /\ asked'[w][1].op = call[c].cmd
        BY <4>1
      <4>3. Reading(w)' /\ actor'[w] = c /\ call'[c].cmd = call[c].cmd
        BY <1>1, <1>6, <2>1, <2>2 DEF Reading, Along
      <4>4. QED
        BY <1>1, <1>4, <3>2, <4>2, <4>3 DEF InTurn
    <3>3. CASE v = w /\ w \in slow
      BY <1>1, <3>3 DEF InTurn, history
    <3>4. QED
      BY <3>1, <3>2, <3>3
  <2>10. \A d \in Calls \ {c} : Said(d)' <=> Said(d)
    <3> SUFFICES ASSUME NEW d \in Calls \ {c} PROVE Said(d)' <=> Said(d)
      OBVIOUS
    <3>1. \A v \in Workers : actor[v] = d => v # w
      OBVIOUS
    <3>2. QED
      BY <1>1, <1>6, <2>2, <2>8, <3>1 DEF Said, Ok
  <2>11. Said(c)' => w \in slow
    BY <1>1, <1>2, <1>4, <1>6, <2>1, <2>2 DEF Said
  <2>12. KeyInv'
    <3>1. \A v \in Workers : Sound(v)' => Sound(v)
      BY <1>1 DEF Sound, history
    <3>2. \A d \in Calls : call[d] # None /\ Said(d) => Said(d)'
      BY <1>2, <2>10
    <3>3. ASSUME NEW d \in Calls, call[d] # None, Said(d)', Sound(call[d].w)' PROVE Said(d)
      <4>1. CASE d = c
        BY <1>1, <1>2, <2>1, <2>2, <2>11, <3>3, <4>1 DEF Sound, Along, history
      <4>2. CASE d # c
        BY <2>10, <3>3, <4>2
      <4>3. QED
        BY <4>1, <4>2
    <3>4. QED
      BY <1>1, <1>2, <2>1, <3>1, <3>2, <3>3, AlongKey DEF app, history
  <2>13. Quiet'
    BY <1>1, <1>6, <2>8 DEF IInv, Quiet
  <2>14. QED
    BY <2>5, <2>6, <2>7, <2>9, <2>12, <2>13 DEF IInv, TypeOK
<1>7. QED
  BY <1>5, <1>6 DEF ActorWrite

(* The actor takes the first call in line.                                     *)
LEMMA TailOne ==
  ASSUME NEW S, NEW q \in Seq(S), q # <<>>, Alone(q)
  PROVE  /\ Tail(q) \in Seq(S) /\ Alone(Tail(q)) /\ Head(q) \in S /\ In(q, Head(q))
         /\ \A d : In(Tail(q), d) <=> In(q, d) /\ d # Head(q)
<1> DEFINE t == Tail(q)
<1>1. /\ t \in Seq(S) /\ Len(t) = Len(q) - 1 /\ DOMAIN t = 1..(Len(q) - 1)
      /\ Head(q) = q[1] /\ Head(q) \in S /\ Len(q) \in Nat \ {0} /\ DOMAIN q = 1..Len(q)
  BY EmptySeq, HeadTailProperties
<1>2. \A i \in 1..(Len(q) - 1) : t[i] = q[i + 1]
  BY <1>1, HeadTailProperties
<1>3. Alone(t)
  BY <1>1, <1>2 DEF Alone
<1>4. In(q, Head(q))
  BY <1>1 DEF In
<1>5. ASSUME NEW d PROVE In(t, d) <=> In(q, d) /\ d # Head(q)
  <2>1. ASSUME In(t, d) PROVE In(q, d) /\ d # Head(q)
    BY <1>1, <1>2, <2>1 DEF In, Alone
  <2>2. ASSUME NEW j \in 1..Len(q), q[j] = d, d # Head(q) PROVE In(t, d)
    <3>1. j - 1 \in 1..(Len(q) - 1) /\ t[j - 1] = d
      BY <1>1, <1>2, <2>2
    <3>2. QED
      BY <1>1, <3>1 DEF In
  <2>3. QED
    BY <1>1, <2>1, <2>2 DEF In
<1>6. QED
  BY <1>1, <1>3, <1>4, <1>5

LEMMA ActorTakeInv ==
  ASSUME IInv, NEW w \in Workers, ActorTake(w)
  PROVE  IInv'
<1> PICK c : c = Head(queue[w])
  OBVIOUS
<1>1. /\ actor[w] = None /\ queue[w] # <<>> /\ queue' = [queue EXCEPT ![w] = Tail(@)]
      /\ UNCHANGED <<app, bounds, proc, pipe, open, gmk, stored, history>>
      /\ \/ actor' = [actor EXCEPT ![w] = c] /\ Goto(c, "writing") /\ UNCHANGED flag
         \/ Reply(w, c, "fail") /\ flag' = [flag EXCEPT ![w] = FALSE]
  BY DEF ActorTake
<1>2. Types
  BY DEF IInv, TypeOK
<1>3. /\ queue[w] \in Seq(Calls) /\ Alone(queue[w]) /\ c \in Calls /\ In(queue[w], c)
      /\ Tail(queue[w]) \in Seq(Calls) /\ Alone(Tail(queue[w]))
      /\ \A d : In(Tail(queue[w]), d) <=> In(queue[w], d) /\ d # c
  <2>1. queue[w] \in Seq(Calls) /\ Alone(queue[w])
    BY DEF IInv, TypeOK, Types, InLine, Alone
  <2>2. QED
    BY <1>1, <2>1, TailOne
<1>4. call[c] # None /\ call[c].w = w /\ call[c].at = "sent"
  BY <1>3 DEF IInv, TypeOK, InLine, In, Waits
<1>5. \A v \in Workers : actor[v] # c
  <2>1. ASSUME NEW v \in Workers, actor[v] = c PROVE FALSE
    <3>1. v = w
      BY <1>3, <1>4, <2>1, NoneAssumption DEF IInv, TypeOK, InLine, Serves
    <3>2. QED
      BY <1>1, <1>3, <2>1, <3>1, NoneAssumption
  <2>2. QED
    BY <2>1
<1>6. PICK y \in Call :
         /\ Along(c, y) /\ y.at \in {"writing", "answered"}
         /\ y.at = "answered" => y.ans = "fail"
         /\ actor' = [actor EXCEPT ![w] = IF y.at = "writing" THEN c ELSE None]
  <2>1. CASE actor' = [actor EXCEPT ![w] = c] /\ Goto(c, "writing")
    <3>1. PICK y \in Call : Along(c, y) /\ y.at = "writing"
      BY <1>3, <1>4, <2>1, GotoMoves DEF IInv
    <3>2. QED
      BY <2>1, <3>1
  <2>2. CASE Reply(w, c, "fail")
    <3>1. actor' = [actor EXCEPT ![w] = None]
      BY <2>2 DEF Reply
    <3>2. PICK y \in Call : Along(c, y) /\ y.at = "answered" /\ y.ans = "fail"
      BY <1>3, <1>4, <2>2, ReplyMoves DEF IInv
    <3>3. QED
      BY <3>1, <3>2
  <2>3. QED
    BY <1>1, <2>1, <2>2
<1>7. call'[c] = y /\ y # None /\ \A d \in Calls \ {c} : call'[d] = call[d]
  BY <1>2, <1>3, <1>6, NoneAssumption DEF Along, Types
<1>8. /\ actor'[w] = IF y.at = "writing" THEN c ELSE None
      /\ \A v \in Workers \ {w} : actor'[v] = actor[v] /\ queue'[v] = queue[v]
      /\ queue'[w] = Tail(queue[w])
  BY <1>1, <1>2, <1>6 DEF Types
<1>9. Types'
  <2>1. call' \in [Calls -> {None} \cup Call] /\ actor' \in [Workers -> Calls \cup {None}]
    BY <1>2, <1>3, <1>6 DEF Along, Types
  <2>2. queue' \in [Workers -> Seq(Calls)] /\ flag' \in [Workers -> BOOLEAN]
    BY <1>1, <1>2, <1>3 DEF Types
  <2>3. AppTypes /\ WorkerTypes
    BY <1>2, TypesApart
  <2>4. AppTypes'
    BY <1>1, <2>3, AppTypesStay
  <2>5. WorkerTypes'
    BY <1>1, <2>1, <2>2, <2>3 DEF WorkerTypes, pipe
  <2>6. QED
    BY <2>1, <2>4, <2>5, TypesTogether
<1>10. InLine'
  <2>1. ASSUME NEW v \in Workers, actor'[v] # None PROVE Serves(v)'
    <3>1. CASE v = w
      <4>1. actor'[w] = c /\ y.at = "writing"
        BY <1>8, <2>1, <3>1
      <4>2. call[c].cmd \in Sending
        <5>1. call[c] \in Call /\ call[c].at \in PlacesOf(call[c].cmd)
          BY <1>3, <1>4, CallIsCall DEF IInv, Shape
        <5>2. QED
          BY <1>4, <5>1 DEF PlacesOf, Call, Commands
      <4>3. QED
        BY <1>4, <1>6, <1>7, <3>1, <4>1, <4>2 DEF Serves, Along
    <3>2. CASE v # w
      <4>1. actor'[v] = actor[v] /\ actor[v] # None
        BY <1>8, <2>1, <3>2
      <4>2. actor[v] \in Calls \ {c}
        <5>1. actor[v] \in Calls \cup {None}
          BY <1>2 DEF Types
        <5>2. QED
          BY <1>5, <4>1, <5>1
      <4>3. Serves(v)
        BY <4>1 DEF IInv, TypeOK, InLine
      <4>4. QED
        BY <1>7, <4>1, <4>2, <4>3 DEF Serves
    <3>3. QED
      BY <3>1, <3>2
  <2>2. ASSUME NEW v \in Workers
        PROVE  Alone(queue'[v]) /\ \A d \in Calls : Waits(v, d)' <=> In(queue'[v], d)
    <3>1. Alone(queue[v]) /\ \A d \in Calls : Waits(v, d) <=> In(queue[v], d)
      BY DEF IInv, TypeOK, InLine, Alone, In
    <3>2. ~Waits(v, c)'
      BY <1>6, <1>7 DEF Waits
    <3>3. ASSUME NEW d \in Calls \ {c} PROVE Waits(v, d)' <=> Waits(v, d)
      <4>1. actor'[v] = d <=> actor[v] = d
        BY <1>1, <1>8, NoneAssumption
      <4>2. QED
        BY <1>7, <4>1 DEF Waits
    <3>4. CASE v = w
      BY <1>3, <1>8, <3>1, <3>2, <3>3, <3>4
    <3>5. CASE v # w
      <4>1. ~Waits(v, c)
        BY <1>4, <3>5 DEF Waits
      <4>2. QED
        BY <1>8, <3>1, <3>2, <3>3, <3>5, <4>1
    <3>6. QED
      BY <3>4, <3>5
  <2>3. QED
    BY <2>1, <2>2 DEF InLine, Alone, In
<1>11. (\A d \in Calls : Shape(d)') /\ LifeInv' /\ LockInv'
  BY <1>1, <1>3, <1>6, AlongKeeps DEF app, bounds, history
<1>12. ~Reading(w) /\ ~Reading(w)'
  BY <1>1, <1>6, <1>7, <1>8 DEF Reading
<1>13. ASSUME NEW v \in Workers \ {w}
       PROVE  (Reading(v)' <=> Reading(v)) /\ (Reading(v) => call'[actor'[v]] = call[actor[v]])
  <2>1. actor'[v] = actor[v] /\ (actor[v] # None => actor[v] \in Calls \ {c})
    BY <1>2, <1>5, <1>8 DEF Types
  <2>2. actor[v] # None => call'[actor'[v]] = call[actor[v]]
    BY <1>7, <2>1
  <2>3. QED
    BY <2>1, <2>2 DEF Reading
<1>14. ASSUME NEW v \in Workers PROVE InTurn(v)'
  <2>1. UNCHANGED <<asked, answers, slow>>
    BY <1>1 DEF pipe, history
  <2>2. CASE v = w
    BY <1>12, <2>1, <2>2 DEF IInv, InTurn
  <2>3. CASE v # w
    BY <1>13, <2>1, <2>3 DEF IInv, InTurn
  <2>4. QED
    BY <2>2, <2>3
<1>15. KeyInv'
  <2>1. UNCHANGED answers
    BY <1>1 DEF pipe
  <2>2. ~Said(c) /\ ~Said(c)'
    <3>1. ~Said(c)
      BY <1>4, <1>5 DEF Said
    <3>2. ASSUME NEW v \in Workers, actor'[v] = c, Reading(v)' PROVE FALSE
      BY <1>5, <1>8, <1>12, <3>2
    <3>3. ~(call'[c].at = "answered" /\ Ok(c)')
      BY <1>6, <1>7 DEF Ok
    <3>4. QED
      BY <3>1, <3>2, <3>3 DEF Said
  <2>3. ASSUME NEW d \in Calls \ {c} PROVE Said(d)' <=> Said(d)
    <3>1. ASSUME NEW v \in Workers
          PROVE  (actor'[v] = d /\ Reading(v)') <=> (actor[v] = d /\ Reading(v))
      BY <1>8, <1>12, <1>13
    <3>2. QED
      BY <1>7, <2>1, <3>1 DEF Said, Ok
  <2>4. \A v \in Workers : Sound(v)' => Sound(v)
    BY <1>1 DEF Sound, history
  <2>5. \A d \in Calls : Said(d)' <=> Said(d)
    BY <2>2, <2>3
  <2>6. UNCHANGED <<key, verified, crossed, gmk>>
    BY <1>1 DEF app, history
  <2>7. QED
    BY <1>3, <1>6, <2>4, <2>5, <2>6, AlongKey
<1>16. Quiet'
  BY <1>1 DEF IInv, Quiet, pipe
<1>17. QED
  BY <1>9, <1>10, <1>11, <1>14, <1>15, <1>16 DEF IInv, TypeOK

-------------------------------------------------------------------------------
LEMMA InitInv == Init => IInv
<1> SUFFICES ASSUME Init PROVE IInv
  OBVIOUS
<1>1. Types
  <2>1. <<>> \in Seq(Calls) /\ <<>> \in Seq([op : Sending, n : 1..MaxStarts])
        /\ <<>> \in Seq([n : 1..MaxStarts, ans : Answers])
    BY EmptySeq
  <2>2. /\ queue \in [Workers -> Seq(Calls)]
        /\ asked \in [Workers -> Seq([op : Sending, n : 1..MaxStarts])]
        /\ answers \in [Workers -> Seq([n : 1..MaxStarts, ans : Answers])]
    BY <2>1 DEF Init
  <2>3. /\ proc \in [Workers -> {"none", "alive", "dead"}] /\ flag \in [Workers -> BOOLEAN]
        /\ actor \in [Workers -> Calls \cup {None}]
        /\ open \in [Workers -> BOOLEAN] /\ gmk \in [Workers -> BOOLEAN] /\ stored \in BOOLEAN
    BY DEF Init
  <2>4. call \in [Calls -> {None} \cup Call]
    BY DEF Init
  <2>5. AppTypes
    <3>1. /\ lc \in {"Uninitialized", "Ready"} /\ session \in {None, 1} /\ recovered = 0
          /\ key = "NoKey" /\ guard = None /\ starts = 0 /\ crashes = 0 /\ slow = {}
          /\ verified = None /\ crossed = FALSE /\ unlockedAt = 0 /\ locked = FALSE
      BY DEF Init
    <3>2. 1 \in Workers /\ 0 \in 0..MaxStarts /\ 0 \in 0..MaxCrashes
      BY AppAssumption DEF Workers
    <3>3. crossed \in BOOLEAN /\ locked \in BOOLEAN
      BY <3>1
    <3>4. /\ lc \in {"Uninitialized", "Initializing", "Ready", "ShuttingDown", "Failed"}
          /\ recovered \in 0..3 /\ key \in {"NoKey", "Locked", "Unlocked"}
      BY <3>1
    <3>5. session \in Workers \cup {None} /\ guard \in Workers \cup {None} /\ slow \subseteq Workers
          /\ verified \in Workers \cup {None}
      BY <3>1, <3>2
    <3>6. starts \in 0..MaxStarts /\ crashes \in 0..MaxCrashes /\ unlockedAt \in 0..MaxStarts
      BY <3>1, <3>2
    <3>7. QED
      BY <3>3, <3>4, <3>5, <3>6 DEF AppTypes
  <2>6. QED
    BY <2>2, <2>3, <2>4, <2>5, TypesApart DEF WorkerTypes
<1>2. \A c \in Calls : call[c] = None
  BY DEF Init
<1>3. \A w \in Workers : queue[w] = <<>> /\ actor[w] = None /\ asked[w] = <<>> /\ answers[w] = <<>>
  BY DEF Init
<1>4. InLine
  BY <1>2, <1>3 DEF InLine, Waits
<1>5. (\A c \in Calls : Shape(c)) /\ LifeInv /\ LockInv
  BY <1>2 DEF Shape, LifeInv, LockInv, At, Init
<1>6. (\A w \in Workers : InTurn(w)) /\ Quiet
  BY <1>3 DEF InTurn, Quiet
<1>7. KeyInv
  BY <1>2 DEF KeyInv, Init
<1>8. QED
  BY <1>1, <1>4, <1>5, <1>6, <1>7 DEF IInv, TypeOK

LEMMA StepInv == IInv /\ [Next]_vars => IInv'
<1> SUFFICES ASSUME IInv, [Next]_vars PROVE IInv'
  OBVIOUS
<1>1. ASSUME NEW c \in Calls, CallStep(c) PROVE IInv'
  BY <1>1, CallStepInv
<1>2. ASSUME NEW c \in Calls, NEW cmd \in Issued, Start(c, cmd) PROVE IInv'
  BY <1>2, StartInv
<1>3. ASSUME NEW has \in BOOLEAN, Reconcile(has) PROVE IInv'
  BY <1>3, ReconcileInv
<1>4. ASSUME NEW w \in Workers, ActorStep(w) PROVE IInv'
  BY <1>4, ActorTakeInv, ActorWriteInv, ActorReadInv, ActorEofInv, ActorTimeoutInv, ActorShutdownInv
     DEF ActorStep
<1>5. ASSUME NEW w \in Workers, Handle(w) PROVE IInv'
  BY <1>5, HandleInv
<1>6. ASSUME NEW w \in Workers, WorkerCrash(w) PROVE IInv'
  BY <1>6, WorkerCrashInv
<1>7. CASE UNCHANGED vars
  <2> USE <1>7 DEF vars, app, bounds, worker, pipe, history
  <2>1. TypeOK'
    <3>1. Types'
      <4>1. AppTypes /\ WorkerTypes /\ call' \in [Calls -> {None} \cup Call]
        BY TypesApart DEF IInv, TypeOK, Types
      <4>2. WorkerTypes'
        BY <4>1 DEF WorkerTypes
      <4>3. QED
        BY <4>1, <4>2, AppTypesStay, TypesTogether
    <3>2. InLine'
      BY InLineStays DEF IInv, TypeOK
    <3>3. QED
      BY <3>1, <3>2 DEF TypeOK
  <2>2. (\A c \in Calls : Shape(c)') /\ LifeInv'
    BY DEF IInv, Shape, LifeInv, Ok
  <2>3. LockInv'
    BY DEF IInv, LockInv, At, Running
  <2>4. (\A w \in Workers : InTurn(w)') /\ Quiet'
    BY DEF IInv, InTurn, Reading, Quiet
  <2>5. KeyInv'
    BY DEF IInv, KeyInv, Said, Ok, Reading, Sound
  <2>6. QED
    BY <2>1, <2>2, <2>3, <2>4, <2>5 DEF IInv
<1>8. QED
  BY <1>1, <1>2, <1>3, <1>4, <1>5, <1>6, <1>7 DEF Next

LEMMA InductiveInvariant == Spec => []IInv
BY InitInv, StepInv, PTL DEF Spec

(* Every variable keeps its type, an actor serves one call of its own worker,  *)
(* and whoever waits for it stands in its queue exactly once.                  *)
THEOREM TypeCorrect == Spec => []TypeOK
<1>1. IInv => TypeOK
  BY DEF IInv
<1>2. QED
  BY <1>1, InductiveInvariant, PTL

(* worker_init and worker_destroy never leave the life cycle in a state of     *)
(* transition when they have returned, whatever ran beside them.               *)
THEOREM NeverStuck == Spec => []LifecycleNotStuck
<1>1. IInv => LifecycleNotStuck
  BY DEF IInv, LifeInv, LifecycleNotStuck, Running
<1>2. QED
  BY <1>1, InductiveInvariant, PTL

(* What a verthys_lock that returned has locked stays locked until an unlock   *)
(* is issued: no answer that was under way brings the key or the guard back.   *)
THEOREM LockStays == Spec => []LockedStaysLocked
<1>1. IInv => LockedStaysLocked
  BY DEF IInv, LockInv, LockedStaysLocked
<1>2. QED
  BY <1>1, InductiveInvariant, PTL

(* As long as one key command is in progress at a time, a key that counts as   *)
(* unlocked is in the memory of the worker that verified it, if that worker    *)
(* lives and no request of it ever timed out.                                  *)
THEOREM UnlockedIsTrue == Spec => []KeyStateTrue
<1>1. ASSUME IInv, key = "Unlocked", ~crossed, ~Running(KeyCommands), verified \notin slow,
             proc[verified] = "alive"
      PROVE  gmk[verified]
  <2>1. Sound(verified)
    BY <1>1 DEF Sound
  <2>2. \A c \in Calls : call[c] # None => call[c].cmd \notin {"clear", "reset"}
    BY <1>1 DEF Running, KeyCommands
  <2>3. QED
    BY <1>1, <2>1, <2>2 DEF IInv, KeyInv
<1>2. IInv => KeyStateTrue
  BY <1>1 DEF KeyStateTrue
<1>3. QED
  BY <1>2, InductiveInvariant, PTL

===============================================================================
