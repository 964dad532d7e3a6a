---------------------------- MODULE SecurityProofs ----------------------------
(* Theorems about the two guards of the desktop application: the protection    *)
(* against screen capture (PrivacyMode), for any number of threads, windows,   *)
(* transitions and faults, and the guard in front of passwords (UnlockGate),   *)
(* for any thresholds and times and any number of commands, restarts and       *)
(* faults.  The two share no state; each has its own specification.            *)
EXTENDS PrivacyMode, UnlockGate, TLAPS

NextOK == next \in [gen : Nat \ {0}, lease : Nat \ {0}, id : Nat]

-----------------------------------------------------------------------------
(* Types.                                                                    *)

(* What a thread knows at each point of its work: a roll-back has read what it *)
(* restores, a turning-off has presented the token its lease belongs to.       *)
Proper == {j \in Jobs :
    /\ j.pc = "idle" => j.kind = "transition"
    /\ j.pc = "rollback" => j.kind # "reconcile"
    /\ j.pc \in {"apply", "rollback"} /\ j.kind # "reconcile" =>
          \A w \in Windows : j.snap[w] # "unread"
    /\ j.pc = "snapshot" => j.applied = {}
    /\ j.pc = "done" => /\ j.result # "none"
                        /\ j.result = "ok" => j.applied = Windows
                        /\ j.result = "failed" /\ j.kind # "reconcile" => j.applied = {}
    /\ j.kind = "startup" => j.on
    /\ j.pc # "idle" /\ j.kind = "transition" =>
          IF j.on THEN j.lease = 0 ELSE j.lease # 0 /\ j.gen = j.token}

Modes == [kind : {"disabled", "enabled", "transitioning", "quarantined"},
          previous : Stable, reason : Reasons, id : 0..next.id, gen : 0..(next.gen - 1)]
Slots == [kind : {"empty", "pending", "active"}, gen : 0..(next.gen - 1),
          lease : 0..(next.lease - 1)]

CoordinatorOK == state \in Modes /\ slot \in Slots /\ NextOK
                   /\ reconciling \in BOOLEAN /\ started \in BOOLEAN
WindowsOK == shield \in [Windows -> Values] /\ stray \subseteq Windows /\ faults \in Nat

Typed == CoordinatorOK /\ WindowsOK /\ task \in [Tasks -> Proper]

LEMMA TypedTypes == Typed => TypeOK
  BY DEF Typed, TypeOK, CoordinatorOK, WindowsOK, Modes, Slots, NextOK, Proper

\* The numbers a task may carry only become more.
LEMMA JobsGrow ==
    ASSUME NextOK, NextOK',
           next'.gen >= next.gen, next'.lease >= next.lease, next'.id >= next.id
    PROVE  Proper \subseteq Proper'
<1>1. /\ 0..next.id \subseteq 0..next'.id
      /\ 0..(next.lease - 1) \subseteq 0..(next'.lease - 1)
      /\ 0..(next.gen - 1) \subseteq 0..(next'.gen - 1)
  BY DEF NextOK
<1>2. Jobs \subseteq Jobs'
  BY <1>1 DEF Jobs
<1>3. QED
  BY <1>2 DEF Proper

LEMMA IdleIsProper == NextOK => Idle \in Proper
<1> SUFFICES ASSUME NextOK PROVE Idle \in Proper
  OBVIOUS
<1>1. Idle \in Jobs
  BY BoundsAreNat DEF NextOK, Idle, Jobs
<1>2. QED
  BY <1>1 DEF Idle, Proper

\* What a section hands to a thread.
LEMMA WorkProper ==
    ASSUME NextOK', NEW k \in {"transition", "startup"}, NEW on \in BOOLEAN,
           NEW i \in 0..next'.id, NEW l \in 0..(next'.lease - 1), NEW g \in 0..(next'.gen - 1),
           NEW tok \in 0..MaxGen,
           k = "startup" => on,
           k = "transition" => IF on THEN l = 0 ELSE l # 0 /\ g = tok
    PROVE  Work(k, on, i, l, g, tok) \in Proper'
<1>1. Work(k, on, i, l, g, tok) \in Jobs'
  BY BoundsAreNat DEF NextOK, Idle, Work, Jobs
<1>2. QED
  BY <1>1 DEF Idle, Work, Proper

LEMMA TypeInit == Init => Typed
<1> SUFFICES ASSUME Init PROVE Typed
  OBVIOUS
<1>1. NextOK /\ next = [gen |-> 1, lease |-> 1, id |-> 0]
  BY DEF Init, NextOK
<1>2. task \in [Tasks -> Proper]
  BY <1>1, IdleIsProper DEF Init
<1>3. state \in Modes
  BY <1>1 DEF Init, Disabled, Mode, Modes, Stable, Reasons
<1>4. slot \in Slots
  BY <1>1 DEF Init, Empty, Slots
<1>5. WindowsOK
  BY DEF Init, WindowsOK, Values
<1>6. QED
  BY <1>1, <1>2, <1>3, <1>4, <1>5 DEF Init, Typed, CoordinatorOK

\* A system call changes one task, some windows and the count of faults.
LEMMA CallTypes ==
    ASSUME Typed, NEW t \in Tasks, NEW j \in Proper, task' = [task EXCEPT ![t] = j],
           UNCHANGED coordinator, WindowsOK'
    PROVE  Typed'
<1>1. Jobs' = Jobs /\ Modes' = Modes /\ Slots' = Slots
  BY DEF coordinator, Jobs, Modes, Slots
<1>2. Proper' = Proper
  BY <1>1 DEF Proper
<1>3. CoordinatorOK'
  BY <1>1 DEF Typed, CoordinatorOK, coordinator, NextOK
<1>4. task' \in [Tasks -> Proper']
  BY <1>2 DEF Typed
<1>5. QED
  BY <1>3, <1>4 DEF Typed

LEMMA SystemCallTypes ==
    ASSUME Typed, NEW t \in Tasks, SystemCall(t)
    PROVE  Typed'
<1>1. WindowsOK /\ task[t] \in Proper /\ task[t] \in Jobs
  BY DEF Typed, Proper
<1> USE <1>1 DEF Becomes, Faulty, GiveUp
<1>2. CASE ReadFails(t)
  <2>1. [task[t] EXCEPT !.pc = "done", !.result = "failed"] \in Jobs
    BY DEF Jobs
  <2>2. [task[t] EXCEPT !.pc = "done", !.result = "failed"] \in Proper
    BY <1>2, <2>1 DEF Proper, Jobs, ReadFails
  <2>3. WindowsOK'
    BY <1>2 DEF ReadFails, WindowsOK
  <2>4. QED
    BY <1>2, <2>2, <2>3, CallTypes DEF ReadFails
<1>3. ASSUME NEW w \in Windows, ReadWindow(t, w) PROVE Typed'
  <2> DEFINE snap == [task[t].snap EXCEPT ![w] = shield[w]]
             j == [task[t] EXCEPT
                      !.snap = snap,
                      !.was = IF w \in stray THEN @ \cup {w} ELSE @,
                      !.pc = IF \A v \in Windows : snap[v] # "unread" THEN "apply" ELSE "snapshot"]
  <2>1. snap \in [Windows -> Values \cup {"unread"}]
    BY DEF Jobs, WindowsOK
  <2>2. j \in Jobs
    BY <2>1 DEF Jobs
  <2>3. j \in Proper
    <3>1. task[t].pc = "snapshot"
      BY <1>3 DEF ReadWindow
    <3>2. /\ j.pc = (IF \A v \in Windows : snap[v] # "unread" THEN "apply" ELSE "snapshot")
          /\ j.snap = snap /\ j.applied = task[t].applied /\ j.kind = task[t].kind
          /\ j.on = task[t].on /\ j.lease = task[t].lease /\ j.gen = task[t].gen
          /\ j.token = task[t].token /\ j.result = task[t].result
      BY DEF Jobs
    <3> HIDE DEF j, snap
    <3>3. QED
      BY <2>2, <3>1, <3>2 DEF Proper
  <2>4. task' = [task EXCEPT ![t] = j] /\ UNCHANGED <<coordinator, shield, faults, stray>>
    BY <1>3 DEF ReadWindow
  <2>5. WindowsOK'
    BY <2>4 DEF WindowsOK
  <2>6. QED
    BY <2>3, <2>4, <2>5, CallTypes
<1>4. ASSUME NEW w \in Windows, SetWindow(t, w) PROVE Typed'
  <2> DEFINE applied == task[t].applied \cup {w}
             j == [task[t] EXCEPT
                      !.applied = applied,
                      !.pc = IF applied = Windows THEN "done" ELSE "apply",
                      !.result = IF applied = Windows THEN "ok" ELSE "none"]
  <2>1. j \in Jobs
    BY DEF Jobs
  <2>2. j \in Proper
    <3>1. task[t].pc = "apply"
      BY <1>4 DEF SetWindow
    <3>2. /\ j.pc = (IF applied = Windows THEN "done" ELSE "apply")
          /\ j.result = (IF applied = Windows THEN "ok" ELSE "none")
          /\ j.snap = task[t].snap /\ j.applied = applied /\ j.kind = task[t].kind
          /\ j.on = task[t].on /\ j.lease = task[t].lease /\ j.gen = task[t].gen
          /\ j.token = task[t].token
      BY DEF Jobs
    <3> HIDE DEF j, applied
    <3>3. QED
      BY <2>1, <3>1, <3>2 DEF Proper
  <2>3. task' = [task EXCEPT ![t] = j] /\ UNCHANGED <<coordinator, faults>>
    BY <1>4 DEF SetWindow
  <2>4. WindowsOK'
    BY <1>4 DEF SetWindow, Target, Values, WindowsOK
  <2>5. QED
    BY <2>2, <2>3, <2>4, CallTypes
<1>5. ASSUME NEW w \in Windows, SetRefused(t, w) \/ SetUnconfirmed(t, w) PROVE Typed'
  <2> DEFINE j == IF task[t].kind = "reconcile" \/ task[t].applied = {}
                  THEN [task[t] EXCEPT !.pc = "done", !.result = "failed"]
                  ELSE [task[t] EXCEPT !.pc = "rollback"]
  <2>1. j \in Jobs
    BY DEF Jobs
  <2>2. j \in Proper
    <3>1. task[t].pc = "apply"
      BY <1>5 DEF SetRefused, SetUnconfirmed
    <3>2. CASE task[t].kind = "reconcile" \/ task[t].applied = {}
      <4>1. j = [task[t] EXCEPT !.pc = "done", !.result = "failed"]
        BY <3>2
      <4>2. QED
        BY <2>1, <3>1, <3>2, <4>1 DEF Proper, Jobs
    <3>3. CASE ~(task[t].kind = "reconcile" \/ task[t].applied = {})
      <4>1. j = [task[t] EXCEPT !.pc = "rollback"]
        BY <3>3
      <4>2. QED
        BY <2>1, <3>1, <3>3, <4>1 DEF Proper, Jobs
    <3>4. QED
      BY <3>2, <3>3
  <2>3. task' = [task EXCEPT ![t] = j] /\ UNCHANGED coordinator
    BY <1>5 DEF SetRefused, SetUnconfirmed
  <2>4. WindowsOK'
    BY <1>5 DEF SetRefused, SetUnconfirmed, Target, Values, WindowsOK
  <2>5. QED
    BY <2>2, <2>3, <2>4, CallTypes
<1>6. ASSUME NEW w \in Windows,
             RestoreWindow(t, w) \/ (\E set \in BOOLEAN : RestoreFails(t, w, set))
      PROVE  Typed'
  <2>1. PICK left \in SUBSET Windows : RolledBack(t, w, left)
    <3>1. task[t].left \in SUBSET Windows
      BY DEF Jobs
    <3>2. CASE RestoreWindow(t, w)
      BY <3>1, <3>2 DEF RestoreWindow
    <3>3. ASSUME NEW set \in BOOLEAN, RestoreFails(t, w, set)
          PROVE  \E left \in SUBSET Windows : RolledBack(t, w, left)
      <4>1. RolledBack(t, w, task[t].left \cup {w})
        BY <3>3 DEF RestoreFails
      <4>2. QED
        BY <3>1, <4>1
    <3>4. QED
      BY <1>6, <3>2, <3>3
  <2> DEFINE applied == task[t].applied \ {w}
             j == [task[t] EXCEPT
                      !.applied = applied,
                      !.left = left,
                      !.pc = IF applied = {} THEN "done" ELSE "rollback",
                      !.result = IF applied # {} THEN "none"
                                 ELSE IF left = {} THEN "failed" ELSE "stuck"]
  <2>2. j \in Jobs
    BY DEF Jobs
  <2>3. task[t].pc = "rollback" /\ UNCHANGED coordinator
    BY <1>6 DEF RestoreWindow, RestoreFails
  <2>4. j \in Proper
    <3>1. /\ j.pc = (IF applied = {} THEN "done" ELSE "rollback")
          /\ applied = {} => j.result \in {"failed", "stuck"}
          /\ j.snap = task[t].snap /\ j.applied = applied /\ j.kind = task[t].kind
          /\ j.on = task[t].on /\ j.lease = task[t].lease /\ j.gen = task[t].gen
          /\ j.token = task[t].token
      BY DEF Jobs
    <3> HIDE DEF j, applied
    <3>2. QED
      BY <2>2, <2>3, <3>1 DEF Proper
  <2>5. task' = [task EXCEPT ![t] = j]
    BY <2>1 DEF RolledBack
  <2>6. task[t].snap[w] \in Values
    BY <2>3 DEF Proper, Jobs
  <2>7. WindowsOK'
    <3>1. CASE RestoreWindow(t, w)
      BY <2>6, <3>1 DEF RestoreWindow, WindowsOK
    <3>2. ASSUME NEW set \in BOOLEAN, RestoreFails(t, w, set) PROVE WindowsOK'
      BY <2>6, <3>2 DEF RestoreFails, WindowsOK
    <3>3. QED
      BY <1>6, <3>1, <3>2
  <2>8. QED
    BY <2>3, <2>4, <2>5, <2>7, CallTypes
<1>7. QED
  BY <1>2, <1>3, <1>4, <1>5, <1>6 DEF SystemCall

\* The sections under the lock: all numbers in use stay below their counters.
LEMMA NumbersGrow ==
    ASSUME NextOK, NextOK',
           next'.gen >= next.gen, next'.lease >= next.lease, next'.id >= next.id
    PROVE  Modes \subseteq Modes' /\ Slots \subseteq Slots'
<1>1. /\ 0..next.id \subseteq 0..next'.id
      /\ 0..(next.lease - 1) \subseteq 0..(next'.lease - 1)
      /\ 0..(next.gen - 1) \subseteq 0..(next'.gen - 1)
  BY DEF NextOK
<1>2. QED
  BY <1>1 DEF Modes, Slots

LEMMA SectionTypesBy ==
    ASSUME Typed, NextOK',
           next'.gen >= next.gen, next'.lease >= next.lease, next'.id >= next.id,
           state' \in Modes', slot' \in Slots',
           reconciling' \in BOOLEAN, started' \in BOOLEAN,
           UNCHANGED <<shield, faults, stray>>,
           task' = task \/ \E t \in Tasks : \E j \in Proper' : task' = [task EXCEPT ![t] = j]
    PROVE  Typed'
<1>1. Proper \subseteq Proper'
  BY JobsGrow DEF Typed, CoordinatorOK
<1>2. task' \in [Tasks -> Proper']
  BY <1>1 DEF Typed
<1>3. WindowsOK'
  BY DEF Typed, WindowsOK
<1>4. QED
  BY <1>2, <1>3 DEF Typed, CoordinatorOK

LEMMA QuarantineIsMode ==
    ASSUME NextOK, NEW p \in Stable, NEW r \in Reasons
    PROVE  Quarantined(p, r) \in Modes
  BY DEF NextOK, Quarantined, Mode, Modes

\* Steps that change the mode alone, to a quarantine.
LEMMA QuarantineTypes ==
    ASSUME Typed, NEW p \in Stable, NEW r \in Reasons, state' = Quarantined(p, r),
           UNCHANGED <<slot, next, reconciling, started, shield, task, faults, stray>>
    PROVE  Typed'
<1>1. NextOK' /\ NextOK /\ Modes' = Modes /\ Slots' = Slots
  BY DEF Typed, CoordinatorOK, NextOK, Modes, Slots
<1>2. state' \in Modes' /\ slot' \in Slots'
  BY <1>1, QuarantineIsMode DEF Typed, CoordinatorOK
<1>3. next'.gen >= next.gen /\ next'.lease >= next.lease /\ next'.id >= next.id
  BY <1>1 DEF NextOK
<1>4. QED
  BY <1>1, <1>2, <1>3, SectionTypesBy DEF Typed, CoordinatorOK

LEMMA ReapTypes == ASSUME Typed, Reap PROVE Typed'
<1>1. state.previous \in Stable /\ "stuck_in_transition" \in Reasons
  BY DEF Typed, CoordinatorOK, Modes, Reasons
<1>2. QED
  BY <1>1, QuarantineTypes DEF Reap

LEMMA StartTypes ==
    ASSUME Typed, NEW t \in Tasks,
           StartEnable(t) \/ \E token \in 1..MaxGen : StartDisable(t, token)
    PROVE  Typed'
<1>1. "disabled" \in Stable /\ "token_invariant_violation" \in Reasons /\ NextOK
      /\ state \in Modes /\ slot \in Slots /\ "enabled" \in Stable
  BY DEF Stable, Reasons, Typed, CoordinatorOK
<1>2. CASE ~Consistent
  BY <1>1, <1>2, QuarantineTypes DEF StartEnable, StartDisable, Enforce
<1>3. CASE Consistent /\ StartEnable(t)
  <2>1. /\ next' = [next EXCEPT !.id = @ + 1]
        /\ state' = Transitioning(next.id + 1, "disabled")
        /\ task' = [task EXCEPT ![t] = Work("transition", TRUE, next.id + 1, 0, 0, 0)]
        /\ UNCHANGED <<slot, reconciling, started, shield, faults, stray>>
    BY <1>3 DEF StartEnable, Enforce
  <2>2. /\ NextOK' /\ next'.gen = next.gen /\ next'.lease = next.lease
        /\ next'.id = next.id + 1
    BY <1>1, <2>1 DEF NextOK
  <2>3. slot' \in Slots'
    BY <1>1, <2>1, <2>2 DEF Slots
  <2>4. state' \in Modes'
    BY <1>1, <2>1, <2>2 DEF Modes, Transitioning, Mode, Reasons, NextOK
  <2>5. Work("transition", TRUE, next.id + 1, 0, 0, 0) \in Proper'
    <3>1. /\ next.id + 1 \in 0..next'.id /\ 0 \in 0..(next'.lease - 1)
          /\ 0 \in 0..(next'.gen - 1) /\ 0 \in 0..MaxGen
      BY <1>1, <2>2, BoundsAreNat DEF NextOK
    <3>2. QED
      BY <2>2, <3>1, WorkProper
  <2>6. next'.gen >= next.gen /\ next'.lease >= next.lease /\ next'.id >= next.id
    BY <1>1, <2>2 DEF NextOK
  <2>7. reconciling' \in BOOLEAN /\ started' \in BOOLEAN
    BY <2>1 DEF Typed, CoordinatorOK
  <2>8. QED
    BY <2>1, <2>2, <2>3, <2>4, <2>5, <2>6, <2>7, SectionTypesBy
<1>4. ASSUME Consistent, NEW token \in 1..MaxGen, StartDisable(t, token) PROVE Typed'
  <2>1. /\ next' = [next EXCEPT !.id = @ + 1, !.lease = @ + 1]
        /\ state' = Transitioning(next.id + 1, "enabled")
        /\ slot' = [slot EXCEPT !.lease = next.lease]
        /\ task' = [task EXCEPT ![t] = Work("transition", FALSE, next.id + 1,
                                            next.lease, slot.gen, token)]
        /\ UNCHANGED <<reconciling, started, shield, faults, stray>>
        /\ slot.gen = token
    BY <1>4 DEF StartDisable, Enforce, Verified
  <2>2. /\ NextOK' /\ next'.gen = next.gen /\ next'.lease = next.lease + 1
        /\ next'.id = next.id + 1
    <3>1. next' = [gen |-> next.gen, lease |-> next.lease + 1, id |-> next.id + 1]
      BY <1>1, <2>1 DEF NextOK
    <3>2. next.lease + 1 \in Nat \ {0} /\ next.id + 1 \in Nat /\ next.gen \in Nat \ {0}
      BY <1>1 DEF NextOK
    <3>3. QED
      BY <3>1, <3>2 DEF NextOK
  <2>3. slot' \in Slots'
    BY <1>1, <2>1, <2>2 DEF Slots, NextOK
  <2>4. state' \in Modes'
    BY <1>1, <2>1, <2>2 DEF Modes, Transitioning, Mode, Reasons, NextOK
  <2>5. Work("transition", FALSE, next.id + 1, next.lease, slot.gen, token) \in Proper'
    <3>1. /\ next.id + 1 \in 0..next'.id /\ next.lease \in 0..(next'.lease - 1)
          /\ slot.gen \in 0..(next'.gen - 1) /\ token \in 0..MaxGen /\ next.lease # 0
      BY <1>1, <1>4, <2>2, BoundsAreNat DEF NextOK, Slots
    <3>2. QED
      BY <2>1, <2>2, <3>1, WorkProper
  <2>6. next'.gen >= next.gen /\ next'.lease >= next.lease /\ next'.id >= next.id
    BY <1>1, <2>2 DEF NextOK
  <2>7. reconciling' \in BOOLEAN /\ started' \in BOOLEAN
    BY <2>1 DEF Typed, CoordinatorOK
  <2>8. QED
    BY <2>1, <2>2, <2>3, <2>4, <2>5, <2>6, <2>7, SectionTypesBy
<1>5. QED
  BY <1>2, <1>3, <1>4

LEMMA EnabledIsMode ==
    ASSUME NextOK', NEW g \in 0..(next'.gen - 1)
    PROVE  Enabled(g) \in Modes'
  BY DEF NextOK, Enabled, Mode, Modes, Stable, Reasons

LEMMA DisabledIsMode == ASSUME NextOK' PROVE Disabled \in Modes'
  BY DEF NextOK, Disabled, Mode, Modes, Stable, Reasons

\* A new generation, whatever the step makes of it.
LEMMA NewGeneration ==
    ASSUME NextOK, next' = [next EXCEPT !.gen = @ + 1]
    PROVE  /\ NextOK' /\ next'.lease = next.lease /\ next'.id = next.id
           /\ next'.gen = next.gen + 1 /\ next.gen \in 0..(next'.gen - 1)
           /\ Active(next.gen, 0) \in Slots' /\ Pending(next.gen) \in Slots'
           /\ Enabled(next.gen) \in Modes'
<1>1. /\ NextOK' /\ next'.lease = next.lease /\ next'.id = next.id
      /\ next'.gen = next.gen + 1 /\ next.gen \in 0..(next'.gen - 1)
  BY DEF NextOK
<1>2. Active(next.gen, 0) \in Slots' /\ Pending(next.gen) \in Slots'
  BY <1>1 DEF Active, Pending, Slots, NextOK
<1>3. QED
  BY <1>1, <1>2, EnabledIsMode

\* Steps that end a task, or start one, without a new number.
LEMMA SameNumbers ==
    ASSUME Typed, NextOK, next' = next, state' \in Modes, slot' \in Slots,
           reconciling' \in BOOLEAN, started' \in BOOLEAN,
           UNCHANGED <<shield, faults, stray>>,
           task' = task \/ \E t \in Tasks : \E j \in Proper : task' = [task EXCEPT ![t] = j]
    PROVE  Typed'
<1>1. NextOK' /\ Modes' = Modes /\ Slots' = Slots /\ Jobs' = Jobs
  BY DEF NextOK, Modes, Slots, Jobs
<1>2. Proper' = Proper
  BY <1>1 DEF Proper
<1>3. next'.gen >= next.gen /\ next'.lease >= next.lease /\ next'.id >= next.id
  BY DEF NextOK
<1>4. QED
  BY <1>1, <1>2, <1>3, SectionTypesBy

\* Steps that use up a generation.
LEMMA NextGeneration ==
    ASSUME Typed, next' = [next EXCEPT !.gen = @ + 1], state' \in Modes', slot' \in Slots',
           reconciling' \in BOOLEAN, started' \in BOOLEAN,
           UNCHANGED <<shield, faults, stray>>,
           task' = task \/ \E t \in Tasks : Ends(t)
    PROVE  Typed'
<1>1. NextOK /\ NextOK' /\ next'.lease = next.lease /\ next'.id = next.id
      /\ next'.gen = next.gen + 1
  BY NewGeneration DEF Typed, CoordinatorOK
<1>2. next'.gen >= next.gen /\ next'.lease >= next.lease /\ next'.id >= next.id
  BY <1>1 DEF NextOK
<1>3. Idle \in Proper'
  BY <1>1, <1>2, IdleIsProper, JobsGrow
<1>4. QED
  BY <1>1, <1>2, <1>3, SectionTypesBy DEF Ends

LEMMA ReleaseTypes == ASSUME slot \in Slots, NextOK, NEW t, Release(t) PROVE slot' \in Slots
  BY DEF Release, Slots, NextOK

LEMMA FinishTypes ==
    ASSUME Typed, NEW t \in Tasks,
           \/ FinishSuperseded(t) \/ FinishEnabled(t) \/ FinishDisabled(t)
           \/ FinishRestored(t) \/ FinishStuck(t)
    PROVE  Typed'
<1>1. /\ NextOK /\ state \in Modes /\ slot \in Slots /\ Idle \in Proper
      /\ reconciling \in BOOLEAN /\ started \in BOOLEAN /\ state.previous \in Stable
  BY IdleIsProper DEF Typed, CoordinatorOK, Modes
<1>2. \A r \in Reasons : Quarantined(state.previous, r) \in Modes
  BY <1>1, QuarantineIsMode
<1>3. "token_invariant_violation" \in Reasons /\ "rollback_failed" \in Reasons
  BY DEF Reasons
<1>4. Disabled \in Modes /\ Empty \in Slots /\ Enabled(slot.gen) \in Modes
  <2>1. slot.gen \in 0..(next.gen - 1)
    BY <1>1 DEF Slots
  <2>2. QED
    BY <1>1, <2>1 DEF Disabled, Enabled, Mode, Modes, Stable, Reasons, Empty, Slots, NextOK
<1>5. CASE FinishSuperseded(t)
  BY <1>1, <1>5, ReleaseTypes, SameNumbers DEF FinishSuperseded, Ends
<1>6. CASE FinishEnabled(t) /\ slot.kind = "empty"
  <2>1. /\ slot' = Active(next.gen, 0) /\ next' = [next EXCEPT !.gen = @ + 1]
        /\ state' = Enabled(next.gen) /\ Ends(t)
        /\ UNCHANGED <<reconciling, started, shield, faults, stray>>
    BY <1>6 DEF FinishEnabled
  <2>2. QED
    BY <1>1, <2>1, NewGeneration, NextGeneration
<1>7. CASE FinishEnabled(t) /\ slot.kind # "empty"
  BY <1>1, <1>2, <1>3, <1>7, SameNumbers DEF FinishEnabled, Ends
<1>8. CASE FinishDisabled(t)
  BY <1>1, <1>2, <1>3, <1>4, <1>8, SameNumbers DEF FinishDisabled, Ends
<1>9. CASE FinishRestored(t)
  BY <1>1, <1>4, <1>9, ReleaseTypes, SameNumbers DEF FinishRestored, Ends
<1>10. CASE FinishStuck(t)
  BY <1>1, <1>2, <1>3, <1>10, SameNumbers DEF FinishStuck, Ends
<1>11. QED
  BY <1>5, <1>6, <1>7, <1>8, <1>9, <1>10

LEMMA OtherTypes ==
    ASSUME Typed, NEW t \in Tasks,
           \/ StartUp(t) \/ StartUpEnds(t) \/ StartReconcile(t) \/ ReconcileEnds(t)
    PROVE  Typed'
<1>1. /\ NextOK /\ state \in Modes /\ slot \in Slots /\ Idle \in Proper
      /\ reconciling \in BOOLEAN /\ started \in BOOLEAN /\ state.previous \in Stable
  BY IdleIsProper DEF Typed, CoordinatorOK, Modes
<1>2. \A p \in Stable : \A r \in Reasons : Quarantined(p, r) \in Modes
  BY <1>1, QuarantineIsMode
<1>3. /\ "token_invariant_violation" \in Reasons /\ "rollback_failed" \in Reasons
      /\ "reconcile_failed" \in Reasons /\ "enabled" \in Stable /\ "disabled" \in Stable
  BY DEF Reasons, Stable
<1>4. Disabled \in Modes /\ Empty \in Slots
  BY <1>1 DEF Disabled, Mode, Modes, Stable, Reasons, Empty, Slots, NextOK
<1>5. CASE StartUp(t)
  <2>1. Work("startup", TRUE, 0, 0, 0, 0) \in Proper
    <3>1. Idle \in Jobs /\ 0 \in 0..next.id /\ 0 \in 0..(next.lease - 1)
          /\ 0 \in 0..(next.gen - 1) /\ 0 \in 0..MaxGen
      BY <1>1, BoundsAreNat DEF NextOK, Proper
    <3>2. Work("startup", TRUE, 0, 0, 0, 0) \in Jobs
      BY <3>1 DEF Idle, Work, Jobs
    <3>3. QED
      BY <3>2 DEF Idle, Work, Proper
  <2>2. QED
    BY <1>1, <1>5, <2>1, SameNumbers DEF StartUp, Becomes
<1>6. CASE StartUpEnds(t) /\ task[t].result = "ok"
  <2>1. /\ slot' = Pending(next.gen) /\ next' = [next EXCEPT !.gen = @ + 1]
        /\ state' = Enabled(next.gen) /\ Ends(t)
        /\ UNCHANGED <<reconciling, started, shield, faults, stray>>
    BY <1>6 DEF StartUpEnds
  <2>2. QED
    BY <1>1, <2>1, NewGeneration, NextGeneration
<1>7. CASE StartUpEnds(t) /\ task[t].result # "ok"
  BY <1>1, <1>2, <1>3, <1>7, SameNumbers DEF StartUpEnds, Ends
<1>10. CASE StartReconcile(t)
  <2> DEFINE j == [Idle EXCEPT !.pc = "apply", !.kind = "reconcile",
                               !.on = (state.previous = "enabled")]
  <2>1. j \in Jobs
    BY <1>1 DEF Proper, Idle, Jobs
  <2>2. j \in Proper
    BY <2>1 DEF Proper, Idle
  <2>3. QED
    BY <1>1, <1>10, <2>2, SameNumbers DEF StartReconcile, Becomes
<1>11. CASE ReconcileEnds(t) /\ task[t].result = "ok" /\ task[t].on
  <2>1. /\ slot' = Pending(next.gen) /\ next' = [next EXCEPT !.gen = @ + 1]
        /\ state' = Enabled(next.gen) /\ Ends(t) /\ reconciling' = FALSE
        /\ UNCHANGED <<started, shield, faults, stray>>
    BY <1>11 DEF ReconcileEnds
  <2>2. QED
    BY <1>1, <2>1, NewGeneration, NextGeneration
<1>12. CASE ReconcileEnds(t) /\ task[t].result = "ok" /\ ~task[t].on
  BY <1>1, <1>4, <1>12, SameNumbers DEF ReconcileEnds, Ends
<1>13. CASE ReconcileEnds(t) /\ task[t].result # "ok"
  <2>1. [state EXCEPT !.reason = "reconcile_failed"] \in Modes
    BY <1>1, <1>3 DEF Modes
  <2>2. QED
    BY <1>1, <1>13, <2>1, SameNumbers DEF ReconcileEnds, Ends
<1>14. QED
  BY <1>5, <1>6, <1>7, <1>10, <1>11, <1>12, <1>13

LEMMA AdoptTypes == ASSUME Typed, Adopt PROVE Typed'
<1>1. /\ NextOK /\ state \in Modes /\ slot \in Slots
      /\ reconciling \in BOOLEAN /\ started \in BOOLEAN
  BY DEF Typed, CoordinatorOK
<1>3. "token_invariant_violation" \in Reasons /\ "disabled" \in Stable
  BY DEF Reasons, Stable
<1>2. CASE Adopt /\ Consistent
  <2>1. /\ slot' = Active(next.gen, 0) /\ next' = [next EXCEPT !.gen = @ + 1]
        /\ state' = (IF state.kind = "enabled" THEN Enabled(next.gen) ELSE state)
        /\ UNCHANGED <<reconciling, started, shield, task, faults, stray>>
    BY <1>2 DEF Adopt, Enforce
  <2>2. next'.gen >= next.gen /\ next'.lease >= next.lease /\ next'.id >= next.id
    BY <1>1, <2>1, NewGeneration DEF NextOK
  <2>3. state' \in Modes'
    BY <1>1, <2>1, <2>2, NewGeneration, NumbersGrow
  <2>4. QED
    BY <1>1, <2>1, <2>3, NewGeneration, NextGeneration
<1>4. CASE Adopt /\ ~Consistent
  BY <1>1, <1>3, <1>4, QuarantineTypes DEF Adopt, Enforce
<1>5. QED
  BY <1>2, <1>4

LEMMA TypeNext == Typed /\ [Next]_vars => Typed'
<1> SUFFICES ASSUME Typed, [Next]_vars PROVE Typed'
  OBVIOUS
<1>1. CASE UNCHANGED vars
  BY <1>1, SameNumbers DEF vars, Typed, CoordinatorOK
<1>2. CASE Reap
  BY <1>2, ReapTypes
<1>3. CASE Adopt
  BY <1>3, AdoptTypes
<1>4. ASSUME NEW t \in Tasks, Section(t) PROVE Typed'
  BY <1>4, StartTypes, FinishTypes, OtherTypes DEF Section
<1>5. ASSUME NEW t \in Tasks, SystemCall(t) PROVE Typed'
  BY <1>5, SystemCallTypes
<1>6. QED
  BY <1>1, <1>2, <1>3, <1>4, <1>5 DEF Next

-----------------------------------------------------------------------------
(* The slot and the mode.                                                    *)

Running(t) == task[t].kind = "transition" /\ task[t].pc # "idle"

(* The transition the state waits for goes the way the state says, and a       *)
(* turning-off still has its lease.                                            *)
CurrentOwns ==
    \A t \in Tasks : Running(t) /\ IsCurrent(t) =>
        /\ task[t].on <=> state.previous = "disabled"
        /\ ~task[t].on => Holds(t)

(* Nobody else has that lease, however late a given-up task comes back.        *)
LeaseIsOwn ==
    \A t \in Tasks :
        Running(t) /\ state.kind = "transitioning" /\ Holds(t) => IsCurrent(t)

IdsAreUnique ==
    \A t, u \in Tasks : Running(t) /\ Running(u) /\ task[t].id = task[u].id => t = u

StartUpAlone ==
    \A t \in Tasks : task[t].kind = "startup" =>
        /\ state.kind = "disabled"
        /\ \A u \in Tasks : task[u].kind = "startup" => u = t

ReconcileAlone ==
    \A t \in Tasks : task[t].kind = "reconcile" =>
        /\ reconciling /\ state.kind = "quarantined"
        /\ task[t].on <=> state.previous = "enabled"
        /\ \A u \in Tasks : task[u].kind = "reconcile" => u = t

SlotInv == SlotMatchesState /\ CurrentOwns /\ LeaseIsOwn /\ IdsAreUnique
             /\ StartUpAlone /\ ReconcileAlone

LEMMA SlotInit == Init => SlotInv
  BY DEF Init, SlotInv, SlotMatchesState, CurrentOwns, LeaseIsOwn, IdsAreUnique, StartUpAlone,
         ReconcileAlone, Running, Idle, Disabled, Mode

\* A system call changes nothing the coordinator goes by.
LEMMA CallKeeps ==
    ASSUME Typed, NEW t \in Tasks, SystemCall(t)
    PROVE  /\ UNCHANGED coordinator
           /\ \A u \in Tasks :
                 /\ task'[u].kind = task[u].kind /\ task'[u].on = task[u].on
                 /\ task'[u].id = task[u].id /\ task'[u].lease = task[u].lease
                 /\ task'[u].gen = task[u].gen
                 /\ task'[u].pc = "idle" <=> task[u].pc = "idle"
<1>1. task[t] \in Jobs /\ task \in [Tasks -> Proper]
  BY DEF Typed, Proper
<1>2. CASE ReadFails(t)
  BY <1>1, <1>2 DEF ReadFails, Becomes, Jobs
<1>3. ASSUME NEW w \in Windows, ReadWindow(t, w)
      PROVE  /\ task'[t].kind = task[t].kind /\ task'[t].on = task[t].on
             /\ task'[t].id = task[t].id /\ task'[t].lease = task[t].lease
             /\ task'[t].gen = task[t].gen /\ task'[t].pc # "idle" /\ task[t].pc # "idle"
             /\ \A u \in Tasks \ {t} : task'[u] = task[u]
             /\ UNCHANGED coordinator
  BY <1>1, <1>3 DEF ReadWindow, Becomes, Jobs
<1>4. ASSUME NEW w \in Windows, SetWindow(t, w)
      PROVE  /\ task'[t].kind = task[t].kind /\ task'[t].on = task[t].on
             /\ task'[t].id = task[t].id /\ task'[t].lease = task[t].lease
             /\ task'[t].gen = task[t].gen /\ task'[t].pc # "idle" /\ task[t].pc # "idle"
             /\ \A u \in Tasks \ {t} : task'[u] = task[u]
             /\ UNCHANGED coordinator
  BY <1>1, <1>4 DEF SetWindow, Becomes, Jobs
<1>5. ASSUME NEW w \in Windows, SetRefused(t, w) \/ SetUnconfirmed(t, w)
      PROVE  /\ task'[t].kind = task[t].kind /\ task'[t].on = task[t].on
             /\ task'[t].id = task[t].id /\ task'[t].lease = task[t].lease
             /\ task'[t].gen = task[t].gen /\ task'[t].pc # "idle" /\ task[t].pc # "idle"
             /\ \A u \in Tasks \ {t} : task'[u] = task[u]
             /\ UNCHANGED coordinator
  <2> DEFINE j == IF task[t].kind = "reconcile" \/ task[t].applied = {}
                  THEN [task[t] EXCEPT !.pc = "done", !.result = "failed"]
                  ELSE [task[t] EXCEPT !.pc = "rollback"]
  <2>1. task' = [task EXCEPT ![t] = j] /\ task[t].pc # "idle" /\ UNCHANGED coordinator
    BY <1>5 DEF SetRefused, SetUnconfirmed, GiveUp, Becomes
  <2>2. /\ j.kind = task[t].kind /\ j.on = task[t].on /\ j.id = task[t].id
        /\ j.lease = task[t].lease /\ j.gen = task[t].gen /\ j.pc # "idle"
    BY <1>1 DEF Jobs
  <2> HIDE DEF j
  <2>3. task'[t] = j /\ \A u \in Tasks \ {t} : task'[u] = task[u]
    BY <1>1, <2>1
  <2>4. QED
    BY <2>1, <2>2, <2>3
<1>6. ASSUME NEW w \in Windows, NEW left, RolledBack(t, w, left), task[t].pc = "rollback"
      PROVE  /\ task'[t].kind = task[t].kind /\ task'[t].on = task[t].on
             /\ task'[t].id = task[t].id /\ task'[t].lease = task[t].lease
             /\ task'[t].gen = task[t].gen /\ task'[t].pc # "idle" /\ task[t].pc # "idle"
             /\ \A u \in Tasks \ {t} : task'[u] = task[u]
  <2> DEFINE applied == task[t].applied \ {w}
             pc == IF applied = {} THEN "done" ELSE "rollback"
             result == IF applied # {} THEN "none"
                       ELSE IF left = {} THEN "failed" ELSE "stuck"
  <2>1. task' = [task EXCEPT ![t] = [task[t] EXCEPT !.applied = applied, !.left = left,
                                                    !.pc = pc, !.result = result]]
    BY <1>6 DEF RolledBack, Becomes
  <2>2. pc # "idle"
    OBVIOUS
  <2> HIDE DEF applied, pc, result
  <2>3. QED
    BY <1>1, <1>6, <2>1, <2>2 DEF Jobs
<1>7. ASSUME NEW w \in Windows,
             RestoreWindow(t, w) \/ (\E set \in BOOLEAN : RestoreFails(t, w, set))
      PROVE  /\ task'[t].kind = task[t].kind /\ task'[t].on = task[t].on
             /\ task'[t].id = task[t].id /\ task'[t].lease = task[t].lease
             /\ task'[t].gen = task[t].gen /\ task'[t].pc # "idle" /\ task[t].pc # "idle"
             /\ \A u \in Tasks \ {t} : task'[u] = task[u]
             /\ UNCHANGED coordinator
  BY <1>6, <1>7 DEF RestoreWindow, RestoreFails
<1>8. QED
  BY <1>2, <1>3, <1>4, <1>5, <1>7 DEF SystemCall

LEMMA SlotSystemCall ==
    ASSUME Typed, SlotInv, NEW t \in Tasks, SystemCall(t)
    PROVE  SlotInv'
<1>1. UNCHANGED <<state, slot, next, reconciling, started>>
  BY CallKeeps DEF coordinator
<1>2. \A u \in Tasks :
        /\ task'[u].kind = task[u].kind /\ task'[u].on = task[u].on
        /\ task'[u].id = task[u].id /\ task'[u].lease = task[u].lease
        /\ task'[u].gen = task[u].gen
        /\ task'[u].pc = "idle" <=> task[u].pc = "idle"
  BY CallKeeps
<1>3. \A u \in Tasks : Running(u)' <=> Running(u)
  BY <1>2 DEF Running
<1>4. \A u \in Tasks : (IsCurrent(u)' <=> IsCurrent(u)) /\ (Holds(u)' <=> Holds(u))
  BY <1>1, <1>2 DEF IsCurrent, Holds
<1>5. SlotMatchesState' /\ StartUpAlone' /\ ReconcileAlone'
  BY <1>1, <1>2 DEF SlotInv, SlotMatchesState, StartUpAlone, ReconcileAlone, Empty
<1>6. CurrentOwns' /\ LeaseIsOwn' /\ IdsAreUnique'
  BY <1>1, <1>2, <1>3, <1>4 DEF SlotInv, CurrentOwns, LeaseIsOwn, IdsAreUnique
<1>7. QED
  BY <1>5, <1>6 DEF SlotInv

\* While no transition is under way nobody owns one.
LEMMA NobodyOwns ==
    ASSUME state'.kind # "transitioning"
    PROVE  CurrentOwns' /\ LeaseIsOwn'
  BY DEF CurrentOwns, LeaseIsOwn, IsCurrent

\* A task that is over leaves the others as they were.
LEMMA OthersStay ==
    ASSUME Typed, NEW t \in Tasks, Ends(t)
    PROVE  /\ \A u \in Tasks \ {t} : task'[u] = task[u]
           /\ task'[t].kind = "transition" /\ task'[t].pc = "idle"
           /\ \A u \in Tasks : Running(u)' => u # t /\ Running(u)
  BY DEF Typed, Ends, Idle, Running

LEMMA NoStartUp ==
    ASSUME Typed, Unlocked
    PROVE  \A t \in Tasks : task[t].kind # "startup"
<1>1. \A t \in Tasks : task[t] \in Proper
  BY DEF Typed
<1>2. QED
  BY <1>1 DEF Unlocked, Proper

LEMMA NoReconcile ==
    ASSUME SlotInv, state.kind # "quarantined" \/ ~reconciling
    PROVE  \A t \in Tasks : task[t].kind # "reconcile"
  BY DEF SlotInv, ReconcileAlone

LEMMA AlwaysConsistent == SlotInv => Consistent
<1>1. Empty.kind = "empty"
  BY DEF Empty
<1>2. QED
  BY <1>1 DEF SlotInv, SlotMatchesState, Consistent

LEMMA SlotReap == ASSUME Typed, SlotInv, Reap PROVE SlotInv'
<1>1. /\ \A t \in Tasks : task'[t].kind # "startup" /\ task'[t].kind # "reconcile"
      /\ state' = Quarantined(state.previous, "stuck_in_transition")
      /\ UNCHANGED <<slot, task>>
  BY NoStartUp, NoReconcile DEF Reap
<1>2. state'.kind = "quarantined" /\ state'.reason = "stuck_in_transition"
  BY <1>1 DEF Quarantined, Mode
<1>3. SlotMatchesState' /\ StartUpAlone' /\ ReconcileAlone' /\ CurrentOwns' /\ LeaseIsOwn'
  BY <1>1, <1>2, NobodyOwns DEF SlotMatchesState, StartUpAlone, ReconcileAlone
<1>4. IdsAreUnique'
  BY <1>1 DEF SlotInv, IdsAreUnique, Running
<1>5. QED
  BY <1>3, <1>4 DEF SlotInv

LEMMA SlotAdopt == ASSUME Typed, SlotInv, Adopt PROVE SlotInv'
<1>1. /\ slot' = Active(next.gen, 0) /\ slot.kind = "pending" /\ state.kind \in Stable
      /\ state' = (IF state.kind = "enabled" THEN Enabled(next.gen) ELSE state)
      /\ UNCHANGED <<task, reconciling>>
  BY AlwaysConsistent DEF Adopt, Enforce
<1>2. state' = Enabled(next.gen) /\ state.kind = "enabled"
  BY <1>1 DEF SlotInv, SlotMatchesState, Stable, Empty
<1>3. \A t \in Tasks : task'[t].kind # "startup" /\ task'[t].kind # "reconcile"
  BY <1>1, <1>2, NoStartUp, NoReconcile DEF Adopt
<1>4. /\ state'.kind = "enabled" /\ state'.gen = next.gen /\ state'.reason = "none"
      /\ slot'.kind = "active" /\ slot'.gen = next.gen /\ slot'.lease = 0
  BY <1>1, <1>2 DEF Enabled, Mode, Active
<1>5. SlotMatchesState' /\ StartUpAlone' /\ ReconcileAlone' /\ CurrentOwns' /\ LeaseIsOwn'
  BY <1>3, <1>4, NobodyOwns DEF SlotMatchesState, StartUpAlone, ReconcileAlone
<1>6. IdsAreUnique'
  BY <1>1 DEF SlotInv, IdsAreUnique, Running
<1>7. QED
  BY <1>5, <1>6 DEF SlotInv

LEMMA SlotStartEnable ==
    ASSUME Typed, SlotInv, NEW t \in Tasks, StartEnable(t)
    PROVE  SlotInv'
<1>1. /\ state' = Transitioning(next.id + 1, "disabled") /\ slot' = slot
      /\ task' = [task EXCEPT ![t] = Work("transition", TRUE, next.id + 1, 0, 0, 0)]
      /\ UNCHANGED reconciling /\ Unlocked /\ state.kind = "disabled"
  BY AlwaysConsistent DEF StartEnable, Enforce
<1>2. slot' = Empty /\ slot'.kind = "empty"
  BY <1>1 DEF SlotInv, SlotMatchesState, Empty
<1>3. /\ state'.kind = "transitioning" /\ state'.previous = "disabled"
      /\ state'.id = next.id + 1 /\ state'.reason = "none"
  BY <1>1 DEF Transitioning, Mode
<1>4. /\ task'[t].kind = "transition" /\ task'[t].on = TRUE /\ task'[t].id = next.id + 1
      /\ \A u \in Tasks \ {t} : task'[u] = task[u]
  <2> DEFINE j == Work("transition", TRUE, next.id + 1, 0, 0, 0)
  <2>1. j.kind = "transition" /\ j.on = TRUE /\ j.id = next.id + 1
    BY DEF Work, Idle
  <2>2. task' = [task EXCEPT ![t] = j]
    BY <1>1
  <2> HIDE DEF j
  <2>3. QED
    BY <2>1, <2>2 DEF Typed
<1>5. \A u \in Tasks : task[u].id # next.id + 1
  BY DEF Typed, Proper, Jobs, CoordinatorOK, NextOK
<1>6. \A u \in Tasks : task'[u].kind # "startup" /\ task'[u].kind # "reconcile"
  BY <1>1, <1>4, NoStartUp, NoReconcile
<1>7. SlotMatchesState' /\ StartUpAlone' /\ ReconcileAlone'
  BY <1>2, <1>3, <1>6 DEF SlotMatchesState, StartUpAlone, ReconcileAlone, Empty
<1>8. LeaseIsOwn'
  BY <1>2 DEF LeaseIsOwn, Holds
<1>9. CurrentOwns'
  BY <1>3, <1>4, <1>5 DEF CurrentOwns, IsCurrent
<1>10. IdsAreUnique'
  BY <1>4, <1>5 DEF SlotInv, IdsAreUnique, Running
<1>11. QED
  BY <1>7, <1>8, <1>9, <1>10 DEF SlotInv

LEMMA SlotStartDisable ==
    ASSUME Typed, SlotInv, NEW t \in Tasks, NEW token, StartDisable(t, token)
    PROVE  SlotInv'
<1>1. /\ state' = Transitioning(next.id + 1, "enabled")
      /\ slot' = [slot EXCEPT !.lease = next.lease] /\ slot.kind = "active"
      /\ task' = [task EXCEPT ![t] = Work("transition", FALSE, next.id + 1,
                                          next.lease, slot.gen, token)]
      /\ UNCHANGED reconciling /\ Unlocked /\ state.kind = "enabled"
  BY AlwaysConsistent DEF StartDisable, Enforce, Verified
<1>2. /\ slot'.kind = "active" /\ slot'.gen = slot.gen /\ slot'.lease = next.lease
      /\ next.lease \in Nat \ {0}
  BY <1>1 DEF Typed, CoordinatorOK, Slots, NextOK
<1>3. /\ state'.kind = "transitioning" /\ state'.previous = "enabled"
      /\ state'.id = next.id + 1 /\ state'.reason = "none"
  BY <1>1 DEF Transitioning, Mode
<1>4. /\ task'[t].kind = "transition" /\ task'[t].on = FALSE /\ task'[t].id = next.id + 1
      /\ task'[t].lease = next.lease /\ task'[t].gen = slot.gen
      /\ \A u \in Tasks \ {t} : task'[u] = task[u]
  <2> DEFINE j == Work("transition", FALSE, next.id + 1, next.lease, slot.gen, token)
  <2>1. /\ j.kind = "transition" /\ j.on = FALSE /\ j.id = next.id + 1
        /\ j.lease = next.lease /\ j.gen = slot.gen
    BY DEF Work, Idle
  <2>2. task' = [task EXCEPT ![t] = j]
    BY <1>1
  <2> HIDE DEF j
  <2>3. QED
    BY <2>1, <2>2 DEF Typed
<1>5. \A u \in Tasks : task[u].id # next.id + 1 /\ task[u].lease # next.lease
  BY DEF Typed, Proper, Jobs, CoordinatorOK, NextOK
<1>6. \A u \in Tasks : task'[u].kind # "startup" /\ task'[u].kind # "reconcile"
  BY <1>1, <1>4, NoStartUp, NoReconcile
<1>7. SlotMatchesState' /\ StartUpAlone' /\ ReconcileAlone'
  BY <1>2, <1>3, <1>6 DEF SlotMatchesState, StartUpAlone, ReconcileAlone
<1>8. LeaseIsOwn'
  BY <1>2, <1>3, <1>4, <1>5 DEF LeaseIsOwn, Holds, IsCurrent
<1>9. CurrentOwns'
  BY <1>2, <1>3, <1>4, <1>5 DEF CurrentOwns, IsCurrent, Holds
<1>10. IdsAreUnique'
  BY <1>4, <1>5 DEF SlotInv, IdsAreUnique, Running
<1>11. QED
  BY <1>7, <1>8, <1>9, <1>10 DEF SlotInv

LEMMA SlotStartUp ==
    ASSUME Typed, SlotInv, NEW t \in Tasks, StartUp(t)
    PROVE  SlotInv'
<1>1. /\ task' = [task EXCEPT ![t] = Work("startup", TRUE, 0, 0, 0, 0)]
      /\ UNCHANGED <<state, slot, reconciling>> /\ Unlocked /\ state.kind = "disabled"
  BY DEF StartUp, Becomes
<1>2. task'[t].kind = "startup" /\ \A u \in Tasks \ {t} : task'[u] = task[u]
  <2> DEFINE j == Work("startup", TRUE, 0, 0, 0, 0)
  <2>1. j.kind = "startup"
    BY DEF Work, Idle
  <2>2. task' = [task EXCEPT ![t] = j]
    BY <1>1
  <2> HIDE DEF j
  <2>3. QED
    BY <2>1, <2>2 DEF Typed
<1>3. \A u \in Tasks : task[u].kind # "startup" /\ task[u].kind # "reconcile"
  BY <1>1, NoStartUp, NoReconcile
<1>4. SlotMatchesState' /\ StartUpAlone' /\ ReconcileAlone' /\ CurrentOwns' /\ LeaseIsOwn'
  BY <1>1, <1>2, <1>3, NobodyOwns
  DEF SlotInv, SlotMatchesState, StartUpAlone, ReconcileAlone, Empty
<1>5. IdsAreUnique'
  BY <1>2 DEF SlotInv, IdsAreUnique, Running
<1>6. QED
  BY <1>4, <1>5 DEF SlotInv

LEMMA SlotStartReconcile ==
    ASSUME Typed, SlotInv, NEW t \in Tasks, StartReconcile(t)
    PROVE  SlotInv'
<1>1. /\ task' = [task EXCEPT ![t] = [Idle EXCEPT !.pc = "apply", !.kind = "reconcile",
                                                   !.on = (state.previous = "enabled")]]
      /\ UNCHANGED <<state, slot>> /\ Unlocked /\ state.kind = "quarantined"
      /\ ~reconciling /\ reconciling' = TRUE
  BY DEF StartReconcile, Becomes
<1>2. /\ task'[t].kind = "reconcile" /\ (task'[t].on <=> state.previous = "enabled")
      /\ \A u \in Tasks \ {t} : task'[u] = task[u]
  <2> DEFINE j == [Idle EXCEPT !.pc = "apply", !.kind = "reconcile",
                               !.on = (state.previous = "enabled")]
  <2>1. j.kind = "reconcile" /\ (j.on <=> state.previous = "enabled")
    BY DEF Idle
  <2>2. task' = [task EXCEPT ![t] = j]
    BY <1>1
  <2> HIDE DEF j
  <2>3. QED
    BY <2>1, <2>2 DEF Typed
<1>3. \A u \in Tasks : task[u].kind # "startup" /\ task[u].kind # "reconcile"
  BY <1>1, NoStartUp, NoReconcile
<1>4. StartUpAlone' /\ CurrentOwns' /\ LeaseIsOwn'
  BY <1>1, <1>2, <1>3, NobodyOwns DEF StartUpAlone
<1>5. ReconcileAlone'
  BY <1>1, <1>2, <1>3 DEF ReconcileAlone
<1>6. IdsAreUnique'
  BY <1>2 DEF SlotInv, IdsAreUnique, Running
<1>7. SlotMatchesState'
  BY <1>1 DEF SlotInv, SlotMatchesState, Empty
<1>8. QED
  BY <1>4, <1>5, <1>6, <1>7 DEF SlotInv

\* Sections that end a task: what is left is told by the mode and the slot alone.
LEMMA SlotEnds ==
    ASSUME Typed, SlotInv, NEW t \in Tasks, Ends(t), SlotMatchesState',
           \A u \in Tasks \ {t} : task[u].kind # "startup" /\ task[u].kind # "reconcile",
           state'.kind # "transitioning" \/ UNCHANGED <<state, slot>>
    PROVE  SlotInv'
<1>1. /\ \A u \in Tasks : task'[u].kind # "startup" /\ task'[u].kind # "reconcile"
      /\ \A u \in Tasks : Running(u)' => u # t /\ Running(u)
      /\ \A u \in Tasks \ {t} : task'[u] = task[u]
  BY OthersStay
<1>2. StartUpAlone' /\ ReconcileAlone'
  BY <1>1 DEF StartUpAlone, ReconcileAlone
<1>3. IdsAreUnique'
  BY <1>1 DEF SlotInv, IdsAreUnique
<1>4. CASE state'.kind # "transitioning"
  BY <1>2, <1>3, <1>4, NobodyOwns DEF SlotInv
<1>5. CASE UNCHANGED <<state, slot>>
  <2>1. \A u \in Tasks \ {t} : (IsCurrent(u)' <=> IsCurrent(u)) /\ (Holds(u)' <=> Holds(u))
    BY <1>1, <1>5 DEF IsCurrent, Holds
  <2>2. CurrentOwns' /\ LeaseIsOwn'
    BY <1>1, <1>5, <2>1 DEF SlotInv, CurrentOwns, LeaseIsOwn
  <2>3. QED
    BY <1>2, <1>3, <2>2 DEF SlotInv
<1>6. QED
  BY <1>4, <1>5


\* What a transition that is over knows of the mode.
LEMMA FinishingIs ==
    ASSUME Typed, SlotInv, NEW t \in Tasks, Finishing(t)
    PROVE  /\ Running(t)
           /\ \A u \in Tasks \ {t} : task[u].kind # "startup"
           /\ task[t].on \in BOOLEAN
           /\ IsCurrent(t) =>
                 /\ state.kind = "transitioning" /\ state.previous \in Stable
                 /\ \A u \in Tasks : task[u].kind # "reconcile"
                 /\ task[t].on => state.previous = "disabled" /\ slot = Empty
                 /\ ~task[t].on => state.previous = "enabled" /\ Holds(t)
<1>1. Running(t) /\ task[t].on \in BOOLEAN /\ state.previous \in Stable
  BY DEF Finishing, Running, Typed, Proper, Jobs, CoordinatorOK, Modes
<1>2. \A u \in Tasks : task[u].kind # "startup"
  BY NoStartUp DEF Finishing
<1>3. ASSUME IsCurrent(t)
      PROVE  /\ state.kind = "transitioning"
             /\ task[t].on => state.previous = "disabled" /\ slot = Empty
             /\ ~task[t].on => state.previous = "enabled" /\ Holds(t)
  BY <1>1, <1>3 DEF IsCurrent, SlotInv, SlotMatchesState, CurrentOwns, Stable
<1>4. QED
  BY <1>1, <1>2, <1>3, NoReconcile

LEMMA SlotSuperseded ==
    ASSUME Typed, SlotInv, NEW t \in Tasks, FinishSuperseded(t)
    PROVE  SlotInv'
<1>1. /\ Finishing(t) /\ ~IsCurrent(t) /\ Ends(t) /\ Release(t)
      /\ UNCHANGED <<state, reconciling>>
  BY DEF FinishSuperseded
<1>2. Running(t) /\ \A u \in Tasks \ {t} : task[u].kind # "startup"
  BY <1>1, FinishingIs
<1>3. slot \in Slots /\ state.kind \in {"disabled", "enabled", "transitioning", "quarantined"}
  BY DEF Typed, CoordinatorOK, Modes
<1>4. CASE state.kind = "quarantined"
  <2>1. SlotMatchesState'
    BY <1>1, <1>4 DEF SlotInv, SlotMatchesState
  <2>2. StartUpAlone' /\ IdsAreUnique' /\ CurrentOwns' /\ LeaseIsOwn'
    BY <1>1, <1>2, <1>4, NobodyOwns, OthersStay DEF SlotInv, StartUpAlone, IdsAreUnique
  <2>3. ReconcileAlone'
    BY <1>1, OthersStay DEF SlotInv, ReconcileAlone
  <2>4. QED
    BY <2>1, <2>2, <2>3 DEF SlotInv
<1>5. CASE state.kind # "quarantined"
  <2>1. slot' = slot
    <3>1. CASE ~Holds(t)
      BY <1>1, <3>1 DEF Release
    <3>2. CASE Holds(t)
      <4>1. state.kind # "transitioning"
        BY <1>1, <1>2, <3>2 DEF SlotInv, LeaseIsOwn
      <4>2. slot.lease = 0
        BY <1>3, <1>5, <4>1 DEF SlotInv, SlotMatchesState, Empty
      <4>3. [slot EXCEPT !.lease = 0] = slot
        BY <1>3, <4>2 DEF Slots
      <4>4. QED
        BY <1>1, <3>2, <4>3 DEF Release
    <3>3. QED
      BY <3>1, <3>2
  <2>2. SlotMatchesState'
    BY <1>1, <2>1 DEF SlotInv, SlotMatchesState, Empty
  <2>3. \A u \in Tasks \ {t} : task[u].kind # "reconcile"
    BY <1>5, NoReconcile
  <2>4. QED
    BY <1>1, <1>2, <2>1, <2>2, <2>3, SlotEnds
<1>6. QED
  BY <1>4, <1>5

LEMMA SlotFinish ==
    ASSUME Typed, SlotInv, NEW t \in Tasks,
           FinishEnabled(t) \/ FinishDisabled(t) \/ FinishRestored(t) \/ FinishStuck(t)
    PROVE  SlotInv'
<1>1. Finishing(t) /\ IsCurrent(t) /\ Ends(t)
  BY DEF FinishEnabled, FinishDisabled, FinishRestored, FinishStuck
<1>2. /\ \A u \in Tasks \ {t} : task[u].kind # "startup" /\ task[u].kind # "reconcile"
      /\ task[t].on \in BOOLEAN /\ state.previous \in Stable
      /\ task[t].on => state.previous = "disabled" /\ slot = Empty
      /\ ~task[t].on => state.previous = "enabled" /\ Holds(t)
  BY <1>1, FinishingIs
<1>3. slot \in Slots
  BY DEF Typed, CoordinatorOK
<1>4. CASE FinishEnabled(t)
  <2>1. slot' = Active(next.gen, 0) /\ state' = Enabled(next.gen)
    BY <1>2, <1>4 DEF FinishEnabled, Empty
  <2>2. SlotMatchesState' /\ state'.kind = "enabled"
    BY <2>1 DEF SlotMatchesState, Active, Enabled, Mode
  <2>3. QED
    BY <1>1, <1>2, <2>2, SlotEnds
<1>5. CASE FinishDisabled(t)
  <2>1. slot' = Empty /\ state' = Disabled
    BY <1>2, <1>5 DEF FinishDisabled
  <2>2. SlotMatchesState' /\ state'.kind = "disabled"
    BY <2>1 DEF SlotMatchesState, Empty, Disabled, Mode
  <2>3. QED
    BY <1>1, <1>2, <2>2, SlotEnds
<1>6. CASE FinishRestored(t) /\ task[t].on
  <2>1. slot' = slot /\ slot = Empty /\ state' = Disabled
    BY <1>2, <1>6 DEF FinishRestored, Release, Holds, Empty
  <2>2. SlotMatchesState' /\ state'.kind = "disabled"
    BY <2>1 DEF SlotMatchesState, Empty, Disabled, Mode
  <2>3. QED
    BY <1>1, <1>2, <2>2, SlotEnds
<1>7. CASE FinishRestored(t) /\ ~task[t].on
  <2>1. slot' = [slot EXCEPT !.lease = 0] /\ state' = Enabled(slot.gen) /\ slot.kind = "active"
    BY <1>2, <1>7 DEF FinishRestored, Release, Holds
  <2>2. slot'.kind = "active" /\ slot'.gen = slot.gen /\ slot'.lease = 0
    BY <1>3, <2>1 DEF Slots
  <2>3. SlotMatchesState' /\ state'.kind = "enabled"
    BY <2>1, <2>2 DEF SlotMatchesState, Enabled, Mode
  <2>4. QED
    BY <1>1, <1>2, <2>3, SlotEnds
<1>8. CASE FinishStuck(t)
  <2>1. state' = Quarantined(state.previous, "rollback_failed")
    BY <1>8 DEF FinishStuck
  <2>2. SlotMatchesState' /\ state'.kind = "quarantined"
    BY <2>1 DEF SlotMatchesState, Quarantined, Mode
  <2>3. QED
    BY <1>1, <1>2, <2>2, SlotEnds
<1>9. QED
  BY <1>2, <1>4, <1>5, <1>6, <1>7, <1>8

LEMMA SlotStartUpEnds ==
    ASSUME Typed, SlotInv, NEW t \in Tasks, StartUpEnds(t)
    PROVE  SlotInv'
<1>1. task[t].kind = "startup" /\ Ends(t)
  BY DEF StartUpEnds
<1>2. /\ state.kind = "disabled" /\ slot = Empty
      /\ \A u \in Tasks \ {t} : task[u].kind # "startup" /\ task[u].kind # "reconcile"
  BY <1>1, NoReconcile DEF SlotInv, StartUpAlone, SlotMatchesState
<1>3. CASE task[t].result = "ok"
  <2>1. slot' = Pending(next.gen) /\ state' = Enabled(next.gen)
    BY <1>3 DEF StartUpEnds
  <2>2. SlotMatchesState' /\ state'.kind = "enabled"
    BY <2>1 DEF SlotMatchesState, Pending, Enabled, Mode
  <2>3. QED
    BY <1>1, <1>2, <2>2, SlotEnds
<1>4. CASE task[t].result = "stuck"
  <2>1. state' = Quarantined("enabled", "rollback_failed")
    BY <1>4 DEF StartUpEnds
  <2>2. SlotMatchesState' /\ state'.kind = "quarantined"
    BY <2>1 DEF SlotMatchesState, Quarantined, Mode
  <2>3. QED
    BY <1>1, <1>2, <2>2, SlotEnds
<1>5. CASE task[t].result # "ok" /\ task[t].result # "stuck"
  <2>1. UNCHANGED <<state, slot>>
    BY <1>5 DEF StartUpEnds
  <2>2. SlotMatchesState'
    BY <2>1 DEF SlotInv, SlotMatchesState, Empty
  <2>3. QED
    BY <1>1, <1>2, <2>1, <2>2, SlotEnds
<1>6. QED
  BY <1>3, <1>4, <1>5

LEMMA SlotReconcileEnds ==
    ASSUME Typed, SlotInv, NEW t \in Tasks, ReconcileEnds(t)
    PROVE  SlotInv'
<1>1. task[t].kind = "reconcile" /\ Ends(t) /\ Unlocked
  BY DEF ReconcileEnds
<1>2. /\ state.kind = "quarantined"
      /\ \A u \in Tasks \ {t} : task[u].kind # "startup" /\ task[u].kind # "reconcile"
  BY <1>1, NoStartUp DEF SlotInv, ReconcileAlone
<1>3. CASE task[t].result = "ok" /\ task[t].on
  <2>1. slot' = Pending(next.gen) /\ state' = Enabled(next.gen)
    BY <1>3 DEF ReconcileEnds
  <2>2. SlotMatchesState' /\ state'.kind = "enabled"
    BY <2>1 DEF SlotMatchesState, Pending, Enabled, Mode
  <2>3. QED
    BY <1>1, <1>2, <2>2, SlotEnds
<1>4. CASE task[t].result = "ok" /\ ~task[t].on
  <2>1. slot' = Empty /\ state' = Disabled
    BY <1>4 DEF ReconcileEnds
  <2>2. SlotMatchesState' /\ state'.kind = "disabled"
    BY <2>1 DEF SlotMatchesState, Empty, Disabled, Mode
  <2>3. QED
    BY <1>1, <1>2, <2>2, SlotEnds
<1>5. CASE task[t].result # "ok"
  <2>1. state' = [state EXCEPT !.reason = "reconcile_failed"] /\ state \in Modes
    BY <1>2, <1>5 DEF ReconcileEnds, Typed, CoordinatorOK
  <2>2. state'.kind = "quarantined" /\ state'.reason = "reconcile_failed"
    BY <1>2, <2>1 DEF Modes
  <2>3. SlotMatchesState'
    BY <2>2 DEF SlotMatchesState
  <2>4. QED
    BY <1>1, <1>2, <2>2, <2>3, SlotEnds
<1>6. QED
  BY <1>3, <1>4, <1>5

LEMMA SlotNext == Typed /\ SlotInv /\ [Next]_vars => SlotInv'
<1> SUFFICES ASSUME Typed, SlotInv, [Next]_vars PROVE SlotInv'
  OBVIOUS
<1>1. CASE UNCHANGED vars
  BY <1>1 DEF vars, SlotInv, SlotMatchesState, CurrentOwns, LeaseIsOwn, IdsAreUnique,
         StartUpAlone, ReconcileAlone, Running, IsCurrent, Holds, Empty
<1>2. CASE Reap \/ Adopt
  BY <1>2, SlotReap, SlotAdopt
<1>3. ASSUME NEW t \in Tasks, Section(t) PROVE SlotInv'
  BY <1>3, SlotStartEnable, SlotStartDisable, SlotStartUp, SlotStartReconcile,
     SlotSuperseded, SlotFinish, SlotStartUpEnds, SlotReconcileEnds DEF Section
<1>4. ASSUME NEW t \in Tasks, SystemCall(t) PROVE SlotInv'
  BY <1>4, SlotSystemCall
<1>5. QED
  BY <1>1, <1>2, <1>3, <1>4 DEF Next

-----------------------------------------------------------------------------
(* The windows and the mode.                                                 *)

(* Whose writes count: the transition in force and the start-up protection.   *)
Writes(t) == task[t].kind = "startup" \/ (Running(t) /\ IsCurrent(t))

Base(t) == IF task[t].on THEN "none" ELSE "excluded"

(* Such a task has changed the windows it has confirmed and no other one, and  *)
(* knows what each showed before - but for those that were astray already.     *)
Traced(t) ==
    \A w \in Windows :
        /\ w \notin stray => shield[w] = IF w \in task[t].applied THEN Target(t) ELSE Base(t)
        /\ task[t].snap[w] # "unread" /\ w \notin task[t].was => task[t].snap[w] = Base(t)

WinInv ==
    /\ state.kind = "enabled" => \A w \in Windows \ stray : shield[w] = "excluded"
    /\ state.kind = "disabled" /\ (\A t \in Tasks : task[t].kind # "startup") =>
          \A w \in Windows \ stray : shield[w] = "none"
    /\ \A t \in Tasks : Writes(t) => Traced(t)
    /\ \A t \in Tasks : task[t].kind = "reconcile" =>
          \A w \in task[t].applied \ stray : shield[w] = Target(t)

LEMMA WinInit == Init => WinInv
  BY DEF Init, WinInv, Writes, Running, Idle, Disabled, Mode

\* Two tasks whose writes count never run together.
LEMMA OnlyWriter ==
    ASSUME SlotInv, NEW t \in Tasks, NEW u \in Tasks,
           Writes(t) \/ task[t].kind = "reconcile", Writes(u) \/ task[u].kind = "reconcile"
    PROVE  t = u
  BY DEF SlotInv, Writes, IsCurrent, IdsAreUnique, StartUpAlone, ReconcileAlone

\* A call whose write counts is one of theirs, and the mode is not settled.
LEMMA VouchedIs ==
    ASSUME Typed, SlotInv, NEW t \in Tasks, task[t].pc # "idle", Vouched(t)
    PROVE  /\ Writes(t) \/ task[t].kind = "reconcile"
           /\ state.kind # "enabled"
           /\ state.kind = "disabled" => task[t].kind = "startup"
<1>1. task[t].kind \in {"transition", "startup", "reconcile"}
  BY DEF Typed, Proper, Jobs
<1>2. QED
  BY <1>1 DEF Vouched, Writes, Running, IsCurrent, SlotInv, StartUpAlone, ReconcileAlone

(* What a system call of task t on window w leaves: the rest of the windows and *)
(* what t knows of them; and w, which is astray, as it was, or known to be set. *)
Elsewhere(t, w, j) ==
    \A v \in Windows \ {w} :
        /\ shield'[v] = shield[v] /\ (v \in stray' <=> v \in stray)
        /\ v \in j.applied <=> v \in task[t].applied
        /\ j.snap[v] = task[t].snap[v] /\ (v \in j.was <=> v \in task[t].was)

There(t, w, j) ==
    \/ w \in stray'
    \/ shield'[w] = shield[w] /\ (w \in stray' <=> w \in stray)
         /\ (w \in j.applied <=> w \in task[t].applied)
    \/ Vouched(t) /\ shield'[w] = (IF w \in j.applied THEN Target(t) ELSE Base(t))

Known(t, w, j) ==
    Writes(t) /\ j.snap[w] # "unread" /\ w \notin j.was => j.snap[w] = Base(t)

SameTask(t, j) ==
    /\ task[t].pc # "idle" /\ j.pc # "idle"
    /\ j.kind = task[t].kind /\ j.on = task[t].on /\ j.id = task[t].id
    /\ j.applied \subseteq Windows

\* One system call, on window w.
LEMMA WinCall ==
    ASSUME Typed, SlotInv, WinInv, NEW t \in Tasks, NEW w \in Windows, NEW j,
           task' = [task EXCEPT ![t] = j], UNCHANGED coordinator,
           SameTask(t, j), Elsewhere(t, w, j), There(t, w, j), Known(t, w, j)
    PROVE  WinInv'
<1> USE DEF SameTask, Elsewhere, There, Known
<1>1. task'[t] = j /\ \A u \in Tasks \ {t} : task'[u] = task[u]
  BY DEF Typed
<1>2. state' = state
  BY DEF coordinator
<1>3. \A u \in Tasks : /\ task'[u].kind = task[u].kind
                       /\ Writes(u)' <=> Writes(u)
                       /\ Target(u)' = Target(u) /\ Base(u)' = Base(u)
  BY <1>1, <1>2 DEF Writes, Running, IsCurrent, Target, Base
<1>4. Vouched(t) => /\ Writes(t) \/ task[t].kind = "reconcile"
                    /\ state.kind # "enabled"
                    /\ state.kind = "disabled" => task[t].kind = "startup"
  BY VouchedIs
<1>5. \A v \in Windows : \/ v \in stray'
                         \/ shield'[v] = shield[v] /\ v \notin stray
                         \/ v = w /\ Vouched(t)
  OBVIOUS
<1>6. state'.kind = "enabled" => \A v \in Windows \ stray' : shield'[v] = "excluded"
  BY <1>2, <1>4, <1>5 DEF WinInv
<1>7. state'.kind = "disabled" /\ (\A u \in Tasks : task'[u].kind # "startup") =>
         \A v \in Windows \ stray' : shield'[v] = "none"
  BY <1>2, <1>3, <1>4, <1>5 DEF WinInv
<1>8. ASSUME NEW u \in Tasks, Writes(u) PROVE Traced(u)'
  <2>1. Traced(u)
    BY <1>8 DEF WinInv
  <2>2. CASE u # t
    <3>1. ~Vouched(t)
      BY <1>4, <1>8, <2>2, OnlyWriter
    <3>2. QED
      BY <1>1, <1>3, <1>5, <2>1, <2>2, <3>1 DEF Traced
  <2>3. CASE u = t
    <3>1. ASSUME NEW v \in Windows
          PROVE  /\ v \notin stray' => shield'[v] = IF v \in j.applied THEN Target(t) ELSE Base(t)
                 /\ j.snap[v] # "unread" /\ v \notin j.was => j.snap[v] = Base(t)
      <4>1. CASE v = w
        BY <1>8, <2>1, <2>3, <4>1 DEF Traced
      <4>2. CASE v # w
        BY <2>1, <2>3, <4>2 DEF Traced
      <4>3. QED
        BY <4>1, <4>2
    <3>2. QED
      BY <1>1, <1>3, <2>3, <3>1 DEF Traced
  <2>4. QED
    BY <2>2, <2>3
<1>9. ASSUME NEW u \in Tasks, task[u].kind = "reconcile", NEW v \in task'[u].applied \ stray'
      PROVE  shield'[v] = Target(u)
  <2>1. \A x \in task[u].applied \ stray : shield[x] = Target(u)
    BY <1>9 DEF WinInv
  <2>2. task[u].applied \subseteq Windows
    BY DEF Typed, Proper, Jobs
  <2>3. CASE u # t
    <3>1. ~Vouched(t)
      BY <1>4, <1>9, <2>3, OnlyWriter
    <3>2. v \in task[u].applied
      BY <1>1, <1>9, <2>3
    <3>3. QED
      BY <1>5, <1>9, <2>1, <2>2, <3>1, <3>2
  <2>4. CASE u = t
    <3>1. v \in Windows /\ v \in j.applied /\ v \notin stray'
      BY <1>1, <1>9, <2>4
    <3>2. CASE v = w
      BY <2>1, <2>4, <3>1, <3>2
    <3>3. CASE v # w
      BY <2>1, <2>4, <3>1, <3>3
    <3>4. QED
      BY <3>2, <3>3
  <2>5. QED
    BY <2>3, <2>4
<1>10. QED
  BY <1>3, <1>6, <1>7, <1>8, <1>9 DEF WinInv

LEMMA WinSystemCall ==
    ASSUME Typed, SlotInv, WinInv, NEW t \in Tasks, SystemCall(t)
    PROVE  WinInv'
<1>1. /\ task[t] \in Jobs /\ task[t] \in Proper
      /\ shield \in [Windows -> Values] /\ stray \subseteq Windows
  BY DEF Typed, Proper, WindowsOK
<1>2. Writes(t) => Traced(t)
  BY DEF WinInv
<1>3. CASE ReadFails(t)
  <2> DEFINE j == [task[t] EXCEPT !.pc = "done", !.result = "failed"]
  <2>1. task' = [task EXCEPT ![t] = j] /\ task[t].pc # "idle" /\ UNCHANGED coordinator
        /\ UNCHANGED <<shield, stray>>
    BY <1>3 DEF ReadFails, Becomes
  <2>2. /\ j.pc # "idle" /\ j.kind = task[t].kind /\ j.on = task[t].on /\ j.id = task[t].id
        /\ j.applied = task[t].applied /\ j.snap = task[t].snap /\ j.was = task[t].was
        /\ j.applied \subseteq Windows
    BY <1>1 DEF Jobs
  <2>3. PICK w \in Windows : TRUE
    BY SomeWindow
  <2> HIDE DEF j
  <2>4. SameTask(t, j) /\ Elsewhere(t, w, j) /\ There(t, w, j)
    BY <2>1, <2>2 DEF SameTask, Elsewhere, There
  <2>5. Known(t, w, j)
    BY <1>2, <2>2 DEF Known, Traced
  <2>6. QED
    BY <2>1, <2>4, <2>5, WinCall
<1>4. ASSUME NEW w \in Windows, ReadWindow(t, w) PROVE WinInv'
  <2> DEFINE snap == [task[t].snap EXCEPT ![w] = shield[w]]
             j == [task[t] EXCEPT
                      !.snap = snap,
                      !.was = IF w \in stray THEN @ \cup {w} ELSE @,
                      !.pc = IF \A v \in Windows : snap[v] # "unread" THEN "apply" ELSE "snapshot"]
  <2>1. /\ task' = [task EXCEPT ![t] = j] /\ task[t].pc = "snapshot"
        /\ UNCHANGED coordinator /\ UNCHANGED <<shield, stray>>
    BY <1>4 DEF ReadWindow, Becomes
  <2>2. /\ j.pc # "idle" /\ j.kind = task[t].kind /\ j.on = task[t].on /\ j.id = task[t].id
        /\ j.applied = task[t].applied /\ j.snap = snap
        /\ j.was = (IF w \in stray THEN task[t].was \cup {w} ELSE task[t].was)
        /\ j.applied \subseteq Windows
    BY <1>1 DEF Jobs
  <2>3. snap[w] = shield[w] /\ \A v \in Windows \ {w} : snap[v] = task[t].snap[v]
    BY <1>1 DEF Jobs
  <2>4. task[t].applied = {}
    BY <1>1, <2>1 DEF Proper
  <2>5. Writes(t) /\ w \notin stray => shield[w] = Base(t)
    BY <1>2, <2>4 DEF Traced
  <2> HIDE DEF j, snap
  <2>6. Known(t, w, j)
    BY <2>2, <2>3, <2>5 DEF Known
  <2>7. SameTask(t, j) /\ There(t, w, j)
    BY <2>1, <2>2 DEF SameTask, There
  <2>8. Elsewhere(t, w, j)
    BY <2>1, <2>2, <2>3 DEF Elsewhere
  <2>9. QED
    BY <2>1, <2>6, <2>7, <2>8, WinCall
<1>5. ASSUME NEW w \in Windows, SetWindow(t, w) PROVE WinInv'
  <2> DEFINE applied == task[t].applied \cup {w}
             pc == IF applied = Windows THEN "done" ELSE "apply"
             result == IF applied = Windows THEN "ok" ELSE "none"
             j == [task[t] EXCEPT !.applied = applied, !.pc = pc, !.result = result]
  <2>1. /\ task' = [task EXCEPT ![t] = j] /\ task[t].pc # "idle"
        /\ shield' = [shield EXCEPT ![w] = Target(t)] /\ UNCHANGED coordinator
        /\ stray' = IF Vouched(t) THEN stray \ {w} ELSE stray \cup {w}
    BY <1>5 DEF SetWindow, Becomes
  <2>2. /\ j.pc # "idle" /\ j.kind = task[t].kind /\ j.on = task[t].on /\ j.id = task[t].id
        /\ j.applied = applied /\ j.snap = task[t].snap /\ j.was = task[t].was
        /\ j.applied \subseteq Windows
    BY <1>1 DEF Jobs
  <2> HIDE DEF j
  <2>3. shield'[w] = Target(t) /\ \A v \in Windows \ {w} : shield'[v] = shield[v]
    BY <1>1, <2>1
  <2>4. Known(t, w, j)
    BY <1>2, <2>2 DEF Known, Traced
  <2>5. SameTask(t, j)
    BY <2>1, <2>2 DEF SameTask
  <2>6. Elsewhere(t, w, j)
    BY <2>1, <2>2, <2>3 DEF Elsewhere
  <2>7. There(t, w, j)
    BY <2>1, <2>2, <2>3 DEF There
  <2>8. QED
    BY <2>1, <2>4, <2>5, <2>6, <2>7, WinCall
<1>6. ASSUME NEW w \in Windows, SetRefused(t, w) \/ SetUnconfirmed(t, w) PROVE WinInv'
  <2> DEFINE j == IF task[t].kind = "reconcile" \/ task[t].applied = {}
                  THEN [task[t] EXCEPT !.pc = "done", !.result = "failed"]
                  ELSE [task[t] EXCEPT !.pc = "rollback"]
  <2>1. /\ task' = [task EXCEPT ![t] = j] /\ task[t].pc # "idle" /\ UNCHANGED coordinator
        /\ \/ UNCHANGED <<shield, stray>>
           \/ shield' = [shield EXCEPT ![w] = Target(t)] /\ stray' = stray \cup {w}
    BY <1>6 DEF SetRefused, SetUnconfirmed, GiveUp, Becomes
  <2>2. /\ j.pc # "idle" /\ j.kind = task[t].kind /\ j.on = task[t].on /\ j.id = task[t].id
        /\ j.applied = task[t].applied /\ j.snap = task[t].snap /\ j.was = task[t].was
        /\ j.applied \subseteq Windows
    BY <1>1 DEF Jobs
  <2> HIDE DEF j
  <2>3. \A v \in Windows \ {w} : shield'[v] = shield[v] /\ (v \in stray' <=> v \in stray)
    BY <1>1, <2>1
  <2>4. Known(t, w, j)
    BY <1>2, <2>2 DEF Known, Traced
  <2>5. SameTask(t, j) /\ Elsewhere(t, w, j)
    BY <2>1, <2>2, <2>3 DEF SameTask, Elsewhere
  <2>6. There(t, w, j)
    BY <2>1, <2>2 DEF There
  <2>7. QED
    BY <2>1, <2>4, <2>5, <2>6, WinCall
<1>7. ASSUME NEW w \in Windows,
             RestoreWindow(t, w) \/ (\E set \in BOOLEAN : RestoreFails(t, w, set))
      PROVE  WinInv'
  <2>1. PICK left : RolledBack(t, w, left)
    BY <1>7 DEF RestoreWindow, RestoreFails
  <2>2. /\ task[t].pc = "rollback" /\ UNCHANGED coordinator
        /\ shield' = shield \/ shield' = [shield EXCEPT ![w] = task[t].snap[w]]
        /\ \/ stray' = stray \cup {w}
           \/ /\ Vouched(t) /\ w \notin task[t].was /\ stray' = stray \ {w}
              /\ shield' = [shield EXCEPT ![w] = task[t].snap[w]]
    BY <1>7 DEF RestoreWindow, RestoreFails
  <2> DEFINE applied == task[t].applied \ {w}
             pc == IF applied = {} THEN "done" ELSE "rollback"
             result == IF applied # {} THEN "none"
                       ELSE IF left = {} THEN "failed" ELSE "stuck"
             j == [task[t] EXCEPT !.applied = applied, !.left = left, !.pc = pc, !.result = result]
  <2>3. task' = [task EXCEPT ![t] = j]
    BY <2>1 DEF RolledBack, Becomes
  <2>4. /\ j.pc # "idle" /\ j.kind = task[t].kind /\ j.on = task[t].on /\ j.id = task[t].id
        /\ j.applied = applied /\ j.snap = task[t].snap /\ j.was = task[t].was
        /\ j.applied \subseteq Windows
    BY <1>1 DEF Jobs
  <2> HIDE DEF j
  <2>5. \A v \in Windows \ {w} : shield'[v] = shield[v] /\ (v \in stray' <=> v \in stray)
    BY <1>1, <2>2
  <2>6. Known(t, w, j)
    BY <1>2, <2>4 DEF Known, Traced
  <2>7. There(t, w, j)
    <3>1. CASE Vouched(t) /\ w \notin task[t].was /\ shield' = [shield EXCEPT ![w] = task[t].snap[w]]
      <4>1. task[t].kind # "reconcile" /\ task[t].snap[w] # "unread"
        BY <1>1, <2>2 DEF Proper
      <4>2. Writes(t)
        BY <2>2, <3>1, <4>1, VouchedIs
      <4>3. task[t].snap[w] = Base(t)
        BY <1>2, <3>1, <4>1, <4>2 DEF Traced
      <4>4. shield'[w] = task[t].snap[w]
        BY <1>1, <3>1
      <4>5. w \notin j.applied
        BY <2>4
      <4>6. QED
        BY <3>1, <4>3, <4>4, <4>5 DEF There
    <3>2. QED
      BY <2>2, <3>1 DEF There
  <2>8. SameTask(t, j) /\ Elsewhere(t, w, j)
    BY <2>2, <2>4, <2>5 DEF SameTask, Elsewhere
  <2>9. QED
    BY <2>2, <2>3, <2>6, <2>7, <2>8, WinCall
<1>8. QED
  BY <1>3, <1>4, <1>5, <1>6, <1>7 DEF SystemCall

\* A section that leaves no task whose writes count.
LEMMA WinSettled ==
    ASSUME \A u \in Tasks : task'[u].kind # "startup" /\ task'[u].kind # "reconcile",
           state'.kind # "transitioning", UNCHANGED <<shield, stray>>,
           state'.kind = "enabled" => \A w \in Windows \ stray : shield[w] = "excluded",
           state'.kind = "disabled" => \A w \in Windows \ stray : shield[w] = "none"
    PROVE  WinInv'
  BY DEF WinInv, Writes, IsCurrent

LEMMA WinStart ==
    ASSUME Typed, SlotInv, WinInv, NEW t \in Tasks,
           \/ StartEnable(t) \/ StartUp(t) \/ StartReconcile(t)
           \/ \E token \in 1..MaxGen : StartDisable(t, token)
    PROVE  WinInv'
<1>1. /\ \A u \in Tasks : task[u].kind # "startup"
      /\ UNCHANGED <<shield, stray>>
  BY NoStartUp, AlwaysConsistent DEF StartEnable, StartUp, StartReconcile, StartDisable, Enforce
<1>2. \A u \in Tasks : task[u] \in Jobs /\ next.id \in Nat
  BY DEF Typed, CoordinatorOK, NextOK, Proper
<1>3. ASSUME NEW k, NEW on \in BOOLEAN, NEW i, NEW l, NEW g, NEW tok,
             task' = [task EXCEPT ![t] = Work(k, on, i, l, g, tok)],
             k # "reconcile", state.kind # "quarantined",
             state'.kind = "transitioning" => state'.id = next.id + 1,
             state'.kind # "enabled", state'.kind = "disabled" => k = "startup",
             \A w \in Windows \ stray : shield[w] = IF on THEN "none" ELSE "excluded"
      PROVE  WinInv'
  <2>1. /\ task'[t].on = on /\ task'[t].applied = {} /\ task'[t].kind = k
        /\ \A w \in Windows : task'[t].snap[w] = "unread"
        /\ \A u \in Tasks \ {t} : task'[u] = task[u]
    BY <1>3 DEF Typed, Work, Idle
  <2>2. \A u \in Tasks \ {t} : ~Writes(u)'
    <3>1. ASSUME NEW u \in Tasks \ {t}, IsCurrent(u)' PROVE FALSE
      <4>1. task[u].id = next.id + 1
        BY <1>3, <2>1, <3>1 DEF IsCurrent
      <4>2. task[u].id \in 0..next.id /\ next.id \in Nat
        BY <1>2 DEF Jobs
      <4>3. QED
        BY <4>1, <4>2
    <3>2. QED
      BY <1>1, <2>1, <3>1 DEF Writes
  <2>3. Traced(t)'
    BY <1>1, <1>3, <2>1 DEF Traced, Base
  <2>4. \A u \in Tasks : task'[u].kind # "reconcile"
    BY <1>3, <2>1, NoReconcile
  <2>5. QED
    BY <1>3, <2>1, <2>2, <2>3, <2>4 DEF WinInv
<1>4. CASE StartEnable(t)
  <2>1. /\ state.kind = "disabled" /\ state' = Transitioning(next.id + 1, "disabled")
        /\ task' = [task EXCEPT ![t] = Work("transition", TRUE, next.id + 1, 0, 0, 0)]
    BY <1>4, AlwaysConsistent DEF StartEnable, Enforce
  <2>2. \A w \in Windows \ stray : shield[w] = "none"
    BY <1>1, <2>1 DEF WinInv
  <2>3. state'.kind = "transitioning" /\ state'.id = next.id + 1
    BY <2>1 DEF Transitioning, Mode
  <2>4. QED
    BY <1>3, <2>1, <2>2, <2>3
<1>5. ASSUME NEW token \in 1..MaxGen, StartDisable(t, token) PROVE WinInv'
  <2>1. /\ state.kind = "enabled" /\ state' = Transitioning(next.id + 1, "enabled")
        /\ task' = [task EXCEPT ![t] = Work("transition", FALSE, next.id + 1, next.lease, slot.gen, token)]
    BY <1>5, AlwaysConsistent DEF StartDisable, Enforce
  <2>2. \A w \in Windows \ stray : shield[w] = "excluded"
    BY <2>1 DEF WinInv
  <2>3. state'.kind = "transitioning" /\ state'.id = next.id + 1
    BY <2>1 DEF Transitioning, Mode
  <2>4. QED
    BY <1>3, <2>1, <2>2, <2>3
<1>6. CASE StartUp(t)
  <2>1. /\ state.kind = "disabled" /\ state' = state
        /\ task' = [task EXCEPT ![t] = Work("startup", TRUE, 0, 0, 0, 0)]
    BY <1>6 DEF StartUp, Becomes
  <2>2. \A w \in Windows \ stray : shield[w] = "none"
    BY <1>1, <2>1 DEF WinInv
  <2>3. QED
    BY <1>3, <2>1, <2>2
<1>7. CASE StartReconcile(t)
  <2> DEFINE j == [Idle EXCEPT !.pc = "apply", !.kind = "reconcile", !.on = (state.previous = "enabled")]
  <2>1. task' = [task EXCEPT ![t] = j] /\ state' = state /\ state.kind = "quarantined" /\ ~reconciling
    BY <1>7 DEF StartReconcile, Becomes
  <2>2. j.applied = {} /\ j.kind = "reconcile"
    BY DEF Idle
  <2> HIDE DEF j
  <2>3. task'[t] = j /\ \A u \in Tasks \ {t} : task'[u] = task[u]
    BY <2>1 DEF Typed
  <2>4. \A u \in Tasks \ {t} : task'[u].kind # "reconcile" /\ task'[u].kind # "startup"
    BY <1>1, <2>1, <2>3, NoReconcile
  <2>5. \A u \in Tasks : ~Writes(u)'
    BY <2>1, <2>2, <2>3, <2>4 DEF Writes, IsCurrent
  <2>6. QED
    BY <2>1, <2>2, <2>3, <2>4, <2>5 DEF WinInv
<1>8. QED
  BY <1>4, <1>5, <1>6, <1>7

LEMMA WinSuperseded ==
    ASSUME Typed, SlotInv, WinInv, NEW t \in Tasks, FinishSuperseded(t)
    PROVE  WinInv'
<1>1. /\ Finishing(t) /\ Ends(t) /\ UNCHANGED <<state, shield, stray>>
      /\ \A u \in Tasks : task[u].kind # "startup"
  BY NoStartUp DEF FinishSuperseded, Finishing
<1>2. /\ \A u \in Tasks \ {t} : task'[u] = task[u]
      /\ task'[t].kind = "transition" /\ ~Running(t)'
  BY <1>1, OthersStay
<1>3. \A u \in Tasks : Writes(u)' => u # t /\ Writes(u)
  BY <1>1, <1>2 DEF Writes, Running, IsCurrent
<1>4. QED
  BY <1>1, <1>2, <1>3 DEF WinInv, Traced, Target, Base

LEMMA WinFinish ==
    ASSUME Typed, SlotInv, WinInv, NEW t \in Tasks,
           FinishEnabled(t) \/ FinishDisabled(t) \/ FinishRestored(t) \/ FinishStuck(t)
    PROVE  WinInv'
<1>1. Finishing(t) /\ IsCurrent(t) /\ Ends(t) /\ UNCHANGED <<shield, stray>>
  BY DEF FinishEnabled, FinishDisabled, FinishRestored, FinishStuck
<1>2. /\ Running(t)
      /\ \A u \in Tasks \ {t} : task[u].kind # "startup" /\ task[u].kind # "reconcile"
      /\ task[t].on \in BOOLEAN /\ state.previous \in Stable
      /\ task[t].on => state.previous = "disabled" /\ slot = Empty
      /\ ~task[t].on => state.previous = "enabled" /\ Holds(t)
  BY <1>1, FinishingIs
<1>3. \A u \in Tasks : task'[u].kind # "startup" /\ task'[u].kind # "reconcile"
  BY <1>1, <1>2, OthersStay
<1>4. Traced(t) /\ task[t] \in Proper /\ task[t].pc = "done" /\ task[t].kind = "transition"
  BY <1>1, <1>2 DEF WinInv, Writes, Typed, Finishing
<1>5. CASE FinishEnabled(t)
  <2>1. state' = Enabled(next.gen) /\ task[t].on /\ task[t].result = "ok"
    BY <1>2, <1>5 DEF FinishEnabled, Empty
  <2>2. state'.kind = "enabled" /\ task[t].applied = Windows
    BY <1>4, <2>1 DEF Enabled, Mode, Proper
  <2>3. \A w \in Windows \ stray : shield[w] = "excluded"
    BY <1>4, <2>1, <2>2 DEF Traced, Target
  <2>4. QED
    BY <1>1, <1>3, <2>2, <2>3, WinSettled
<1>6. CASE FinishDisabled(t)
  <2>1. state' = Disabled /\ ~task[t].on /\ task[t].result = "ok"
    BY <1>2, <1>6 DEF FinishDisabled
  <2>2. state'.kind = "disabled" /\ task[t].applied = Windows
    BY <1>4, <2>1 DEF Disabled, Mode, Proper
  <2>3. \A w \in Windows \ stray : shield[w] = "none"
    BY <1>4, <2>1, <2>2 DEF Traced, Target
  <2>4. QED
    BY <1>1, <1>3, <2>2, <2>3, WinSettled
<1>7. CASE FinishRestored(t)
  <2>1. task[t].applied = {}
    BY <1>4, <1>7 DEF FinishRestored, Proper
  <2>2. \A w \in Windows \ stray : shield[w] = Base(t)
    BY <1>4, <2>1 DEF Traced
  <2>3. CASE task[t].on
    <3>1. state'.kind = "disabled"
      BY <1>2, <1>7, <2>3 DEF FinishRestored, Disabled, Mode
    <3>2. QED
      BY <1>1, <1>3, <2>2, <2>3, <3>1, WinSettled DEF Base
  <2>4. CASE ~task[t].on
    <3>1. state'.kind = "enabled"
      BY <1>2, <1>7, <2>4 DEF FinishRestored, Enabled, Mode
    <3>2. QED
      BY <1>1, <1>3, <2>2, <2>4, <3>1, WinSettled DEF Base
  <2>5. QED
    BY <2>3, <2>4
<1>8. CASE FinishStuck(t)
  <2>1. state'.kind = "quarantined"
    BY <1>8 DEF FinishStuck, Quarantined, Mode
  <2>2. QED
    BY <1>1, <1>3, <2>1, WinSettled
<1>9. QED
  BY <1>5, <1>6, <1>7, <1>8

LEMMA WinOtherEnds ==
    ASSUME Typed, SlotInv, WinInv, NEW t \in Tasks, StartUpEnds(t) \/ ReconcileEnds(t)
    PROVE  WinInv'
<1>1. Ends(t) /\ UNCHANGED <<shield, stray>> /\ task[t] \in Proper /\ task[t] \in Jobs
  BY DEF StartUpEnds, ReconcileEnds, Typed, Proper
<1>2. CASE StartUpEnds(t)
  <2>1. task[t].kind = "startup" /\ task[t].pc = "done" /\ task[t].on
    BY <1>1, <1>2 DEF StartUpEnds, Proper
  <2>2. /\ state.kind = "disabled" /\ Traced(t)
        /\ \A u \in Tasks \ {t} : task[u].kind # "startup" /\ task[u].kind # "reconcile"
    BY <2>1, NoReconcile DEF SlotInv, StartUpAlone, WinInv, Writes
  <2>3. \A u \in Tasks : task'[u].kind # "startup" /\ task'[u].kind # "reconcile"
    BY <1>1, <2>2, OthersStay
  <2>4. CASE task[t].result = "ok"
    <3>1. state'.kind = "enabled" /\ task[t].applied = Windows
      BY <1>1, <1>2, <2>1, <2>4 DEF StartUpEnds, Enabled, Mode, Proper
    <3>2. \A w \in Windows \ stray : shield[w] = "excluded"
      BY <2>1, <2>2, <3>1 DEF Traced, Target
    <3>3. QED
      BY <1>1, <2>3, <3>1, <3>2, WinSettled
  <2>5. CASE task[t].result = "failed"
    <3>1. state' = state /\ task[t].applied = {}
      BY <1>1, <1>2, <2>1, <2>5 DEF StartUpEnds, Proper
    <3>2. \A w \in Windows \ stray : shield[w] = "none"
      BY <2>1, <2>2, <3>1 DEF Traced, Base
    <3>3. QED
      BY <1>1, <2>2, <2>3, <3>1, <3>2, WinSettled
  <2>6. CASE task[t].result = "stuck"
    <3>1. state'.kind = "quarantined"
      BY <1>2, <2>6 DEF StartUpEnds, Quarantined, Mode
    <3>2. QED
      BY <1>1, <2>3, <3>1, WinSettled
  <2>7. task[t].result \in {"ok", "failed", "stuck"}
    BY <1>1, <2>1 DEF Proper, Jobs
  <2>8. QED
    BY <2>4, <2>5, <2>6, <2>7
<1>3. CASE ReconcileEnds(t)
  <2>1. task[t].kind = "reconcile" /\ task[t].pc = "done" /\ Unlocked
    BY <1>3 DEF ReconcileEnds
  <2>2. /\ state.kind = "quarantined" /\ state \in Modes
        /\ \A w \in task[t].applied \ stray : shield[w] = Target(t)
        /\ \A u \in Tasks \ {t} : task[u].kind # "startup" /\ task[u].kind # "reconcile"
    BY <2>1, NoStartUp DEF SlotInv, ReconcileAlone, WinInv, Typed, CoordinatorOK
  <2>3. \A u \in Tasks : task'[u].kind # "startup" /\ task'[u].kind # "reconcile"
    BY <1>1, <2>2, OthersStay
  <2>4. CASE task[t].result = "ok"
    <3>1. task[t].applied = Windows
      BY <1>1, <2>1, <2>4 DEF Proper
    <3>2. CASE task[t].on
      <4>1. state'.kind = "enabled"
        BY <1>3, <2>4, <3>2 DEF ReconcileEnds, Enabled, Mode
      <4>2. QED
        BY <1>1, <2>2, <2>3, <3>1, <3>2, <4>1, WinSettled DEF Target
    <3>3. CASE ~task[t].on
      <4>1. state'.kind = "disabled"
        BY <1>3, <2>4, <3>3 DEF ReconcileEnds, Disabled, Mode
      <4>2. QED
        BY <1>1, <2>2, <2>3, <3>1, <3>3, <4>1, WinSettled DEF Target
    <3>4. QED
      BY <3>2, <3>3
  <2>5. CASE task[t].result # "ok"
    <3>1. state' = [state EXCEPT !.reason = "reconcile_failed"]
      BY <1>3, <2>2, <2>5 DEF ReconcileEnds
    <3>2. state'.kind = "quarantined"
      BY <2>2, <3>1 DEF Modes
    <3>3. QED
      BY <1>1, <2>3, <3>2, WinSettled
  <2>6. QED
    BY <2>4, <2>5
<1>4. QED
  BY <1>2, <1>3

LEMMA WinNext == Typed /\ SlotInv /\ WinInv /\ [Next]_vars => WinInv'
<1> SUFFICES ASSUME Typed, SlotInv, WinInv, [Next]_vars PROVE WinInv'
  OBVIOUS
<1>1. CASE UNCHANGED vars
  BY <1>1 DEF vars, WinInv, Writes, Running, IsCurrent, Traced, Target, Base
<1>2. CASE Reap
  <2>1. /\ \A t \in Tasks : task'[t].kind # "startup" /\ task'[t].kind # "reconcile"
        /\ UNCHANGED <<shield, stray>> /\ state'.kind = "quarantined"
    BY <1>2, NoStartUp, NoReconcile DEF Reap, Quarantined, Mode
  <2>2. QED
    BY <2>1, WinSettled
<1>3. CASE Adopt
  <2>1. /\ state.kind \in Stable /\ UNCHANGED <<task, shield, stray>>
        /\ state' = (IF state.kind = "enabled" THEN Enabled(next.gen) ELSE state)
    BY <1>3, AlwaysConsistent DEF Adopt, Enforce
  <2>2. \A t \in Tasks : task'[t].kind # "startup" /\ task'[t].kind # "reconcile"
    BY <1>3, <2>1, NoStartUp, NoReconcile DEF Adopt, Stable
  <2>3. state'.kind = state.kind
    BY <2>1 DEF Enabled, Mode
  <2>4. QED
    BY <2>1, <2>2, <2>3, WinSettled DEF WinInv, Stable
<1>4. ASSUME NEW t \in Tasks, Section(t) PROVE WinInv'
  BY <1>4, WinStart, WinSuperseded, WinFinish, WinOtherEnds DEF Section
<1>5. ASSUME NEW t \in Tasks, SystemCall(t) PROVE WinInv'
  BY <1>5, WinSystemCall
<1>6. QED
  BY <1>1, <1>2, <1>3, <1>4, <1>5 DEF Next

-----------------------------------------------------------------------------
(* The theorems.                                                             *)

(* In every state of privacy_controller.rs's coordinator the mode, the slot   *)
(* and every thread's task are well-formed, and each generation, lease and    *)
(* transition number in use was handed out by its counter.                    *)
THEOREM TypeCorrect == Spec => []TypeOK
<1>1. Spec => []Typed
  BY TypeInit, TypeNext, PTL DEF Spec
<1>2. QED
  BY <1>1, TypedTypes, PTL

LEMMA Inductive == Spec => [](Typed /\ SlotInv)
<1>1. Init => Typed /\ SlotInv
  BY TypeInit, SlotInit
<1>2. Typed /\ SlotInv /\ [Next]_vars => Typed' /\ SlotInv'
  BY TypeNext, SlotNext
<1>3. QED
  BY <1>1, <1>2, PTL DEF Spec

(* The token slot always fits the mode: an enabled protection has exactly one  *)
(* token, not on lease, that turns it off, a disabled one has none, and no     *)
(* caller ever meets token_invariant_violation, whichever transitions were     *)
(* given up after 30 s and come back to release or finish.                     *)
THEOREM SlotFits == Spec => []SlotMatchesState
<1>1. SlotInv => SlotMatchesState
  BY DEF SlotInv
<1>2. QED
  BY <1>1, Inductive, PTL

(* When the mode is settled every window shows what it says, whichever calls   *)
(* failed and were rolled back or reconciled - but for the windows that a      *)
(* given-up task, or a step that failed, wrote last.                           *)
THEOREM WindowsFit == Spec => []WindowsMatchState
<1>1. Init => Typed /\ SlotInv /\ WinInv
  BY TypeInit, SlotInit, WinInit
<1>2. Typed /\ SlotInv /\ WinInv /\ [Next]_vars => Typed' /\ SlotInv' /\ WinInv'
  BY TypeNext, SlotNext, WinNext
<1>3. Typed /\ SlotInv /\ WinInv => WindowsMatchState
  BY NoStartUp DEF WinInv, WindowsMatchState
<1>4. QED
  BY <1>1, <1>2, <1>3, PTL DEF Spec

\* The only section that turns an enabled protection off.
LEMMA OffStep ==
    ASSUME Typed, SlotInv, [Next]_vars, Side = "on", Side' = "off"
    PROVE  \E t \in Tasks : /\ task[t].kind = "transition" /\ task[t].pc = "done"
                            /\ IsCurrent(t)
                            /\ slot.kind = "active" /\ slot.gen = task[t].token
<1>0. state \in Modes
  BY DEF Typed, CoordinatorOK
<1>1. state' # state
  BY DEF Side
<1>2. ASSUME Reap \/ Adopt PROVE FALSE
  <2>1. CASE Reap
    BY <1>0, <2>1 DEF Reap, Side, Quarantined, Mode
  <2>2. CASE Adopt
    BY <1>0, <1>1, <2>2, AlwaysConsistent DEF Adopt, Enforce, Side, Enabled, Mode
  <2>3. QED
    BY <1>2, <2>1, <2>2
<1>3. ASSUME NEW t \in Tasks,
             \/ StartEnable(t) \/ StartUp(t) \/ StartReconcile(t)
             \/ \E token \in 1..MaxGen : StartDisable(t, token)
      PROVE  FALSE
  <2>1. CASE StartEnable(t)
    BY <2>1 DEF StartEnable, Side
  <2>2. CASE StartUp(t) \/ StartReconcile(t)
    BY <1>1, <2>2 DEF StartUp, StartReconcile
  <2>3. ASSUME NEW token \in 1..MaxGen, StartDisable(t, token) PROVE FALSE
    <3>1. state' = Transitioning(next.id + 1, "enabled")
      BY <2>3, AlwaysConsistent DEF StartDisable, Enforce
    <3>2. Side' = "on"
      BY <3>1 DEF Side, Transitioning, Mode
    <3>3. QED
      BY <3>2
  <2>4. QED
    BY <1>3, <2>1, <2>2, <2>3
<1>4. ASSUME NEW t \in Tasks,
             FinishSuperseded(t) \/ FinishEnabled(t) \/ FinishRestored(t) \/ FinishStuck(t)
      PROVE  FALSE
  <2>1. CASE FinishSuperseded(t)
    BY <1>1, <2>1 DEF FinishSuperseded
  <2>2. CASE FinishEnabled(t)
    BY <1>0, <2>2 DEF FinishEnabled, Side, Enabled, Quarantined, Mode, IsCurrent
  <2>3. CASE FinishRestored(t)
    BY <1>0, <2>3 DEF FinishRestored, Side, Enabled, Disabled, Mode, IsCurrent
  <2>4. CASE FinishStuck(t)
    BY <1>0, <2>4 DEF FinishStuck, Side, Quarantined, Mode, IsCurrent
  <2>5. QED
    BY <1>4, <2>1, <2>2, <2>3, <2>4
<1>5. ASSUME NEW t \in Tasks, StartUpEnds(t) PROVE FALSE
  <2>1. state.kind = "disabled"
    BY <1>5 DEF StartUpEnds, SlotInv, StartUpAlone
  <2>2. QED
    BY <2>1 DEF Side
<1>6. ASSUME NEW t \in Tasks, ReconcileEnds(t) PROVE FALSE
  <2>1. state.kind = "quarantined" /\ (task[t].on <=> state.previous = "enabled")
    BY <1>6 DEF ReconcileEnds, SlotInv, ReconcileAlone
  <2>2. state' = Enabled(next.gen) \/ state' = [state EXCEPT !.reason = "reconcile_failed"]
    BY <1>6, <2>1 DEF ReconcileEnds, Side
  <2>3. Side' = "on"
    BY <1>0, <2>1, <2>2 DEF Side, Enabled, Mode, Modes
  <2>4. QED
    BY <2>3
<1>7. ASSUME NEW t \in Tasks, SystemCall(t) PROVE FALSE
  BY <1>1, <1>7, CallKeeps DEF coordinator
<1>8. ASSUME NEW t \in Tasks, FinishDisabled(t)
      PROVE  /\ task[t].kind = "transition" /\ task[t].pc = "done" /\ IsCurrent(t)
             /\ slot.kind = "active" /\ slot.gen = task[t].token
  <2>1. Finishing(t) /\ IsCurrent(t) /\ ~task[t].on /\ Finishing(t)
    BY <1>8 DEF FinishDisabled
  <2>2. task[t].kind = "transition" /\ task[t].pc = "done"
    BY <2>1 DEF Finishing
  <2>3. Holds(t)
    BY <2>1, FinishingIs
  <2>4. task[t].gen = task[t].token
    BY <2>1, <2>2 DEF Typed, Proper
  <2>5. QED
    BY <2>1, <2>2, <2>3, <2>4 DEF Holds
<1>9. Next
  BY <1>1 DEF vars
<1>10. QED
  BY <1>2, <1>3, <1>4, <1>5, <1>6, <1>7, <1>8, <1>9 DEF Next, Section

(* No quarantine, reconcile, start-up or late thread turns an enabled          *)
(* protection off: the step that does is the end of the transition in force,   *)
(* started by a caller that presented the token of the present generation.     *)
THEOREM OffByToken == Spec => OffNeedsToken
<1>1. Typed /\ SlotInv /\ [Next]_vars =>
          [(Side = "on" /\ Side' = "off") =>
              \E t \in Tasks : /\ task[t].kind = "transition" /\ task[t].pc = "done"
                               /\ IsCurrent(t)
                               /\ slot.kind = "active" /\ slot.gen = task[t].token]_vars
  BY OffStep
<1>2. QED
  BY <1>1, Inductive, PTL DEF Spec, OffNeedsToken

-------------------------------------------------------------------------------
(* The guard in front of passwords.                                            *)

(* A command runs only once the flag is up, one of them does the loading, and  *)
(* a key is unlocked only after a command has passed.                          *)
LoadedFirst ==
    /\ ~loaded => (key = "NoKey" /\ \A c \in Calls : call[c] = None)
    /\ \A c, d \in Calls : call[c] # None /\ call[d] # None /\ call[c].at = "load" /\ call[d].at = "load"
                              => c = d

(* What the guard knows once it is loaded ... *)
Told ==
    /\ now < lockedTill => lockUntil >= lockedTill
    /\ now < purgeTill => purge /\ purgeAt + AutoClear >= purgeTill
    /\ purgeTill <= now + AutoClear
    /\ since = total - lastPurge

MemoryHolds == sound /\ loaded /\ ~Loading => Told

(* ... and what a restart would find: the file may leave out a second of the    *)
(* lock, which the restart that has to load it has paid for.                    *)
Rest == file.left * Second
LeftOut == IF loaded /\ ~Loading THEN Second ELSE 0

Written ==
    /\ now + LeftOut < lockedTill => now + Rest + LeftOut >= lockedTill
    /\ now < purgeTill => file.purge
    /\ purgeTill <= now + AutoClear
    /\ since = file.total - file.lastPurge

FileHolds == sound => Written

IInv == GateTypeOK /\ LoadedFirst /\ MemoryHolds /\ FileHolds

-------------------------------------------------------------------------------
(* Cutting off the part of a second loses less than one. *)
LEMMA WholeSeconds ==
    ASSUME NEW n \in Nat
    PROVE  n \div Second \in Nat /\ (n \div Second) * Second > n - Second
  BY GateAssumption

LEMMA RestIsTime ==
    ASSUME FileOK
    PROVE  Rest \in Nat /\ (file.left = 0 => Rest = 0) /\ LeftOut \in Nat
<1>1. file.left \in Nat /\ Second \in Nat
  BY GateAssumption DEF FileOK
<1>2. Rest \in Nat /\ (file.left = 0 => Rest = 0)
  BY <1>1 DEF Rest
<1>3. QED
  BY <1>1, <1>2 DEF LeftOut

LEMMA InitInv == GateInit => IInv
<1> SUFFICES ASSUME GateInit PROVE IInv
  OBVIOUS
<1>1. FileOK
  <2>1. file = [inRow |-> 0, total |-> 0, left |-> 0, purge |-> FALSE, lastPurge |-> 0]
    BY DEF GateInit
  <2>2. file \in [inRow : 0..(LockThreshold - 1), total : Nat, left : Nat, purge : BOOLEAN,
                  lastPurge : Nat]
    BY <2>1, GateAssumption
  <2>3. QED
    BY <2>1, <2>2, GateAssumption DEF FileOK
<1>2. GuardOK
  <2>1. total = 0 /\ lastPurge = 0 /\ inRow = 0 /\ lockUntil = 0 /\ purgeAt = 0 /\ nextRecord = 0
    BY DEF GateInit
  <2>2. purge \in BOOLEAN /\ lockedTill = 0 /\ purgeTill = 0 /\ since = 0
    BY DEF GateInit
  <2>3. inRow \in 0..(LockThreshold - 1) /\ total - lastPurge < PurgeThreshold
    BY <2>1, GateAssumption
  <2>4. QED
    BY <2>1, <2>2, <2>3 DEF GuardOK
<1>3. KeysOK /\ CallOK
  BY DEF GateInit, KeysOK, CallOK
<1>4. RestOK
  BY DEF GateInit, RestOK
<1>5. LoadedFirst /\ MemoryHolds
  BY DEF GateInit, LoadedFirst, MemoryHolds
<1>6. FileHolds
  <2>1. lockedTill = 0 /\ now = 0 /\ LeftOut = 0
    BY DEF GateInit, LeftOut
  <2>2. purgeTill = 0 /\ since = 0 /\ file.total = 0 /\ file.lastPurge = 0
    BY DEF GateInit
  <2>3. QED
    BY <2>1, <2>2, GateAssumption DEF FileHolds, Written
<1>7. QED
  BY <1>1, <1>2, <1>3, <1>4, <1>5, <1>6 DEF IInv, GateTypeOK

-------------------------------------------------------------------------------
(* What record_failure does to the counters, whichever branch it takes. *)
LEMMA FailureCounts ==
    ASSUME GuardOK, now \in Nat, RecordFailure
    PROVE  GuardOK'
<1> USE GateAssumption
<1>1. CASE InLock
  BY <1>1 DEF RecordFailure, guard, history, GuardOK
<1>2. CASE ~InLock /\ (purge \/ now < nextRecord)
  BY <1>2 DEF RecordFailure, guard, history, InLock, GuardOK
<1>3. CASE ~InLock /\ ~purge /\ now >= nextRecord
  <2>1. CASE PurgeDue(total + 1 - lastPurge)
    <3>1. /\ total' = total + 1 /\ lastPurge' = total + 1 /\ purge' = TRUE /\ purgeAt' = now
          /\ inRow' = 0 /\ lockUntil' = 0 /\ lockedTill' = 0 /\ purgeTill' = now + AutoClear
          /\ since' = 0 /\ nextRecord' = now + RateLimit
      BY <1>3, <2>1 DEF RecordFailure, InLock, PurgeDue, GuardOK
    <3>2. total' - lastPurge' = 0
      BY <3>1 DEF GuardOK
    <3>3. QED
      BY <3>1, <3>2 DEF GuardOK
  <2>2. CASE ~PurgeDue(total + 1 - lastPurge)
    <3>1. /\ total' = total + 1 /\ nextRecord' = now + RateLimit /\ since' = since + 1
          /\ purge' = purge /\ purgeAt' = purgeAt /\ lastPurge' = lastPurge /\ purgeTill' = purgeTill
      BY <1>3, <2>2 DEF RecordFailure, InLock, PurgeDue, GuardOK
    <3>2. /\ inRow' \in 0..(LockThreshold - 1) /\ lockUntil' \in Nat /\ lockedTill' \in Nat
      BY <1>3, <2>2 DEF RecordFailure, InLock, PurgeDue, GuardOK
    <3>3. purge' \in BOOLEAN /\ purgeAt' \in Nat /\ purgeTill' \in Nat /\ lastPurge' \in Nat
      BY <3>1 DEF GuardOK
    <3>4. total + 1 - lastPurge < PurgeThreshold
      BY <2>2 DEF PurgeDue, GuardOK
    <3>5. total' \in Nat /\ lastPurge' <= total' /\ total' - lastPurge' < PurgeThreshold
      BY <3>1, <3>4 DEF GuardOK
    <3>6. nextRecord' \in Nat /\ since' \in Nat
      BY <3>1 DEF GuardOK
    <3>7. QED
      BY <3>2, <3>3, <3>5, <3>6 DEF GuardOK
  <2>3. QED
    BY <2>1, <2>2
<1>4. QED
  BY <1>1, <1>2, <1>3 DEF GuardOK

(* A lock or a purge imposed by record_failure is as long as the history says, *)
(* and nothing shortens the one in force.                                      *)
LEMMA FailureRemembers ==
    ASSUME GuardOK, now \in Nat, now' = now, RecordFailure, Told
    PROVE  Told'
<1> USE GateAssumption DEF Told, GuardOK
<1>1. CASE InLock
  BY <1>1 DEF RecordFailure, guard, history
<1>2. CASE ~InLock /\ (purge \/ now < nextRecord)
  BY <1>2 DEF RecordFailure, guard, history, InLock
<1>3. CASE ~InLock /\ ~purge /\ now >= nextRecord
  <2>1. CASE PurgeDue(total + 1 - lastPurge)
    BY <1>3, <2>1 DEF RecordFailure, InLock, PurgeDue
  <2>2. CASE ~PurgeDue(total + 1 - lastPurge)
    <3>1. /\ total' = total + 1 /\ since' = since + 1 /\ UNCHANGED <<purge, purgeAt, lastPurge, purgeTill>>
      BY <1>3, <2>2 DEF RecordFailure, InLock, PurgeDue
    <3>2. now < lockedTill' => lockUntil' >= lockedTill'
      BY <1>3, <2>2 DEF RecordFailure, InLock, PurgeDue
    <3>3. QED
      BY <3>1, <3>2
  <2>3. QED
    BY <2>1, <2>2
<1>4. QED
  BY <1>1, <1>2, <1>3

LEMMA SuccessCounts ==
    ASSUME GuardOK, now \in Nat, RecordSuccess
    PROVE  GuardOK'
BY GateAssumption DEF GuardOK, RecordSuccess

LEMMA SuccessRemembers ==
    ASSUME GuardOK, now \in Nat, now' = now, RecordSuccess, Told
    PROVE  Told'
BY GateAssumption DEF GuardOK, RecordSuccess, Told

(* What a report leaves in the guard is what a save is to write down. *)
Keeps == sound /\ ~Loading => Told'

(* What is saved of a lock, with a second more, is the whole of what it has left. *)
LEMMA TimeLeft ==
    ASSUME now \in Nat, NEW lock \in Nat, NEW left \in SecondsLeft(lock)
    PROVE  left \in Nat /\ now + left * Second + Second >= lock
<1>1. Second \in Nat \ {0}
  BY GateAssumption
<1>2. CASE now < lock
  <2>1. lock - now \in Nat /\ lock - now - 1 \in Nat
    BY <1>2
  <2>2. left = (lock - now) \div Second \/ left = (lock - now - 1) \div Second
    BY <1>2 DEF SecondsLeft
  <2>3. left \in Nat /\ left * Second > lock - now - 1 - Second
    <3>1. CASE left = (lock - now) \div Second
      <4>1. left \in Nat /\ left * Second > lock - now - Second
        BY <2>1, <3>1, WholeSeconds
      <4>2. left * Second \in Nat
        BY <1>1, <4>1
      <4>3. QED
        BY <1>1, <4>1, <4>2
    <3>2. CASE left = (lock - now - 1) \div Second
      BY <2>1, <3>2, WholeSeconds
    <3>3. QED
      BY <2>2, <3>1, <3>2
  <2>4. left * Second \in Nat
    BY <1>1, <2>3
  <2>5. QED
    BY <1>1, <2>3, <2>4
<1>3. CASE ~(now < lock)
  <2>1. left = 0
    BY <1>3 DEF SecondsLeft
  <2>2. left * Second = 0
    BY <1>1, <2>1
  <2>3. QED
    BY <1>1, <1>3, <2>1, <2>2
<1>4. QED
  BY <1>2, <1>3

LEMMA Longer ==
    ASSUME NEW n \in Nat, NEW rest \in Nat, NEW out \in Nat, NEW t \in Nat, NEW u \in Nat,
           n + rest + out >= u, u >= t
    PROVE  n + rest + out >= t
OBVIOUS

(* A save puts into the file what the guard knows. *)
LEMMA SaveHolds ==
    ASSUME IInv, Persist, UNCHANGED <<now, loaded, crashes>>, GuardOK', Keeps,
           loaded, Loading' <=> Loading
    PROVE  RestOK' /\ FileOK' /\ MemoryHolds' /\ FileHolds'
<1> USE GateAssumption
<1>1. RestOK /\ FileOK
  BY DEF IInv, GateTypeOK
<1>2. now' \in Nat /\ crashes' \in Nat /\ loaded' \in BOOLEAN /\ fileFaults \in Nat /\ sound \in BOOLEAN
  BY <1>1 DEF RestOK
<1>3. CASE file' \in Saved(inRow', total', lockUntil', purge', lastPurge')
           /\ sound' = (sound /\ ~Loading) /\ fileFaults' = fileFaults
  <2>0. now \in Nat /\ lockUntil' \in Nat
    BY <1>1 DEF RestOK, GuardOK
  <2>2. PICK left \in SecondsLeft(lockUntil') :
             file' = [inRow |-> inRow', total |-> total', left |-> left, purge |-> purge',
                      lastPurge |-> lastPurge']
    BY <1>3 DEF Saved
  <2>1. left \in Nat /\ now + left * Second + Second >= lockUntil'
    BY <2>0, TimeLeft
  <2>3. file' \in [inRow : 0..(LockThreshold - 1), total : Nat, left : Nat, purge : BOOLEAN,
                    lastPurge : Nat]
    BY <2>1, <2>2 DEF GuardOK
  <2>4. /\ file'.inRow = inRow' /\ file'.total = total' /\ file'.left = left
        /\ file'.purge = purge' /\ file'.lastPurge = lastPurge'
    BY <2>2
  <2>5. FileOK'
    BY <2>3, <2>4 DEF FileOK, GuardOK
  <2>6. RestOK'
    BY <1>2, <1>3 DEF RestOK
  <2>7. sound' => Told'
    BY <1>3 DEF Keeps
  <2>8. MemoryHolds'
    BY <2>7 DEF MemoryHolds
  <2>9. FileHolds'
    <3>1. SUFFICES ASSUME sound', Told' PROVE Written'
      BY <2>7 DEF FileHolds
    <3>2. now' = now
      OBVIOUS
    <3>3. loaded' /\ ~Loading' /\ Rest' = left * Second
      BY <1>3, <2>4, <3>1 DEF Rest
    <3>4. LeftOut' = Second
      BY <3>3 DEF LeftOut
    <3>5. Rest' \in Nat /\ now + Rest' + Second >= lockUntil' /\ lockedTill' \in Nat
      <4>1. left * Second \in Nat
        BY <2>1
      <4>2. QED
        BY <2>1, <3>3, <4>1 DEF GuardOK
    <3>6. now' + LeftOut' < lockedTill' => now' + Rest' + LeftOut' >= lockedTill'
      <4>1. now' < lockedTill' => lockUntil' >= lockedTill'
        BY <3>1 DEF Told
      <4>2. SUFFICES ASSUME now + Second < lockedTill' PROVE now + Rest' + Second >= lockedTill'
        BY <3>2, <3>4
      <4>3. now < lockedTill'
        BY <2>0, <3>5, <4>2
      <4>4. lockUntil' >= lockedTill'
        BY <3>2, <4>1, <4>3
      <4>5. Second \in Nat
        OBVIOUS
      <4>6. QED
        BY <2>0, <3>5, <4>4, <4>5, Longer
    <3>7. QED
      BY <2>4, <3>1, <3>6 DEF Told, Written
  <2>10. QED
    BY <2>5, <2>6, <2>8, <2>9
<1>4. CASE fileFaults' = fileFaults + 1 /\ sound' = FALSE /\ file' = file
  <2>0. fileFaults' \in Nat /\ sound' \in BOOLEAN
    <3>1. fileFaults' \in Nat
      BY <1>2, <1>4
    <3>2. QED
      BY <3>1, <1>4
  <2>1. RestOK'
    BY <1>2, <2>0 DEF RestOK
  <2>2. FileOK'
    BY <1>1, <1>4 DEF FileOK
  <2>3. QED
    BY <1>4, <2>1, <2>2 DEF MemoryHolds, FileHolds
<1>5. QED
  BY <1>3, <1>4 DEF Persist

(* A command that is past the load ends, or goes on to the worker. *)
LEMMA CallEnds ==
    ASSUME CallOK, LoadedFirst, NEW c \in Calls, call[c] # None, call[c].at # "load",
           NEW v \in {None} \cup Commands, v # None => v.at # "load",
           call' = [call EXCEPT ![c] = v], loaded' = loaded
    PROVE  loaded /\ CallOK' /\ LoadedFirst' /\ (Loading' <=> Loading)
<1>1. loaded
  BY DEF LoadedFirst
<1>2. CallOK'
  BY DEF CallOK
<1>3. \A d \in Calls : call'[d] = IF d = c THEN v ELSE call[d]
  BY DEF CallOK
<1>4. LoadedFirst'
  BY <1>1, <1>3 DEF LoadedFirst
<1>5. Loading' <=> Loading
  BY <1>3 DEF Loading
<1>6. QED
  BY <1>1, <1>2, <1>4, <1>5

(* An attempt that reports: what it did to the guard is saved. *)
LEMMA Reported ==
    ASSUME IInv, NEW c \in Calls, call[c] # None, call[c].at # "load", Return(c),
           RecordFailure \/ RecordSuccess, Persist, KeysOK', UNCHANGED <<now, loaded, crashes>>
    PROVE  IInv'
<1>0. now \in Nat /\ GuardOK
  BY DEF IInv, GateTypeOK, RestOK
<1>1. loaded /\ CallOK' /\ LoadedFirst' /\ (Loading' <=> Loading)
  BY CallEnds DEF IInv, GateTypeOK, Return
<1>2. GuardOK'
  BY <1>0, FailureCounts, SuccessCounts
<1>3. Keeps
  BY <1>0, <1>1, FailureRemembers, SuccessRemembers DEF IInv, MemoryHolds, Keeps
<1>4. RestOK' /\ FileOK' /\ MemoryHolds' /\ FileHolds'
  BY <1>1, <1>2, <1>3, SaveHolds
<1>5. QED
  BY <1>1, <1>2, <1>4 DEF IInv, GateTypeOK

LEMMA CooldownIsTime == ASSUME NEW n \in Nat PROVE Cooldown(n) \in Nat
BY GateAssumption DEF Cooldown

LEMMA KeyFailsOK == ASSUME IInv, KeyFails PROVE KeysOK'
<1>1. key \in {"NoKey", "Locked", "Unlocked"} /\ keyFailures \in Nat /\ coolUntil \in Nat /\ now \in Nat
  BY DEF IInv, GateTypeOK, KeysOK, RestOK
<1>2. key' = key /\ keyFailures' = keyFailures + 1
  BY DEF KeyFails
<1>3. coolUntil' \in Nat
  <2>1. CASE keyFailures + 1 > CooldownThreshold
    <3>1. keyFailures + 1 - CooldownThreshold \in Nat
      BY <1>1, <2>1, GateAssumption
    <3>2. Cooldown(keyFailures + 1 - CooldownThreshold) \in Nat
      BY <3>1, CooldownIsTime
    <3>3. coolUntil' = now + Cooldown(keyFailures + 1 - CooldownThreshold)
      BY <2>1 DEF KeyFails
    <3>4. QED
      BY <1>1, <3>2, <3>3
  <2>2. CASE ~(keyFailures + 1 > CooldownThreshold)
    BY <1>1, <2>2 DEF KeyFails
  <2>3. QED
    BY <2>1, <2>2
<1>4. QED
  BY <1>1, <1>2, <1>3 DEF KeysOK

(* A step that leaves the guard, the file and the histories alone. *)
LEMMA Untouched ==
    ASSUME IInv, UNCHANGED <<now, guard, file, loaded, crashes, fileFaults, history, sound>>,
           CallOK', LoadedFirst', KeysOK', Loading' <=> Loading
    PROVE  IInv'
<1>1. GuardOK' /\ FileOK' /\ RestOK'
  BY DEF IInv, GateTypeOK, GuardOK, FileOK, RestOK, guard, history
<1>2. Told' <=> Told
  BY DEF Told, guard, history
<1>3. MemoryHolds'
  BY <1>2 DEF IInv, MemoryHolds
<1>4. Written' <=> Written
  BY DEF Written, Rest, LeftOut, history
<1>5. FileHolds'
  BY <1>4 DEF IInv, FileHolds
<1>6. QED
  BY <1>1, <1>3, <1>5 DEF IInv, GateTypeOK

LEMMA EnterInv == ASSUME IInv, NEW c \in Calls, NEW kind \in Kinds, Enter(c, kind) PROVE IInv'
<1> DEFINE new == [kind |-> kind, at |-> IF loaded THEN "gate" ELSE "load"]
<1>1. /\ call[c] = None /\ loaded' = TRUE /\ call' = [call EXCEPT ![c] = new]
      /\ UNCHANGED <<now, guard, file, keys, crashes, fileFaults, history, sound>>
  BY DEF Enter
<1>2. new \in Commands /\ new # None /\ new.at = IF loaded THEN "gate" ELSE "load"
  BY NoneAssumption DEF Commands
<1> HIDE DEF new
<1>3. CallOK /\ KeysOK /\ RestOK /\ GuardOK /\ FileOK /\ LoadedFirst
  BY DEF IInv, GateTypeOK
<1>4. CallOK' /\ \A d \in Calls : call'[d] = IF d = c THEN new ELSE call[d]
  BY <1>1, <1>2, <1>3 DEF CallOK
<1>5. KeysOK' /\ RestOK' /\ GuardOK' /\ FileOK'
  BY <1>1, <1>3 DEF KeysOK, RestOK, GuardOK, FileOK, guard, history, keys
<1>6. LoadedFirst'
  <2>1. \A d \in Calls : call'[d] # None /\ call'[d].at = "load" =>
                             (d = c \/ (call[d] # None /\ call[d].at = "load"))
    BY <1>4
  <2>2. CASE loaded
    BY <1>1, <1>2, <1>3, <1>4, <2>1, <2>2 DEF LoadedFirst
  <2>3. CASE ~loaded
    BY <1>1, <1>3, <2>1, <2>3 DEF LoadedFirst
  <2>4. QED
    BY <2>2, <2>3
<1>7. MemoryHolds'
  <2>1. CASE loaded
    <3>1. Loading' <=> Loading
      BY <1>1, <1>2, <1>4, <2>1 DEF Loading
    <3>2. Told' <=> Told
      BY <1>1 DEF Told, guard, history
    <3>3. QED
      BY <1>1, <2>1, <3>1, <3>2 DEF IInv, MemoryHolds
  <2>2. CASE ~loaded
    <3>1. Loading'
      BY <1>2, <1>4, <2>2 DEF Loading
    <3>2. QED
      BY <3>1 DEF MemoryHolds
  <2>3. QED
    BY <2>1, <2>2
<1>8. FileHolds'
  <2>1. LeftOut' = LeftOut
    <3>1. CASE loaded
      BY <1>1, <1>2, <1>4, <3>1 DEF LeftOut, Loading
    <3>2. CASE ~loaded
      BY <1>2, <1>4, <3>2 DEF LeftOut, Loading
    <3>3. QED
      BY <3>1, <3>2
  <2>2. QED
    BY <1>1, <2>1 DEF IInv, FileHolds, Written, Rest, history
<1>9. QED
  BY <1>4, <1>5, <1>6, <1>7, <1>8 DEF IInv, GateTypeOK

(* The load takes over what the file says; the purge is taken as asked for now. *)
LEMMA LoadInv == ASSUME IInv, NEW c \in Calls, Load(c) PROVE IInv'
<1>1. CallOK /\ KeysOK /\ RestOK /\ GuardOK /\ FileOK /\ LoadedFirst
  BY DEF IInv, GateTypeOK
<1>2. /\ call[c] # None /\ call[c].at = "load" /\ call' = [call EXCEPT ![c].at = "gate"]
      /\ UNCHANGED <<now, nextRecord, file, loaded, keys, crashes, history>>
  BY DEF Load
<1>3. CallOK' /\ \A d \in Calls : IF d = c THEN call'[d] # None /\ call'[d].at = "gate"
                                              ELSE call'[d] = call[d]
  <2>1. call[c] \in Commands
    BY <1>1, <1>2 DEF CallOK
  <2>2. [call[c] EXCEPT !.at = "gate"] \in Commands /\ [call[c] EXCEPT !.at = "gate"].at = "gate"
    BY <2>1 DEF Commands
  <2>3. QED
    BY <1>1, <1>2, <2>2, NoneAssumption DEF CallOK
<1>4. LoadedFirst' /\ ~Loading' /\ loaded
  BY <1>1, <1>2, <1>3 DEF LoadedFirst, Loading
<1>5. KeysOK' /\ FileOK'
  BY <1>1, <1>2 DEF KeysOK, FileOK, keys
<1>6. CASE /\ inRow' = file.inRow /\ total' = file.total /\ purge' = file.purge
           /\ lastPurge' = file.lastPurge
           /\ lockUntil' = IF file.left > 0 THEN now + Rest ELSE 0
           /\ purgeAt' = IF file.purge THEN now ELSE 0
           /\ UNCHANGED <<fileFaults, sound>>
  <2>1. /\ file.inRow \in 0..(LockThreshold - 1) /\ file.total \in Nat /\ file.left \in Nat
        /\ file.purge \in BOOLEAN /\ file.lastPurge \in Nat /\ file.lastPurge <= file.total
        /\ file.total - file.lastPurge < PurgeThreshold /\ now \in Nat
        /\ Rest \in Nat /\ (file.left = 0 => Rest = 0) /\ LeftOut = 0
    BY <1>1, <1>2, RestIsTime DEF FileOK, RestOK, LeftOut, Loading
  <2>2. lockUntil' \in Nat /\ purgeAt' \in Nat
    BY <1>6, <2>1
  <2>3. GuardOK'
    <3>1. lockedTill' \in Nat /\ purgeTill' \in Nat /\ since' \in Nat /\ nextRecord' \in Nat
      BY <1>1, <1>2 DEF GuardOK, history
    <3>2. /\ inRow' \in 0..(LockThreshold - 1) /\ total' \in Nat /\ lastPurge' \in Nat
          /\ lastPurge' <= total' /\ total' - lastPurge' < PurgeThreshold
      BY <1>6, <2>1
    <3>3. purge' \in BOOLEAN
      BY <1>6, <2>1
    <3>4. QED
      BY <2>2, <3>1, <3>2, <3>3 DEF GuardOK
  <2>4. RestOK'
    BY <1>1, <1>2, <1>6 DEF RestOK
  <2>5. sound => Told'
    <3>1. SUFFICES ASSUME Written PROVE Told'
      BY DEF IInv, FileHolds
    <3>2. /\ now' = now /\ lockedTill' = lockedTill /\ purgeTill' = purgeTill /\ since' = since
          /\ lockedTill \in Nat /\ purgeTill \in Nat
      BY <1>1, <1>2 DEF history, GuardOK
    <3>3. now < lockedTill => lockUntil' >= lockedTill
      BY <1>6, <2>1, <3>1, <3>2 DEF Written
    <3>4. now < purgeTill => purge' /\ purgeAt' = now
      BY <1>6, <3>1 DEF Written
    <3>5. now < purgeTill => purgeAt' + AutoClear >= purgeTill
      BY <3>1, <3>4 DEF Written
    <3>6. purgeTill <= now + AutoClear /\ since = total' - lastPurge'
      BY <1>6, <3>1 DEF Written
    <3>7. QED
      BY <3>2, <3>3, <3>4, <3>5, <3>6 DEF Told
  <2>6. MemoryHolds' /\ FileHolds'
    <3>1. Rest' = Rest /\ LeftOut' = Second
      BY <1>2, <1>4 DEF Rest, LeftOut
    <3>2. /\ now' = now /\ file' = file /\ sound' = sound
          /\ UNCHANGED <<lockedTill, purgeTill, since>> /\ lockedTill \in Nat
      BY <1>1, <1>2, <1>6 DEF history, GuardOK
    <3>3. ASSUME Written PROVE Written'
      <4>1. Second \in Nat
        BY GateAssumption
      <4>2. now' + LeftOut' < lockedTill' => now' + Rest' + LeftOut' >= lockedTill'
        <5>1. now + 0 < lockedTill => now + Rest + 0 >= lockedTill
          BY <2>1, <3>3 DEF Written
        <5>2. QED
          BY <2>1, <3>1, <3>2, <4>1, <5>1
      <4>3. QED
        BY <3>2, <3>3, <4>2 DEF Written
    <3>4. QED
      BY <2>5, <3>2, <3>3 DEF IInv, MemoryHolds, FileHolds
  <2>7. QED
    BY <1>3, <1>4, <1>5, <2>3, <2>4, <2>6 DEF IInv, GateTypeOK
<1>7. CASE /\ fileFaults' = fileFaults + 1 /\ sound' = FALSE
           /\ UNCHANGED <<inRow, total, lockUntil, purge, purgeAt, lastPurge>>
  <2>1. GuardOK'
    BY <1>1, <1>2, <1>7 DEF GuardOK, history
  <2>2. RestOK'
    <3>1. fileFaults' \in Nat
      BY <1>1, <1>7 DEF RestOK
    <3>2. QED
      BY <1>1, <1>2, <1>7, <3>1 DEF RestOK
  <2>3. MemoryHolds' /\ FileHolds'
    BY <1>7 DEF MemoryHolds, FileHolds
  <2>4. QED
    BY <1>3, <1>4, <1>5, <2>1, <2>2, <2>3 DEF IInv, GateTypeOK
<1>8. QED
  BY <1>6, <1>7 DEF Load, Rest

(* Looking at the guard lets only go what is over. *)
LEMMA CheckRemembers == ASSUME GuardOK, now \in Nat, now' = now, Check, UNCHANGED history
                        PROVE  GuardOK' /\ (Told => Told')
<1> USE GateAssumption
<1>1. GuardOK'
  BY DEF GuardOK, Check, InLock, StillPurge, history
<1>2. ASSUME Told PROVE Told'
  <2>1. CASE InLock
    BY <1>2, <2>1 DEF GuardOK, Check, InLock, Told, history
  <2>2. CASE ~InLock
    BY <1>2, <2>2 DEF GuardOK, Check, InLock, StillPurge, Told, history
  <2>3. QED
    BY <2>1, <2>2
<1>3. QED
  BY <1>1, <1>2

LEMMA GateInv == ASSUME IInv, NEW c \in Calls, Gate(c) PROVE IInv'
<1>1. CallOK /\ KeysOK /\ RestOK /\ GuardOK /\ FileOK /\ LoadedFirst
  BY DEF IInv, GateTypeOK
<1>2. /\ call[c] # None /\ call[c].at = "gate" /\ Check
      /\ call' = [call EXCEPT ![c] = IF InLock \/ StillPurge THEN None ELSE [call[c] EXCEPT !.at = "trying"]]
      /\ sound' = (sound /\ ~Loading)
      /\ UNCHANGED <<now, file, loaded, keys, crashes, fileFaults, history>>
  BY DEF Gate
<1> DEFINE v == IF InLock \/ StillPurge THEN None ELSE [call[c] EXCEPT !.at = "trying"]
<1>3. v \in {None} \cup Commands /\ (v # None => v.at # "load")
  <2>1. call[c] \in Commands
    BY <1>1, <1>2 DEF CallOK
  <2>2. [call[c] EXCEPT !.at = "trying"] \in Commands /\ [call[c] EXCEPT !.at = "trying"].at = "trying"
    BY <2>1 DEF Commands
  <2>3. QED
    BY <2>2
<1>4. call' = [call EXCEPT ![c] = v]
  BY <1>2
<1> HIDE DEF v
<1>5. loaded /\ CallOK' /\ LoadedFirst' /\ (Loading' <=> Loading)
  BY <1>1, <1>2, <1>3, <1>4, CallEnds
<1>6. GuardOK' /\ (Told => Told')
  BY <1>1, <1>2, CheckRemembers DEF RestOK
<1>7. KeysOK' /\ FileOK' /\ RestOK'
  BY <1>1, <1>2 DEF KeysOK, FileOK, RestOK, keys
<1>8. MemoryHolds'
  BY <1>2, <1>5, <1>6 DEF IInv, MemoryHolds
<1>9. FileHolds'
  BY <1>2, <1>5 DEF IInv, FileHolds, Written, Rest, LeftOut, history
<1>10. QED
  BY <1>5, <1>6, <1>7, <1>8, <1>9 DEF IInv, GateTypeOK

(* The end of the purge by the front end; the file is saved with it. *)
LEMMA ClearPurgeInv == ASSUME IInv, ClearPurge PROVE IInv'
<1>1. CallOK /\ KeysOK /\ RestOK /\ GuardOK /\ LoadedFirst
  BY DEF IInv, GateTypeOK
<1>2. /\ key = "Unlocked" /\ purge' = FALSE /\ purgeAt' = 0 /\ inRow' = 0 /\ lockUntil' = 0
      /\ lockedTill' = 0 /\ purgeTill' = 0 /\ UNCHANGED <<total, lastPurge, nextRecord, since>>
      /\ Persist /\ UNCHANGED <<now, loaded, keys, call, crashes>>
  BY DEF ClearPurge
<1>3. loaded
  BY <1>1, <1>2 DEF LoadedFirst
<1>4. GuardOK'
  <2>1. inRow' \in 0..(LockThreshold - 1)
    BY <1>2, GateAssumption
  <2>2. total' - lastPurge' < PurgeThreshold /\ lastPurge' <= total'
    BY <1>1, <1>2 DEF GuardOK
  <2>3. QED
    BY <1>1, <1>2, <2>1, <2>2 DEF GuardOK
<1>5. Keeps
  <2>1. SUFFICES ASSUME Told PROVE Told'
    BY <1>3 DEF IInv, MemoryHolds, Keeps
  <2>2. QED
    BY <1>1, <1>2, <2>1, GateAssumption DEF Told, GuardOK, RestOK
<1>6. RestOK' /\ FileOK' /\ MemoryHolds' /\ FileHolds'
  BY <1>2, <1>3, <1>4, <1>5, SaveHolds DEF Loading
<1>7. KeysOK' /\ CallOK' /\ LoadedFirst'
  BY <1>1, <1>2 DEF KeysOK, CallOK, LoadedFirst, keys
<1>8. QED
  BY <1>4, <1>6, <1>7 DEF IInv, GateTypeOK

LEMMA TickInv == ASSUME IInv, Tick PROVE IInv'
<1>1. CallOK /\ KeysOK /\ RestOK /\ GuardOK /\ FileOK /\ LoadedFirst
  BY DEF IInv, GateTypeOK
<1>2. now' = now + 1 /\ UNCHANGED <<guard, file, loaded, keys, call, crashes, fileFaults, history, sound>>
  BY DEF Tick
<1>3. now' \in Nat
  BY <1>1, <1>2 DEF RestOK
<1>4. CallOK' /\ KeysOK' /\ RestOK' /\ GuardOK' /\ FileOK' /\ LoadedFirst'
  BY <1>1, <1>2, <1>3 DEF CallOK, KeysOK, RestOK, GuardOK, FileOK, LoadedFirst, guard, keys, history
<1>5. Loading' <=> Loading
  BY <1>2 DEF Loading
<1>6. Told => Told'
  BY <1>1, <1>2, GateAssumption DEF Told, RestOK, GuardOK, guard, history
<1>7. Written => Written'
  <2>1. Rest \in Nat /\ LeftOut \in Nat /\ Rest' = Rest /\ LeftOut' = LeftOut
    BY <1>1, <1>2, <1>5, RestIsTime DEF Rest, LeftOut
  <2>2. QED
    BY <1>1, <1>2, <2>1, GateAssumption DEF Written, RestOK, GuardOK, history
<1>8. QED
  BY <1>2, <1>4, <1>5, <1>6, <1>7 DEF IInv, GateTypeOK, MemoryHolds, FileHolds

(* A restart forgets the guard and nothing of the file. *)
LEMMA RestartInv == ASSUME IInv, Restart PROVE IInv'
<1>1. RestOK /\ GuardOK /\ FileOK
  BY DEF IInv, GateTypeOK
<1>2. /\ crashes' = crashes + 1 /\ loaded' = FALSE /\ KeyIs("NoKey") /\ call' = [c \in Calls |-> None]
      /\ lockedTill' = (IF Second < lockedTill THEN lockedTill - Second ELSE 0)
      /\ UNCHANGED <<now, file, fileFaults, purgeTill, since, sound>>
  BY DEF Restart
<1>3. inRow' = 0 /\ total' = 0 /\ lockUntil' = 0 /\ purge' = FALSE /\ purgeAt' = 0 /\ lastPurge' = 0 /\ nextRecord' = 0
  BY DEF Restart
<1>4. GuardOK'
  <2>1. inRow' \in 0..(LockThreshold - 1) /\ total' - lastPurge' < PurgeThreshold
    BY <1>3, GateAssumption
  <2>2. lockedTill' \in Nat /\ purgeTill' \in Nat /\ since' \in Nat /\ purge' \in BOOLEAN
    <3>1. lockedTill \in Nat /\ purgeTill \in Nat /\ since \in Nat /\ Second \in Nat
      BY <1>1, GateAssumption DEF GuardOK
    <3>2. lockedTill' \in Nat
      BY <1>2, <3>1
    <3>3. QED
      BY <1>2, <1>3, <3>1, <3>2
  <2>3. /\ total' \in Nat /\ lastPurge' \in Nat /\ lastPurge' <= total'
        /\ lockUntil' \in Nat /\ purgeAt' \in Nat /\ nextRecord' \in Nat
    BY <1>3
  <2>4. QED
    BY <2>1, <2>2, <2>3 DEF GuardOK
<1>5. crashes' \in Nat
  BY <1>1, <1>2 DEF RestOK
<1>6. RestOK' /\ FileOK'
  BY <1>1, <1>2, <1>5 DEF RestOK, FileOK
<1>7. KeysOK' /\ CallOK'
  BY <1>2 DEF KeysOK, CallOK, KeyIs
<1>8. LoadedFirst' /\ MemoryHolds'
  BY <1>2 DEF LoadedFirst, MemoryHolds, KeyIs
<1>9. FileHolds'
  <2>1. Rest \in Nat /\ Rest' = Rest /\ LeftOut \in {0, Second} /\ LeftOut' = 0
    BY <1>1, <1>2, RestIsTime DEF Rest, LeftOut
  <2>2. now \in Nat /\ lockedTill \in Nat /\ Second \in Nat
    BY <1>1, GateAssumption DEF RestOK, GuardOK
  <2>3. ASSUME Written PROVE Written'
    <3>1. now + LeftOut < lockedTill => now + Rest + LeftOut >= lockedTill
      BY <2>3 DEF Written
    <3>2. now + 0 < lockedTill' => now + Rest + 0 >= lockedTill'
      BY <1>2, <2>1, <2>2, <3>1
    <3>3. QED
      BY <1>2, <2>1, <2>3, <3>2 DEF Written
  <2>4. QED
    BY <1>2, <2>3 DEF IInv, FileHolds
<1>10. QED
  BY <1>4, <1>6, <1>7, <1>8, <1>9 DEF IInv, GateTypeOK

-------------------------------------------------------------------------------
LEMMA CallStep == ASSUME IInv, NEW c \in Calls,
                         \/ UnlockDenied(c) \/ VerifyDenied(c) \/ UnlockGranted(c) \/ VerifyGranted(c)
                         \/ VerifyErrs(c) \/ Lost(c) \/ FrontFailure(c) \/ FrontSuccess(c)
                  PROVE  IInv'
<1>0. KeysOK /\ CallOK /\ LoadedFirst
  BY DEF IInv, GateTypeOK
<1>1. CASE UnlockDenied(c)
  <2>1. KeysOK'
    BY <1>0, <1>1 DEF UnlockDenied, KeysOK, keys
  <2>2. QED
    BY <1>1, <2>1, Reported DEF UnlockDenied, Trying
<1>2. CASE VerifyDenied(c)
  <2>1. KeysOK'
    BY <1>2, KeyFailsOK DEF VerifyDenied
  <2>2. QED
    BY <1>2, <2>1, Reported DEF VerifyDenied, Trying
<1>3. CASE UnlockGranted(c)
  <2>1. KeysOK'
    BY <1>3 DEF UnlockGranted, KeyIs, KeysOK
  <2>2. QED
    BY <1>3, <2>1, Reported DEF UnlockGranted, Trying
<1>4. CASE VerifyGranted(c)
  <2>1. KeysOK'
    BY <1>0, <1>4 DEF VerifyGranted, KeyIs, KeysOK, keys
  <2>2. QED
    BY <1>4, <2>1, Reported DEF VerifyGranted, Trying
<1>5. CASE VerifyErrs(c)
  <2>1. KeysOK'
    BY <1>5, KeyFailsOK DEF VerifyErrs
  <2>2. CallOK' /\ LoadedFirst' /\ (Loading' <=> Loading)
    BY <1>0, <1>5, CallEnds DEF VerifyErrs, Trying, Return
  <2>3. QED
    BY <1>5, <2>1, <2>2, Untouched DEF VerifyErrs
<1>6. CASE Lost(c)
  <2>1. KeysOK'
    BY <1>0, <1>6 DEF Lost, KeysOK, keys
  <2>2. CallOK' /\ LoadedFirst' /\ (Loading' <=> Loading)
    BY <1>0, <1>6, CallEnds DEF Lost, Return
  <2>3. QED
    BY <1>6, <2>1, <2>2, Untouched DEF Lost
<1>7. CASE FrontFailure(c)
  <2>1. KeysOK'
    BY <1>0, <1>7 DEF FrontFailure, KeysOK, keys
  <2>2. QED
    BY <1>7, <2>1, Reported DEF FrontFailure
<1>8. CASE FrontSuccess(c)
  <2>1. KeysOK'
    BY <1>0, <1>8 DEF FrontSuccess, KeysOK, keys
  <2>2. QED
    BY <1>8, <2>1, Reported DEF FrontSuccess
<1>9. QED
  BY <1>1, <1>2, <1>3, <1>4, <1>5, <1>6, <1>7, <1>8

LEMMA KeyStep == ASSUME IInv, LockKey \/ ClearKey PROVE IInv'
<1>0. KeysOK /\ CallOK /\ LoadedFirst
  BY DEF IInv, GateTypeOK
<1>1. CASE LockKey
  <2>1. KeysOK' /\ CallOK' /\ LoadedFirst' /\ (Loading' <=> Loading)
    BY <1>0, <1>1 DEF LockKey, KeyIs, KeysOK, CallOK, LoadedFirst, Loading
  <2>2. QED
    BY <1>1, <2>1, Untouched DEF LockKey
<1>2. CASE ClearKey
  <2>1. KeysOK' /\ CallOK' /\ LoadedFirst' /\ (Loading' <=> Loading)
    BY <1>0, <1>2 DEF ClearKey, KeysOK, CallOK, LoadedFirst, Loading
  <2>2. QED
    BY <1>2, <2>1, Untouched DEF ClearKey
<1>3. QED
  BY <1>1, <1>2

LEMMA NextInv == ASSUME IInv, [GateNext]_gateVars PROVE IInv'
<1>1. CASE UNCHANGED gateVars
  <2>1. KeysOK' /\ CallOK' /\ LoadedFirst' /\ (Loading' <=> Loading)
    BY <1>1 DEF gateVars, keys, IInv, GateTypeOK, KeysOK, CallOK, LoadedFirst, Loading
  <2>2. QED
    BY <1>1, <2>1, Untouched DEF gateVars
<1>2. ASSUME NEW c \in Calls, NEW kind \in Kinds, Enter(c, kind) PROVE IInv'
  BY <1>2, EnterInv
<1>3. ASSUME NEW c \in Calls, Load(c) PROVE IInv'
  BY <1>3, LoadInv
<1>4. ASSUME NEW c \in Calls, Gate(c) PROVE IInv'
  BY <1>4, GateInv
<1>5. ASSUME NEW c \in Calls,
             \/ UnlockDenied(c) \/ VerifyDenied(c) \/ UnlockGranted(c) \/ VerifyGranted(c)
             \/ VerifyErrs(c) \/ Lost(c) \/ FrontFailure(c) \/ FrontSuccess(c)
      PROVE  IInv'
  BY <1>5, CallStep
<1>6. CASE ClearPurge
  BY <1>6, ClearPurgeInv
<1>7. CASE LockKey \/ ClearKey
  BY <1>7, KeyStep
<1>8. CASE Tick
  BY <1>8, TickInv
<1>9. CASE Restart
  BY <1>9, RestartInv
<1>10. QED
  BY <1>1, <1>2, <1>3, <1>4, <1>5, <1>6, <1>7, <1>8, <1>9 DEF GateNext

LEMMA GateInductive == GateSpec => []IInv
<1>1. QED
  BY InitInv, NextInv, PTL DEF GateSpec

(* The types and the thresholds hold in every state, for any thresholds and    *)
(* any number of commands.                                                     *)
THEOREM GateTypes == GateSpec => []GateTypeOK
<1>1. IInv => GateTypeOK
  BY DEF IInv
<1>2. QED
  BY <1>1, GateInductive, PTL

(* A lock or a purge once imposed is in force until lifted or over, across     *)
(* restarts of the application, each of which takes no more than a second of   *)
(* the lock: export_state writes down whole seconds.                           *)
THEOREM Remembers == GateSpec => []GuardRemembers
<1>1. IInv => GuardRemembers
  BY DEF IInv, MemoryHolds, Told, GuardRemembers
<1>2. QED
  BY <1>1, GateInductive, PTL

(* The purge is asked for in time, however often the application restarts.     *)
THEOREM Purged == GateSpec => []PurgeInTime
<1>1. ASSUME IInv PROVE PurgeInTime
  <2>1. sound => since = file.total - file.lastPurge
    BY <1>1 DEF IInv, FileHolds, Written
  <2>2. file.total - file.lastPurge < PurgeThreshold
    BY <1>1 DEF IInv, GateTypeOK, FileOK
  <2>3. QED
    BY <2>1, <2>2 DEF PurgeInTime
<1>2. QED
  BY <1>1, GateInductive, PTL

(* Only the gate sends a password on, and it looks at the lock and the purge. *)
LEMMA AdmittedStep ==
    ASSUME IInv, [GateNext]_gateVars, NEW c \in Calls, sound', call[c] # None, call'[c] # None,
           call'[c] # call[c], call'[c].at = "trying"
    PROVE  now >= lockedTill /\ now >= purgeTill
<1>0. CallOK /\ GuardOK /\ RestOK /\ LoadedFirst
  BY DEF IInv, GateTypeOK
<1>1. CASE UNCHANGED gateVars \/ ClearPurge \/ LockKey \/ ClearKey \/ Tick
  BY <1>1 DEF gateVars, ClearPurge, LockKey, ClearKey, Tick
<1>2. CASE Restart
  BY <1>2 DEF Restart
<1>3. ASSUME NEW d \in Calls, NEW kind \in Kinds, Enter(d, kind) PROVE FALSE
  BY <1>0, <1>3 DEF Enter, CallOK
<1>4. ASSUME NEW d \in Calls, Load(d) PROVE FALSE
  <2>1. call' = [call EXCEPT ![d].at = "gate"] /\ call[d] # None
    BY <1>4 DEF Load
  <2>2. call[d] \in Commands
    BY <1>0, <2>1 DEF CallOK
  <2>3. [call[d] EXCEPT !.at = "gate"].at = "gate"
    BY <2>2 DEF Commands
  <2>4. QED
    BY <1>0, <2>1, <2>3 DEF CallOK
<1>5. ASSUME NEW d \in Calls,
             \/ UnlockDenied(d) \/ VerifyDenied(d) \/ UnlockGranted(d) \/ VerifyGranted(d)
             \/ VerifyErrs(d) \/ Lost(d) \/ FrontFailure(d) \/ FrontSuccess(d)
      PROVE  FALSE
  <2>1. call' = [call EXCEPT ![d] = None]
    BY <1>5 DEF UnlockDenied, VerifyDenied, UnlockGranted, VerifyGranted, VerifyErrs, Lost,
                FrontFailure, FrontSuccess, Return
  <2>2. QED
    BY <1>0, <2>1 DEF CallOK
<1>6. ASSUME NEW d \in Calls, Gate(d) PROVE now >= lockedTill /\ now >= purgeTill
  <2>1. /\ call' = [call EXCEPT ![d] = IF InLock \/ StillPurge THEN None
                                                  ELSE [call[d] EXCEPT !.at = "trying"]]
        /\ call[d] # None /\ sound' = (sound /\ ~Loading)
    BY <1>6 DEF Gate
  <2>2. d = c /\ ~InLock /\ ~StillPurge
    BY <1>0, <2>1 DEF CallOK
  <2>3. Told
    BY <1>0, <2>1 DEF IInv, MemoryHolds, LoadedFirst
  <2>4. QED
    BY <1>0, <2>2, <2>3, GateAssumption DEF Told, InLock, StillPurge, GuardOK, RestOK
<1>7. QED
  BY <1>1, <1>2, <1>3, <1>4, <1>5, <1>6 DEF GateNext

(* No password reaches the worker while a purge is in force, or a lock, less a *)
(* second for each restart since it was imposed.                               *)
THEOREM Admitted == GateSpec => AdmittedOnlyWhenFree
<1>1. ASSUME IInv, [GateNext]_gateVars
      PROVE  [\A c \in Calls :
                sound' /\ call[c] # None /\ call'[c] # None /\ call'[c] # call[c]
                       /\ call'[c].at = "trying"
                    => now >= lockedTill /\ now >= purgeTill]_gateVars
  BY <1>1, AdmittedStep
<1>2. QED
  BY <1>1, GateInductive, PTL DEF GateSpec, AdmittedOnlyWhenFree

===============================================================================
