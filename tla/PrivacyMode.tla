----------------------------- MODULE PrivacyMode -----------------------------
(* The screen-capture protection of the desktop application                  *)
(* (controller/privacy_controller.rs): the mode and the one-time token that  *)
(* turns it off live under one lock, the system calls on the windows are     *)
(* made outside it.  A task that takes longer than 30 s is given up by the   *)
(* next reader of the state and goes on writing to the windows.              *)
(* Audit records, rate limits and the wording of answers are left out.  The  *)
(* application opens its windows once, so every call targets all of them.    *)
EXTENDS Naturals, FiniteSets

CONSTANTS
    Tasks,      \* threads of the blocking pool that run the coordinator's calls
    Windows,    \* the application's windows
    MaxId,      \* bound: transitions started
    MaxGen,     \* bound: token generations
    MaxFaults   \* bound: system calls that fail

ASSUME BoundsAreNat == MaxId \in Nat /\ MaxGen \in Nat /\ MaxFaults \in Nat
ASSUME SomeWindow == Windows # {}

VARIABLES
    state,        \* the mode: disabled, enabled, transitioning, quarantined
    slot,         \* the token slot: empty, pending adoption, active
    next,         \* the next generation, lease and transition numbers
    reconciling,  \* a reconcile is running
    started,      \* the start-up protection was tried
    shield,       \* what the system says of each window
    task,         \* what each thread is doing
    faults,       \* system calls that failed so far
    stray         \* windows last written by a given-up task or by a step that failed

vars == <<state, slot, next, reconciling, started, shield, task, faults, stray>>
coordinator == <<state, slot, next, reconciling, started>>

Stable  == {"disabled", "enabled"}
Reasons == {"none", "rollback_failed", "stuck_in_transition",
            "token_invariant_violation", "reconcile_failed"}
Values  == {"none", "excluded"}          \* the affinity a window can have

Mode(k, p, r, i, g) == [kind |-> k, previous |-> p, reason |-> r, id |-> i, gen |-> g]
Disabled            == Mode("disabled", "disabled", "none", 0, 0)
Enabled(g)          == Mode("enabled", "enabled", "none", 0, g)
Transitioning(i, p) == Mode("transitioning", p, "none", i, 0)
Quarantined(p, r)   == Mode("quarantined", p, r, 0, 0)

Empty        == [kind |-> "empty", gen |-> 0, lease |-> 0]
Pending(g)   == [kind |-> "pending", gen |-> g, lease |-> 0]
Active(g, l) == [kind |-> "active", gen |-> g, lease |-> l]

Idle == [pc |-> "idle", kind |-> "transition", on |-> FALSE, id |-> 0, lease |-> 0,
         gen |-> 0, token |-> 0, snap |-> [w \in Windows |-> "unread"], was |-> {},
         left |-> {}, applied |-> {}, result |-> "none"]

Init ==
    /\ state = Disabled
    /\ slot = Empty
    /\ next = [gen |-> 1, lease |-> 1, id |-> 0]
    /\ reconciling = FALSE
    /\ started = FALSE
    /\ shield = [w \in Windows |-> "none"]
    /\ task = [t \in Tasks |-> Idle]
    /\ faults = 0
    /\ stray = {}

-----------------------------------------------------------------------------
(* The token slot.                                                           *)

\* The lease a task took out is still the one the slot remembers.
Holds(t) ==
    /\ slot.kind = "active"
    /\ slot.gen = task[t].gen
    /\ slot.lease = task[t].lease

\* Variant: a failed transition keeps its lease.
ReleaseNothing(t) == slot' = slot

Release(t) == slot' = IF Holds(t) THEN [slot EXCEPT !.lease = 0] ELSE slot

Consistent ==
    CASE state.kind = "enabled"  -> slot.kind # "empty"
      [] state.kind = "disabled" -> slot.kind = "empty"
      [] OTHER -> TRUE

-----------------------------------------------------------------------------
(* Taking the lock.                                                          *)

\* The start-up protection keeps the lock while it calls the system.
Unlocked == \A t \in Tasks : task[t].kind = "startup" => task[t].pc = "idle"

\* The transition this thread runs is the one the state waits for.
IsCurrent(t) == state.kind = "transitioning" /\ state.id = task[t].id

\* A reader finds the transition older than 30 s: nobody knows what the windows
\* show, so the mode goes into quarantine.
Reap ==
    /\ Unlocked
    /\ state.kind = "transitioning"
    /\ state' = Quarantined(state.previous, "stuck_in_transition")
    /\ UNCHANGED <<slot, next, reconciling, started, shield, task, faults, stray>>

\* What every call does first once no transition is overdue.
Enforce(do) ==
    IF Consistent THEN do
    ELSE /\ state' = Quarantined("disabled", "token_invariant_violation")
         /\ UNCHANGED <<slot, next, reconciling, started, shield, task, faults, stray>>

-----------------------------------------------------------------------------
(* set_privacy_mode, first section under the lock.                           *)

Work(k, on, i, l, g, tok) ==
    [Idle EXCEPT !.pc = "snapshot", !.kind = k, !.on = on, !.id = i,
                 !.lease = l, !.gen = g, !.token = tok]

StartEnable(t) ==
    /\ Unlocked /\ task[t].pc = "idle" /\ next.id < MaxId /\ next.gen <= MaxGen
    /\ state.kind = "disabled"
    /\ Enforce(
        /\ next' = [next EXCEPT !.id = @ + 1]
        /\ state' = Transitioning(next.id + 1, "disabled")
        /\ task' = [task EXCEPT ![t] = Work("transition", TRUE, next.id + 1, 0, 0, 0)]
        /\ UNCHANGED <<slot, reconciling, started, shield, faults, stray>>)

\* Turning the protection off takes a lease on the token it presents.
\* Variant: the digest is not compared.
VerifiedAny(token) == slot.kind = "active" /\ slot.lease = 0

Verified(token) == slot.kind = "active" /\ slot.lease = 0 /\ slot.gen = token

StartDisable(t, token) ==
    /\ Unlocked /\ task[t].pc = "idle" /\ next.id < MaxId
    /\ state.kind = "enabled"
    /\ Verified(token)
    /\ Enforce(
        /\ next' = [next EXCEPT !.id = @ + 1, !.lease = @ + 1]
        /\ state' = Transitioning(next.id + 1, "enabled")
        /\ slot' = [slot EXCEPT !.lease = next.lease]
        /\ task' = [task EXCEPT ![t] = Work("transition", FALSE, next.id + 1,
                                            next.lease, slot.gen, token)]
        /\ UNCHANGED <<reconciling, started, shield, faults, stray>>)

-----------------------------------------------------------------------------
(* The system calls, outside the lock.                                       *)

Target(t) == IF task[t].on THEN "excluded" ELSE "none"

\* A thread whose transition was given up leaves the windows it writes astray.
Vouched(t) == task[t].kind = "transition" => IsCurrent(t)

Becomes(t, changes) == task' = [task EXCEPT ![t] = changes]
Faulty == faults < MaxFaults /\ faults' = faults + 1

\* The value each window had before the change.
ReadWindow(t, w) ==
    /\ task[t].pc = "snapshot" /\ task[t].snap[w] = "unread"
    /\ LET snap == [task[t].snap EXCEPT ![w] = shield[w]] IN
       Becomes(t, [task[t] EXCEPT
           !.snap = snap,
           !.was = IF w \in stray THEN @ \cup {w} ELSE @,
           !.pc = IF \A v \in Windows : snap[v] # "unread" THEN "apply" ELSE "snapshot"])
    /\ UNCHANGED <<coordinator, shield, faults, stray>>

ReadFails(t) ==
    /\ task[t].pc = "snapshot"
    /\ Faulty
    /\ Becomes(t, [task[t] EXCEPT !.pc = "done", !.result = "failed"])
    /\ UNCHANGED <<coordinator, shield, stray>>

\* A window is set and read back.
SetWindow(t, w) ==
    /\ task[t].pc = "apply" /\ w \notin task[t].applied
    /\ shield' = [shield EXCEPT ![w] = Target(t)]
    /\ stray' = IF Vouched(t) THEN stray \ {w} ELSE stray \cup {w}
    /\ LET applied == task[t].applied \cup {w} IN
       Becomes(t, [task[t] EXCEPT
           !.applied = applied,
           !.pc = IF applied = Windows THEN "done" ELSE "apply",
           !.result = IF applied = Windows THEN "ok" ELSE "none"])
    /\ UNCHANGED <<coordinator, faults>>

\* Setting it fails, or the read-back fails or disagrees after it was set.  Only
\* the windows that passed the read-back are rolled back.
\* Variant: a failure on the way restores nothing.
GiveUpAtOnce(t) ==
    Becomes(t, [task[t] EXCEPT !.pc = "done", !.result = "failed"])

GiveUp(t) ==
    Becomes(t, IF task[t].kind = "reconcile" \/ task[t].applied = {}
               THEN [task[t] EXCEPT !.pc = "done", !.result = "failed"]
               ELSE [task[t] EXCEPT !.pc = "rollback"])

SetRefused(t, w) ==
    /\ task[t].pc = "apply" /\ w \notin task[t].applied
    /\ Faulty
    /\ GiveUp(t)
    /\ UNCHANGED <<coordinator, shield, stray>>

SetUnconfirmed(t, w) ==
    /\ task[t].pc = "apply" /\ w \notin task[t].applied
    /\ Faulty
    /\ shield' = [shield EXCEPT ![w] = Target(t)]
    /\ stray' = stray \cup {w}
    /\ GiveUp(t)
    /\ UNCHANGED coordinator

\* The roll-back goes on past a window it cannot restore.
RolledBack(t, w, left) ==
    LET applied == task[t].applied \ {w} IN
    Becomes(t, [task[t] EXCEPT
        !.applied = applied,
        !.left = left,
        !.pc = IF applied = {} THEN "done" ELSE "rollback",
        !.result = IF applied # {} THEN "none"
                   ELSE IF left = {} THEN "failed" ELSE "stuck"])

RestoreWindow(t, w) ==
    /\ task[t].pc = "rollback" /\ w \in task[t].applied
    /\ shield' = [shield EXCEPT ![w] = task[t].snap[w]]
    /\ stray' = IF Vouched(t) /\ w \notin task[t].was THEN stray \ {w} ELSE stray \cup {w}
    /\ RolledBack(t, w, task[t].left)
    /\ UNCHANGED <<coordinator, faults>>

RestoreFails(t, w, set) ==
    /\ task[t].pc = "rollback" /\ w \in task[t].applied
    /\ Faulty
    /\ shield' = IF set THEN [shield EXCEPT ![w] = task[t].snap[w]] ELSE shield
    /\ stray' = stray \cup {w}
    /\ RolledBack(t, w, task[t].left \cup {w})
    /\ UNCHANGED coordinator

-----------------------------------------------------------------------------
(* set_privacy_mode, second section under the lock.                          *)

Ends(t) == task' = [task EXCEPT ![t] = Idle]

Finishing(t) == Unlocked /\ task[t].kind = "transition" /\ task[t].pc = "done"

FinishSuperseded(t) ==
    /\ Finishing(t) /\ ~IsCurrent(t)
    /\ Release(t)
    /\ Ends(t)
    /\ UNCHANGED <<state, next, reconciling, started, shield, faults, stray>>

\* Variant: the generation is not used up.
FinishEnabledAgain(t) ==
    /\ Finishing(t) /\ IsCurrent(t) /\ task[t].result = "ok" /\ task[t].on
    /\ slot' = Active(next.gen, 0)
    /\ state' = Enabled(next.gen)
    /\ Ends(t)
    /\ UNCHANGED <<next, reconciling, started, shield, faults, stray>>

FinishEnabled(t) ==
    /\ Finishing(t) /\ IsCurrent(t) /\ task[t].result = "ok" /\ task[t].on
    /\ IF slot.kind = "empty"
       THEN /\ slot' = Active(next.gen, 0)
            /\ next' = [next EXCEPT !.gen = @ + 1]
            /\ state' = Enabled(next.gen)
       ELSE /\ state' = Quarantined(state.previous, "token_invariant_violation")
            /\ UNCHANGED <<slot, next>>
    /\ Ends(t)
    /\ UNCHANGED <<reconciling, started, shield, faults, stray>>

FinishDisabled(t) ==
    /\ Finishing(t) /\ IsCurrent(t) /\ task[t].result = "ok" /\ ~task[t].on
    /\ IF Holds(t)
       THEN slot' = Empty /\ state' = Disabled
       ELSE /\ state' = Quarantined(state.previous, "token_invariant_violation")
            /\ UNCHANGED slot
    /\ Ends(t)
    /\ UNCHANGED <<next, reconciling, started, shield, faults, stray>>

FinishRestored(t) ==
    /\ Finishing(t) /\ IsCurrent(t) /\ task[t].result = "failed"
    /\ state' = IF state.previous = "enabled" THEN Enabled(slot.gen) ELSE Disabled
    /\ Release(t)
    /\ Ends(t)
    /\ UNCHANGED <<next, reconciling, started, shield, faults, stray>>

\* The token stays on lease: only a reconcile leads out of here.
FinishStuck(t) ==
    /\ Finishing(t) /\ IsCurrent(t) /\ task[t].result = "stuck"
    /\ state' = Quarantined(state.previous, "rollback_failed")
    /\ Ends(t)
    /\ UNCHANGED <<slot, next, reconciling, started, shield, faults, stray>>

-----------------------------------------------------------------------------
(* The start-up protection, adoption by the front end, reconciling.          *)

StartUp(t) ==
    /\ Unlocked /\ task[t].pc = "idle" /\ ~started /\ next.gen <= MaxGen
    /\ state.kind = "disabled" /\ slot.kind = "empty"
    /\ started' = TRUE
    /\ Becomes(t, Work("startup", TRUE, 0, 0, 0, 0))
    /\ UNCHANGED <<state, slot, next, reconciling, shield, faults, stray>>

StartUpEnds(t) ==
    /\ task[t].kind = "startup" /\ task[t].pc = "done"
    /\ IF task[t].result = "ok"
       THEN /\ slot' = Pending(next.gen)
            /\ next' = [next EXCEPT !.gen = @ + 1]
            /\ state' = Enabled(next.gen)
       ELSE /\ state' = IF task[t].result = "stuck"
                        THEN Quarantined("enabled", "rollback_failed") ELSE state
            /\ UNCHANGED <<slot, next>>
    /\ Ends(t)
    /\ UNCHANGED <<reconciling, started, shield, faults, stray>>

Adopt ==
    /\ Unlocked /\ next.gen <= MaxGen
    /\ state.kind \in Stable
    /\ slot.kind = "pending"
    /\ Enforce(
        /\ slot' = Active(next.gen, 0)
        /\ next' = [next EXCEPT !.gen = @ + 1]
        /\ state' = IF state.kind = "enabled" THEN Enabled(next.gen) ELSE state
        /\ UNCHANGED <<reconciling, started, shield, task, faults, stray>>)

StartReconcile(t) ==
    /\ Unlocked /\ task[t].pc = "idle" /\ next.gen <= MaxGen
    /\ state.kind = "quarantined" /\ ~reconciling
    /\ reconciling' = TRUE
    /\ Becomes(t, [Idle EXCEPT !.pc = "apply", !.kind = "reconcile",
                               !.on = (state.previous = "enabled")])
    /\ UNCHANGED <<state, slot, next, started, shield, faults, stray>>

ReconcileEnds(t) ==
    /\ Unlocked /\ task[t].kind = "reconcile" /\ task[t].pc = "done"
    /\ reconciling' = FALSE
    /\ IF task[t].result = "ok"
       THEN IF task[t].on
            THEN /\ slot' = Pending(next.gen)
                 /\ next' = [next EXCEPT !.gen = @ + 1]
                 /\ state' = Enabled(next.gen)
            ELSE slot' = Empty /\ state' = Disabled /\ UNCHANGED next
       ELSE /\ state' = IF state.kind = "quarantined"
                        THEN [state EXCEPT !.reason = "reconcile_failed"] ELSE state
            /\ UNCHANGED <<slot, next>>
    /\ Ends(t)
    /\ UNCHANGED <<started, shield, faults, stray>>

-----------------------------------------------------------------------------
Section(t) ==
    \/ StartEnable(t) \/ StartUp(t) \/ StartReconcile(t)
    \/ \E token \in 1..MaxGen : StartDisable(t, token)
    \/ FinishSuperseded(t) \/ FinishEnabled(t) \/ FinishDisabled(t)
    \/ FinishRestored(t) \/ FinishStuck(t)
    \/ StartUpEnds(t) \/ ReconcileEnds(t)

SystemCall(t) ==
    \/ ReadFails(t)
    \/ \E w \in Windows :
          \/ ReadWindow(t, w) \/ SetWindow(t, w) \/ SetRefused(t, w)
          \/ SetUnconfirmed(t, w) \/ RestoreWindow(t, w)
          \/ \E set \in BOOLEAN : RestoreFails(t, w, set)

Next == Reap \/ Adopt \/ \E t \in Tasks : Section(t) \/ SystemCall(t)

Spec == Init /\ [][Next]_vars

-----------------------------------------------------------------------------
(* Properties.                                                               *)

Jobs == [pc : {"idle", "snapshot", "apply", "rollback", "done"},
         kind : {"transition", "startup", "reconcile"}, on : BOOLEAN,
         id : 0..next.id, lease : 0..(next.lease - 1), gen : 0..(next.gen - 1),
         token : 0..MaxGen, snap : [Windows -> Values \cup {"unread"}],
         was : SUBSET Windows, left : SUBSET Windows, applied : SUBSET Windows,
         result : {"none", "ok", "failed", "stuck"}]

\* Types, and: every number in use was handed out by its counter.
TypeOK ==
    /\ state \in [kind : {"disabled", "enabled", "transitioning", "quarantined"},
                  previous : Stable, reason : Reasons, id : 0..next.id,
                  gen : 0..(next.gen - 1)]
    /\ slot \in [kind : {"empty", "pending", "active"}, gen : 0..(next.gen - 1),
                 lease : 0..(next.lease - 1)]
    /\ next \in [gen : Nat \ {0}, lease : Nat \ {0}, id : Nat]
    /\ reconciling \in BOOLEAN /\ started \in BOOLEAN
    /\ shield \in [Windows -> Values]
    /\ task \in [Tasks -> Jobs]
    /\ faults \in Nat
    /\ stray \subseteq Windows

\* The mode and the token never disagree: there is a token to turn an enabled
\* protection off, not on lease, and none otherwise.  Whatever task was given up
\* and comes back, no caller meets token_invariant_violation, and a failed attempt
\* leaves the token usable for the next one.
SlotMatchesState ==
    /\ state.kind = "disabled" => slot = Empty
    /\ state.kind = "enabled" =>
          slot.kind \in {"pending", "active"} /\ slot.gen = state.gen /\ slot.lease = 0
    /\ state.kind = "transitioning" =>
          IF state.previous = "disabled" THEN slot = Empty
          ELSE slot.kind = "active" /\ slot.lease # 0
    /\ state.reason # "token_invariant_violation"

\* What the mode says or will be brought back to.
Side == IF state.kind = "enabled" THEN "on"
        ELSE IF state.kind = "disabled" THEN "off"
        ELSE IF state.previous = "enabled" THEN "on" ELSE "off"

\* Neither a stuck transition nor a quarantine, a reconcile or a late task turns
\* an enabled protection off: that takes the end of a transition whose caller
\* presented the token of the generation in force.
OffNeedsToken ==
    [][(Side = "on" /\ Side' = "off") =>
          \E t \in Tasks : /\ task[t].kind = "transition" /\ task[t].pc = "done"
                           /\ IsCurrent(t)
                           /\ slot.kind = "active" /\ slot.gen = task[t].token]_vars

\* A window shows what the mode says, unless a given-up task wrote to it or the
\* last step on it failed: after a roll-back, after a reconcile, and whatever
\* calls fail.
WindowsMatchState ==
    \A w \in Windows \ stray :
        /\ state.kind = "enabled" => shield[w] = "excluded"
        /\ state.kind = "disabled" /\ Unlocked => shield[w] = "none"
=============================================================================
