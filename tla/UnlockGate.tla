------------------------------ MODULE UnlockGate ------------------------------
(* The guard in front of every command that takes a password                   *)
(* (security/brute_force.rs), reached by verthys_unlock and                    *)
(* verthys_verify_global_key through service/unlock_gate.rs and                *)
(* security_commands/brute_force_bridge.rs and by the front end through        *)
(* security_commands/commands/brute_force.rs, with its state file              *)
(* (security_commands/persistence.rs) and the cool-down of the key life cycle  *)
(* (state/key_lifecycle.rs).                                                   *)
(*                                                                             *)
(* Attempts run concurrently: each is admitted, takes its time in the worker   *)
(* and reports afterwards.  The application may end at any moment; what is     *)
(* left is the file.  A time is 0 where the code has None: it is over.         *)
EXTENDS Naturals

CONSTANTS
    None, Calls,       \* places for commands that run at the same time
    Second,            \* ticks of the clock in a second; the times below are in ticks
    LockThreshold,     \* lock_threshold: failures in a row that lock
    LockTimes,         \* lock_duration_secs with its jitter
    PurgeThreshold,    \* purge_threshold: failures altogether that ask for a purge
    RateLimit,         \* rate_limit_ms
    AutoClear,         \* purge_auto_clear_secs
    CooldownThreshold, \* COOLDOWN_THRESHOLD: failed verifications before each costs time
    CooldownMax,       \* COOLDOWN_MAX_SECS
    MaxTime, MaxTotal, MaxCrashes, MaxFileFaults   \* bounds

ASSUME GateAssumption ==
    /\ Second \in Nat \ {0}
    /\ LockThreshold \in Nat \ {0} /\ PurgeThreshold \in Nat \ {0}
    /\ LockTimes \subseteq Nat \ {0} /\ RateLimit \in Nat /\ AutoClear \in Nat \ {0}
    /\ CooldownThreshold \in Nat /\ CooldownMax \in Nat
    /\ MaxTime \in Nat /\ MaxTotal \in Nat /\ MaxCrashes \in Nat /\ MaxFileFaults \in Nat

VARIABLES
    now,
    inRow, total,      \* consecutive_failures, total_failures
    lockUntil,         \* lock_until
    purge, purgeAt,    \* purge_triggered, purge_triggered_at
    lastPurge,         \* last_purge_total
    nextRecord,        \* last_record_time, as the time from which a call counts again
    file,              \* the saved state
    loaded,            \* brute_force_loaded
    key, keyFailures, coolUntil,  \* KeyLifecycle: state, consecutive_failures, cooldown_until
    call,              \* the commands in progress
    crashes, fileFaults,   \* how much of the bounds is used up
    lockedTill,        \* history: the end of the lock imposed last, a second earlier for
                       \* each restart since, 0 when it was lifted
    purgeTill,         \* history: the earliest end of the purge asked for, 0 when it was done
    since,             \* history: failures counted after the last purge was asked for
    sound              \* history: no save or load failed, and none was overtaken

guard == <<inRow, total, lockUntil, purge, purgeAt, lastPurge, nextRecord>>
keys == <<key, keyFailures, coolUntil>>
history == <<lockedTill, purgeTill, since>>
gateVars == <<now, guard, file, loaded, keys, call, crashes, fileFaults, history, sound>>

Kinds == {"unlock", "verify", "failure", "success"}
Commands == [kind : Kinds, at : {"load", "gate", "trying"}]

ASSUME NoneAssumption == None \notin Commands

-------------------------------------------------------------------------------
(* The file.                                                                   *)

(* Variant: the lock is not part of what is saved. *)
RestIsLost(lock) == {0}

(* The time a lock has left, in whole seconds: the part of a second is cut off, *)
(* and a little of it has gone by since the command looked at the clock.       *)
SecondsLeft(lock) ==
    IF now < lock THEN {(lock - now) \div Second, (lock - now - 1) \div Second} ELSE {0}

Saved(row, tot, lock, pur, last) ==
    [inRow : {row}, total : {tot}, left : SecondsLeft(lock), purge : {pur}, lastPurge : {last}]

Loading == \E d \in Calls : call[d] # None /\ call[d].at = "load"

(* Written beside the old file and renamed over it: it is there whole or not. *)
Persist ==
    \/ /\ file' \in Saved(inRow', total', lockUntil', purge', lastPurge')
       /\ sound' = (sound /\ ~Loading)
       /\ UNCHANGED fileFaults
    \/ /\ fileFaults < MaxFileFaults /\ fileFaults' = fileFaults + 1
       /\ sound' = FALSE /\ UNCHANGED file

(* The first command loads the file; a second one does not wait for it. *)
Enter(c, kind) ==
    /\ call[c] = None
    /\ kind = "verify" => (key = "Locked" /\ now >= coolUntil)
    /\ kind = "success" => key = "Unlocked"
    /\ loaded' = TRUE
    /\ call' = [call EXCEPT ![c] = [kind |-> kind, at |-> IF loaded THEN "gate" ELSE "load"]]
    /\ UNCHANGED <<now, guard, file, keys, crashes, fileFaults, history, sound>>

(* Variant: only the failures in a row are taken over. *)
LoadInRow(c) ==
    /\ call[c] # None /\ call[c].at = "load"
    /\ inRow' = file.inRow
    /\ call' = [call EXCEPT ![c].at = "gate"]
    /\ UNCHANGED <<now, total, lockUntil, purge, purgeAt, lastPurge, nextRecord, file, loaded, keys,
                   crashes, fileFaults, history, sound>>

Load(c) ==
    /\ call[c] # None /\ call[c].at = "load"
    /\ \/ /\ inRow' = file.inRow /\ total' = file.total
          /\ purge' = file.purge /\ lastPurge' = file.lastPurge
          /\ lockUntil' = IF file.left > 0 THEN now + file.left * Second ELSE 0
          /\ purgeAt' = IF file.purge THEN now ELSE 0
          /\ UNCHANGED <<fileFaults, sound>>
       \/ /\ fileFaults < MaxFileFaults /\ fileFaults' = fileFaults + 1      \* unreadable: the guard is new
          /\ sound' = FALSE
          /\ UNCHANGED <<inRow, total, lockUntil, purge, purgeAt, lastPurge>>
    /\ call' = [call EXCEPT ![c].at = "gate"]
    /\ UNCHANGED <<now, nextRecord, file, loaded, keys, crashes, history>>

-------------------------------------------------------------------------------
(* The guard.                                                                  *)

InLock == now < lockUntil

(* Variant: the time a purge was asked for is not looked at. *)
StillPurgeForgets == purge /\ now < purgeAt

(* A purge lapses by itself after a day. *)
StillPurge == purge /\ now < purgeAt + AutoClear

(* check(): an elapsed lock goes, and without a lock an elapsed purge. *)
Check ==
    /\ lockUntil' = IF InLock THEN lockUntil ELSE 0
    /\ purge' = IF InLock THEN purge ELSE StillPurge
    /\ purgeAt' = IF InLock \/ StillPurge THEN purgeAt ELSE 0
    /\ UNCHANGED <<inRow, total, lastPurge, nextRecord>>

(* gate_check: a password goes on to the worker or no further. *)
Gate(c) ==
    /\ call[c] # None /\ call[c].at = "gate" /\ call[c].kind \in {"unlock", "verify"}
    /\ Check
    /\ call' = [call EXCEPT ![c] = IF InLock \/ StillPurge THEN None ELSE [@ EXCEPT !.at = "trying"]]
    /\ sound' = (sound /\ ~Loading)
    /\ UNCHANGED <<now, file, loaded, keys, crashes, fileFaults, history>>

(* Variant: the threshold itself is still allowed. *)
PurgeDueLate(n) == n > PurgeThreshold

PurgeDue(n) == n >= PurgeThreshold

(* record_failure: frozen while locked or until the purge; one a second. *)
RecordFailure ==
    \/ /\ InLock
       /\ UNCHANGED <<guard, history>>
    \/ /\ ~InLock /\ (purge \/ now < nextRecord)
       /\ lockUntil' = 0
       /\ UNCHANGED <<inRow, total, purge, purgeAt, lastPurge, nextRecord, history>>
    \/ /\ ~InLock /\ ~purge /\ now >= nextRecord
       /\ nextRecord' = now + RateLimit
       /\ total' = total + 1
       /\ \/ /\ PurgeDue(total + 1 - lastPurge)
             /\ purge' = TRUE /\ purgeAt' = now /\ lastPurge' = total + 1
             /\ inRow' = 0 /\ lockUntil' = 0
             /\ lockedTill' = 0 /\ purgeTill' = now + AutoClear /\ since' = 0
          \/ /\ ~PurgeDue(total + 1 - lastPurge)
             /\ since' = since + 1
             /\ UNCHANGED <<purge, purgeAt, lastPurge, purgeTill>>
             /\ \/ /\ inRow + 1 >= LockThreshold
                   /\ \E t \in LockTimes : lockUntil' = now + t /\ lockedTill' = now + t
                   /\ inRow' = 0
                \/ /\ inRow + 1 < LockThreshold
                   /\ inRow' = inRow + 1 /\ lockUntil' = 0
                   /\ UNCHANGED lockedTill

(* record_success is subject to the rate limit too, and then changes nothing. *)
RecordSuccess ==
    /\ IF now < nextRecord
       THEN UNCHANGED <<inRow, lockUntil, nextRecord, lockedTill>>
       ELSE inRow' = 0 /\ lockUntil' = 0 /\ nextRecord' = now + RateLimit /\ lockedTill' = 0
    /\ UNCHANGED <<total, purge, purgeAt, lastPurge, purgeTill, since>>

Trying(c, kind) == call[c] # None /\ call[c].at = "trying" /\ call[c].kind = kind
Return(c) == call' = [call EXCEPT ![c] = None]

(* 2, 4, 8 ... seconds for the failures after the threshold. *)
Cooldown(n) ==
    IF n = 0 THEN 0 ELSE IF 2^n * Second \in 0..CooldownMax THEN 2^n * Second ELSE CooldownMax

KeyFails ==
    /\ keyFailures' = keyFailures + 1
    /\ coolUntil' = IF keyFailures + 1 > CooldownThreshold
                    THEN now + Cooldown(keyFailures + 1 - CooldownThreshold) ELSE coolUntil
    /\ UNCHANGED key

KeyIs(k) == key' = k /\ keyFailures' = 0 /\ coolUntil' = 0

-------------------------------------------------------------------------------
(* The ends of an attempt.                                                     *)

(* The worker says the password was wrong. *)
UnlockDenied(c) ==
    /\ Trying(c, "unlock") /\ total < MaxTotal
    /\ RecordFailure /\ Persist /\ Return(c)
    /\ UNCHANGED <<now, loaded, keys, crashes>>

VerifyDenied(c) ==
    /\ Trying(c, "verify") /\ total < MaxTotal
    /\ RecordFailure /\ Persist /\ KeyFails /\ Return(c)
    /\ UNCHANGED <<now, loaded, crashes>>

UnlockGranted(c) ==
    /\ Trying(c, "unlock")
    /\ RecordSuccess /\ Persist /\ Return(c)
    /\ \E k \in {"NoKey", "Locked"} : KeyIs(k)
    /\ UNCHANGED <<now, loaded, crashes>>

VerifyGranted(c) ==
    /\ Trying(c, "verify")
    /\ RecordSuccess /\ Persist /\ Return(c)
    /\ IF key = "Locked" THEN KeyIs("Unlocked") ELSE UNCHANGED keys
    /\ UNCHANGED <<now, loaded, crashes>>

(* An error that says nothing of the password counts for the cool-down of the  *)
(* verification only, a lost answer for nothing.                               *)
VerifyErrs(c) ==
    /\ Trying(c, "verify") /\ KeyFails /\ Return(c)
    /\ UNCHANGED <<now, guard, file, loaded, crashes, fileFaults, history, sound>>

Lost(c) ==
    /\ call[c] # None /\ call[c].at = "trying" /\ Return(c)
    /\ UNCHANGED <<now, guard, file, loaded, keys, crashes, fileFaults, history, sound>>

(* The front end reports an attempt of its own. *)
FrontFailure(c) ==
    /\ call[c] # None /\ call[c].at = "gate" /\ call[c].kind = "failure" /\ total < MaxTotal
    /\ RecordFailure /\ Persist /\ Return(c)
    /\ UNCHANGED <<now, loaded, keys, crashes>>

FrontSuccess(c) ==
    /\ call[c] # None /\ call[c].at = "gate" /\ call[c].kind = "success"
    /\ RecordSuccess /\ Persist /\ Return(c)
    /\ UNCHANGED <<now, loaded, keys, crashes>>

(* clear_purge, for a session that is unlocked. *)
ClearPurge ==
    /\ key = "Unlocked"
    /\ purge' = FALSE /\ purgeAt' = 0 /\ inRow' = 0 /\ lockUntil' = 0
    /\ lockedTill' = 0 /\ purgeTill' = 0
    /\ UNCHANGED <<total, lastPurge, nextRecord, since>>
    /\ Persist
    /\ UNCHANGED <<now, loaded, keys, call, crashes>>

LockKey ==
    /\ key # "NoKey" /\ KeyIs("NoKey")
    /\ UNCHANGED <<now, guard, file, loaded, call, crashes, fileFaults, history, sound>>

ClearKey ==
    /\ key = "Unlocked" /\ key' = "Locked"
    /\ UNCHANGED <<now, guard, file, loaded, keyFailures, coolUntil, call, crashes, fileFaults, history, sound>>

-------------------------------------------------------------------------------
Tick ==
    /\ now < MaxTime /\ now' = now + 1
    /\ UNCHANGED <<guard, file, loaded, keys, call, crashes, fileFaults, history, sound>>

(* The application ends and starts again: the guard is new until it is loaded. *)
(* Of a lock, up to a second is lost with what the file leaves out.            *)
Restart ==
    /\ crashes < MaxCrashes /\ crashes' = crashes + 1
    /\ inRow' = 0 /\ total' = 0 /\ lockUntil' = 0 /\ purge' = FALSE /\ purgeAt' = 0
    /\ lastPurge' = 0 /\ nextRecord' = 0 /\ loaded' = FALSE
    /\ KeyIs("NoKey") /\ call' = [c \in Calls |-> None]
    /\ lockedTill' = IF Second < lockedTill THEN lockedTill - Second ELSE 0
    /\ UNCHANGED <<now, file, fileFaults, purgeTill, since, sound>>

GateInit ==
    /\ now = 0 /\ inRow = 0 /\ total = 0 /\ lockUntil = 0 /\ purge = FALSE /\ purgeAt = 0
    /\ lastPurge = 0 /\ nextRecord = 0
    /\ file = [inRow |-> 0, total |-> 0, left |-> 0, purge |-> FALSE, lastPurge |-> 0]
    /\ loaded = FALSE /\ key = "NoKey" /\ keyFailures = 0 /\ coolUntil = 0
    /\ call = [c \in Calls |-> None] /\ crashes = 0 /\ fileFaults = 0
    /\ lockedTill = 0 /\ purgeTill = 0 /\ since = 0 /\ sound = TRUE

GateNext ==
    \/ \E c \in Calls :
        \/ \E kind \in Kinds : Enter(c, kind)
        \/ Load(c) \/ Gate(c)
        \/ UnlockDenied(c) \/ VerifyDenied(c) \/ UnlockGranted(c) \/ VerifyGranted(c)
        \/ VerifyErrs(c) \/ Lost(c) \/ FrontFailure(c) \/ FrontSuccess(c)
    \/ ClearPurge \/ LockKey \/ ClearKey \/ Tick \/ Restart

GateSpec == GateInit /\ [][GateNext]_gateVars

-------------------------------------------------------------------------------
(* The types of the variables, with the thresholds the counters stay below:    *)
(* reaching one resets or moves its counter in the same step.                  *)
GuardOK ==
    /\ total \in Nat /\ lastPurge \in Nat /\ lastPurge <= total
    /\ inRow \in 0..(LockThreshold - 1) /\ total - lastPurge < PurgeThreshold
    /\ lockUntil \in Nat /\ purge \in BOOLEAN /\ purgeAt \in Nat /\ nextRecord \in Nat
    /\ lockedTill \in Nat /\ purgeTill \in Nat /\ since \in Nat

FileOK ==
    /\ file \in [inRow : 0..(LockThreshold - 1), total : Nat, left : Nat, purge : BOOLEAN,
                 lastPurge : Nat]
    /\ file.lastPurge <= file.total /\ file.total - file.lastPurge < PurgeThreshold

KeysOK == key \in {"NoKey", "Locked", "Unlocked"} /\ keyFailures \in Nat /\ coolUntil \in Nat

CallOK == call \in [Calls -> {None} \cup Commands]

RestOK ==
    /\ now \in Nat /\ loaded \in BOOLEAN /\ crashes \in Nat /\ fileFaults \in Nat /\ sound \in BOOLEAN

GateTypeOK == GuardOK /\ FileOK /\ KeysOK /\ CallOK /\ RestOK

(* A lock or a purge that was imposed is still in force in the guard, after    *)
(* any number of restarts, until a success or a purge lifts it or its time is  *)
(* over - when every save and load worked and no command overtook the load.    *)
(* A restart takes no more than a second of the lock, nothing of the purge.    *)
GuardRemembers ==
    sound /\ loaded /\ ~Loading =>
        /\ now < lockedTill => lockUntil >= lockedTill
        /\ now < purgeTill => purge /\ purgeAt + AutoClear >= purgeTill

(* The failures counted after a purge was asked for stay below the threshold:  *)
(* restarts do not let the count begin again.                                  *)
PurgeInTime == sound => since < PurgeThreshold

(* A password reaches the worker only when no lock and no purge is in force,   *)
(* whoever imposed it and before whichever restart, up to the second that each *)
(* restart may cost a lock.                                                    *)
AdmittedOnlyWhenFree ==
    [][\A c \in Calls :
        sound' /\ call[c] # None /\ call'[c] # None /\ call'[c] # call[c] /\ call'[c].at = "trying"
            => now >= lockedTill /\ now >= purgeTill]_gateVars

===============================================================================
