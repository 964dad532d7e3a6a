CONSTANTS
    None = None
    c1 = c1
    c2 = c2
    Calls <- MCCalls
    Second = 2
    LockThreshold = 2
    LockTimes = {2, 4}
    PurgeThreshold = 3
    RateLimit = 2
    AutoClear = 4
    CooldownThreshold = 1
    CooldownMax = 4
    MaxTime = 6
    MaxTotal = 4
    MaxCrashes = 2
    MaxFileFaults = 1
SPECIFICATION GateSpec
SYMMETRY Symmetry
INVARIANT GateTypeOK
INVARIANT GuardRemembers
INVARIANT PurgeInTime
PROPERTY AdmittedOnlyWhenFree
CHECK_DEADLOCK FALSE
