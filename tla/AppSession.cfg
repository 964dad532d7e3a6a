CONSTANTS
    Calls = {c1, c2}
    None = None
    MaxWorkers = 2
    MaxStarts = 3
    MaxCrashes = 1
    Large = {}
    Issued <- AllCommands
SPECIFICATION Spec
INVARIANT TypeOK
INVARIANT KeyStateTrue
INVARIANT LockedStaysLocked
INVARIANT LifecycleNotStuck
CHECK_DEADLOCK FALSE
