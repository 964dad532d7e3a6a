CONSTANTS
    t1 = t1
    t2 = t2
    w1 = w1
    w2 = w2
    Tasks <- MCTasks
    Windows <- MCWindows
    MaxId = 3
    MaxGen = 4
    MaxFaults = 2
SPECIFICATION Spec
SYMMETRY Symmetry
INVARIANT TypeOK
INVARIANT SlotMatchesState
INVARIANT WindowsMatchState
PROPERTY OffNeedsToken
CHECK_DEADLOCK FALSE
