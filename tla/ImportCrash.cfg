CONSTANTS
    h1 = h1
    h2 = h2
    NoRefs = NoRefs
    NoSession = NoSession
    Idle = Idle
    Hashes <- OneHash
    CallsOverlap = FALSE
    MaxId = 3
    MaxLog = 4
    MaxJobs = 1
    MaxCrashes = 1
    MaxFaults = 1
SPECIFICATION Spec
SYMMETRY Symmetry
INVARIANT TypeOK
INVARIANT ClaimedChunksStay
INVARIANT SkippedIsStored
INVARIANT PromiseKept
INVARIANT StoredOnce
CHECK_DEADLOCK FALSE
