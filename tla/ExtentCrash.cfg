CONSTANTS
    h1 = h1
    h2 = h2
    h3 = h3
    h4 = h4
    r1 = r1
    r2 = r2
    r3 = r3
    NoHash = NoHash
    Hashes <- ThreeHashes
    Recs <- TwoRecs
    Size <- Sizes
    InitCap = 16
    MaxCap = 16
    MaxEntries = 9
    Rewrites = TRUE
    MaxCrashes = 2
    MaxLocks = 1
SPECIFICATION Spec
SYMMETRY Symmetry
INVARIANT CommittedReadable
INVARIANT RefsTrue
INVARIANT SampleNeverFails
CHECK_DEADLOCK FALSE
