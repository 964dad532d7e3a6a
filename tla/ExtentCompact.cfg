CONSTANTS
    h1 = h1
    h2 = h2
    h3 = h3
    h4 = h4
    r1 = r1
    r2 = r2
    r3 = r3
    NoHash = NoHash
    Hashes <- FourHashes
    Recs <- ThreeRecs
    Size <- Sizes
    InitCap = 2
    MaxCap = 3
    MaxEntries = 9
    Rewrites = FALSE
    MaxCrashes = 0
    MaxLocks = 0
SPECIFICATION Spec
SYMMETRY Symmetry
INVARIANT TypeOK
INVARIANT LiveReadable
INVARIANT RefusedOnlyWhenFull
CHECK_DEADLOCK FALSE
