CONSTANTS
    r1 = r1
    s1 = s1
    None = None
    Scans <- MCScans
    KindOf <- MCKindOf
    Batch = 2
    Records = 3
    MaxRecords = 4
    MaxOpens = 3
    MaxFaults = 1
    MaxBad = 1
    EarlyAdds = FALSE
    Overlap = FALSE
    SlowShutdown = FALSE
SPECIFICATION FairSpec
INVARIANT TypeOK
INVARIANT CacheIsComplete
PROPERTY ScansEnd
CHECK_DEADLOCK FALSE
