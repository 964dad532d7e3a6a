CONSTANTS
    x1 = x1
    x2 = x2
    p1 = p1
    Targets <- MCTargets
    Temps <- MCTemps
    TempOf <- Shared
    Chunks = 1
    MaxExports = 3
    MaxMishaps = 2
SPECIFICATION Spec
INVARIANT TargetIsWhole
INVARIANT NoResidue
CHECK_DEADLOCK FALSE
