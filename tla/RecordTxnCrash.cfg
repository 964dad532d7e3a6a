CONSTANTS
    v1 = v1
    v2 = v2
    Gone = Gone
    NoFrame = NoFrame
    Vals <- TwoVals
    ResidueAligns = FALSE
    L0Trigger = 2
    FlushAt = 2
    MaxTxid = 2
    MaxLid = 3
    MaxOps = 2
    MaxCrashes = 2
    MaxFaults = 1
SPECIFICATION Spec
SYMMETRY Symmetry
INVARIANT TypeOK
INVARIANT RestartShowsTheSame
INVARIANT CallSeesItself
INVARIANT IdsAreFresh
PROPERTY RefinesStore
CHECK_DEADLOCK FALSE
