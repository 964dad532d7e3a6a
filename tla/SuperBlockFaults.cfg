CONSTANTS
    c1 = c1
    c2 = c2
    b1 = b1
    b2 = b2
    NoView = NoView
    NoMac = NoMac
    Creds = {c1, c2}
    Bodies = {b1, b2}
    MaxTxid = 1
    MaxIOErrors = 2
    MaxCrashes = 2
    MaxTears = 1
    Kinds = {"txn", "rewrite", "password"}
    Interrupted = {"txn", "rewrite", "password"}
SPECIFICATION Spec
INVARIANT ReaderKeepsAck
INVARIANT AckIsReadBack
CHECK_DEADLOCK FALSE
SYMMETRY Symmetry
