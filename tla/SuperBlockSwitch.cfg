CONSTANTS
    c1 = c1
    c2 = c2
    b1 = b1
    b2 = b2
    NoView = NoView
    NoMac = NoMac
    Creds = {c1, c2}
    Bodies = {b1, b2}
    MaxTxid = 3
    MaxIOErrors = 0
    MaxCrashes = 1
    MaxTears = 0
    Kinds = {"txn", "rewrite", "password"}
    Interrupted = {"txn"}
SPECIFICATION Spec
INVARIANT TypeOK
INVARIANT OneCredOpens
PROPERTY RefinesCell
