CONSTANTS
    Calls = {c1, c2}
    None = None
    MaxWorkers = 2
    MaxStarts = 3
    MaxCrashes = 1
    Large = {}
    Issued <- FewCommands
SPECIFICATION Spec
PROPERTY CallsReturn
PROPERTY DroppedWorkersDie
CHECK_DEADLOCK FALSE
