SPECIFICATION ModuleSpec
CONSTANTS
    N = 3
    Faults = {"exec", "mkfifo", "files", "copy", "checksum"}
    MaxPrinted = 3
    MaxCalls = 2
    MaxReboots = 1
INVARIANTS
    StoredOneWay
    StatusIsOwn
    NoOverlap
    CleanupRan
    ReplyUnderstood

    
CHECK_DEADLOCK FALSE
