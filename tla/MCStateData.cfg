SPECIFICATION Spec
CONSTANTS
    UpdateIDs = {"u1", "u2", "u3"}
    Names = {"a", "b"}
    MaximumStateDataStoreCount = 3
CHECK_DEADLOCK FALSE
INVARIANTS
    TypeOK
    OldDataIntact
    ResumesLastState
    LoopDetected
    OneAuthority
