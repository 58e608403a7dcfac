SPECIFICATION Spec
CONSTANTS
    MaximumStateDataStoreCount = 30
    MaxTrySending = 2
    MaxFetchAttempts = 0
    RollbackAnswers = {"supported"}
    RebootAnswers = {"no reboot"}
    FailingOps = {}
    ScriptFaults = {}
    Faults = {"net"}
    MaxCrashes = 0
    MaxDeployments = 1
INVARIANT
    NoRollbackAfterCommit
