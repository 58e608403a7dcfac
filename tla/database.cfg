SPECIFICATION Spec
CONSTANTS
    MaximumStateDataStoreCount = 14
    MaxTrySending = 1
    MaxFetchAttempts = 0
    RollbackAnswers = {"supported"}
    RebootAnswers = {"no reboot"}
    FailingOps = {"ArtifactCommit"}
    ScriptFaults = {"ToArtifactCommit_Leave"}
    Faults = {"db", "signal"}
    MaxCrashes = 1
    MaxDeployments = 2
INVARIANTS
    SuccessIsTrue
