SPECIFICATION FairSpec
CONSTANTS
    MaximumStateDataStoreCount = 14
    MaxTrySending = 2
    MaxFetchAttempts = 1
    RollbackAnswers = {"supported", "unsupported"}
    RebootAnswers = {"custom"}
    FailingOps = {"Download", "ArtifactInstall", "ArtifactReboot", "ArtifactVerifyReboot", "ArtifactCommit", "ArtifactRollback", "ArtifactVerifyRollbackReboot"}
    ScriptFaults = {"ToError", "ToArtifactReboot_Leave", "ToArtifactCommit_Leave"}
    Faults = {"net", "fetch"}
    MaxCrashes = 1
    MaxDeployments = 2
PROPERTY
    DeploymentEnds
