SPECIFICATION RootfsSpec
CONSTANTS
    MaximumStateDataStoreCount = 20
    MaxTrySending = 2
    MaxFetchAttempts = 1
    RollbackAnswers = {"supported"}
    RebootAnswers = {"custom"}
    FailingOps = {"Download", "ArtifactReboot", "ArtifactVerifyReboot", "ArtifactCommit", "ArtifactVerifyRollbackReboot"}
    ScriptFaults = {"ToDownload_Leave", "ToArtifactInstall", "ToArtifactReboot_Leave", "ToArtifactCommit_Leave"}
    Faults = {"net"}
    MaxCrashes = 2
    MaxDeployments = 2
    NewImages = {"new", "bad"}
INVARIANTS
    AlwaysBootable
    NameMatchesImage
    CommitsWhatRuns
