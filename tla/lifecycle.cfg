SPECIFICATION Spec
CONSTANTS
    MaximumStateDataStoreCount = 14
    MaxTrySending = 2
    MaxFetchAttempts = 1
    RollbackAnswers = {"supported", "unsupported"}
    RebootAnswers = {"no reboot", "custom", "automatic"}
    FailingOps = {"ReadHeaders", "Download", "SupportsRollback", "ArtifactInstall", "NeedsArtifactReboot", "ArtifactReboot", "SystemReboot", "ArtifactVerifyReboot", "ArtifactCommit", "ArtifactRollback", "ArtifactRollbackReboot", "ArtifactVerifyRollbackReboot", "ArtifactFailure", "Cleanup"}
    ScriptFaults = {"ToSync", "ToDownload_Enter", "ToDownload_Leave", "ToArtifactInstall", "ToArtifactReboot_Enter", "ToArtifactReboot_Leave", "ToArtifactCommit_Enter", "ToArtifactCommit_Leave"}
    Faults = {"net", "abort", "log", "fetch", "mismatch", "scripts version", "idle", "signal"}
    MaxCrashes = 1
    MaxDeployments = 1
INVARIANTS
    TypeOK
    CommitVerified
    OutcomeRecorded
    CleanedUp
    RecoveryInfoOnDisk
PROPERTY
    KeepsPromise
