SPECIFICATION StandaloneSpec
CONSTANTS
    MaxInstalls = 2
    FailingCalls = {"Download Enter", "ReadHeaders", "Depends", "StorePayloads",
        "Download Leave", "SupportsRollback", "Install Enter", "InstallUpdate",
        "Install Leave", "NeedsReboot", "store", "restore", "Commit Enter",
        "CommitUpdate", "Commit Leave", "support again", "Rollback Enter", "Rollback",
        "Rollback Leave", "Failure", "Cleanup", "database"}
    MaxCrashes = 2
INVARIANTS
    CleanNameIsCommitted
    EntryIsInstalled
    DatabaseTellsTruth
    SuccessIsReal
