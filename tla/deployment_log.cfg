SPECIFICATION LogSpec
CONSTANTS
    MaxLogFiles = 3
    MaxDeployments = 6
    MaxEntries = 2
    MaxCuts = 2
    LogFaults = {"close", "open", "rename"}
INVARIANTS
    LogIsComplete
    LastLogsKept
CHECK_DEADLOCK FALSE
