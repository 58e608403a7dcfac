SPECIFICATION ScriptsSpec
CONSTANTS
    NScripts = 2
    Timeout = 2
    RetryInterval = 2
    RetryTimeout = 3
    MaxHeld = 3
INVARIANTS
    ResultIsTrue
    WindowKept
PROPERTY
    ExecuteReturns
CHECK_DEADLOCK FALSE
