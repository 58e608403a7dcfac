SPECIFICATION AuthSpec
CONSTANTS
    NServers = 2
    MaxFaults = 3
INVARIANTS
    CopyIsStored
PROPERTY ServedAgain
