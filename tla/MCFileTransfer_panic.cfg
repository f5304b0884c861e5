SPECIFICATION Spec
CONSTANTS
    Declared <- TwoFiles
    Actual <- Stable
    Autos = {TRUE, FALSE}
    Roles <- Relayed
    NetCap = 1
    RecvCap = 1
    MaxSessions = 1
    MaxFaults = 1
INVARIANT
    DetachIsSafe
CHECK_DEADLOCK FALSE
