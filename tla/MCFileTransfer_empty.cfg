SPECIFICATION Spec
CONSTANTS
    Declared <- EmptyFirst
    Actual <- AsOffered
    Autos = {TRUE}
    Roles <- Relayed
    NetCap = 1
    RecvCap = 1
    MaxSessions = 1
    MaxFaults = 0
PROPERTY
    Delivered
CHECK_DEADLOCK FALSE
