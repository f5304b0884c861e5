SPECIFICATION Spec
CONSTANTS
    Declared <- TwoFiles
    Actual <- Changing
    Autos = {TRUE, FALSE}
    Roles <- AnyRoles
    NetCap = 1
    RecvCap = 1
    MaxSessions = 2
    MaxFaults = 1
INVARIANTS
    TypeOK
    FilesIntact
    DoneMeansDelivered
    NoLeakedFile
PROPERTIES
    AbortIsFinal
    TransferEnds
    Delivered
CHECK_DEADLOCK FALSE
