SPECIFICATION Spec
CONSTANTS
    c1 = c1
    c2 = c2
    Conns <- Clients
    Local = Local
    Pinger = Pinger
    Buffer = 1
    MayClose = TRUE
    MaxConnects = 2
    MaxEvents = 2
SYMMETRY Swap
INVARIANTS
    TypeOK
    ClipOnce
    ChangeReachesAll
    ViewsConverge
CHECK_DEADLOCK FALSE
