SPECIFICATION Spec
CONSTANTS
    c1 = c1
    c2 = c2
    Conns <- Clients
    Local = Local
    Pinger = Pinger
    Buffer = 1
    MayClose = FALSE
    MaxConnects = 2
    MaxEvents = 0
SYMMETRY Swap
INVARIANT HandshakeFirst
CHECK_DEADLOCK FALSE
