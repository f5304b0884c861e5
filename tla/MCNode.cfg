SPECIFICATION NodeSpec
CONSTANTS
    MaxInt = 7
    Layouts <- MCLayouts
    Local = "mac"
    Coords <- MCCoords
    Deltas <- MCDeltas
    Scale = 15
    Requests = {r1, r2}
    MaxNodes = 3
    MaxStops = 1
SYMMETRY Swap
INVARIANTS
    NodeTypeOK
    CursorMatchesActive
    MoveLandsNearest
    NoOrphan
    DropsDeadClient
    FilesAttached
PROPERTIES
    StaleCallbackHarmless
    OverlapSettles
CHECK_DEADLOCK FALSE
