SPECIFICATION PairSpec
CONSTANTS
    c1 = c1
    c2 = c2
    MaxInt = 31
    Conns = {c1}
    Reported <- OnePeer
    LocalScreens <- OneScreen
    Local = "mac"
    Sources = {c1}
    Deltas <- Steps
    Coords <- Spots
    Places <- LeftOfLocal
    EdgeBand = 1
    LinksBreak = TRUE
    MaxConnects = 2
    MaxPlacements = 1
    Capture = Capture
    Ui = Ui
INVARIANTS
    TypeOK
    LayoutTracksPeers
    ExclusiveInput
PROPERTIES
    RouterSpec
    RelativeMeansPeer
    PeerJoins
