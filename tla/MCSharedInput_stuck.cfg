SPECIFICATION Spec
CONSTANTS
    c1 = c1
    c2 = c2
    MaxInt = 31
    Conns = {c1}
    Reported <- OnePeer
    LocalScreens <- OneScreen
    Local = "mac"
    Sources = {}
    Deltas <- Steps
    Coords <- Spots
    Places = {}
    EdgeBand = 1
    LinksBreak = TRUE
    MaxConnects = 1
    MaxPlacements = 0
    Capture = Capture
    Ui = Ui
PROPERTY
    LocalInputComesBack
