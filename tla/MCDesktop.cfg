SPECIFICATION DesktopSpec
CONSTANTS
    Requests = {r1, r2}
    Fields = {name, addr}
    Default = default
    Torn = torn
    Inodes = {1, 2, 3, 4}
    MaxCrashes = 2
    Contents = {text, files, empty}
    FileList = files
    EmptyText = empty
    None = none
    LinkCap = 1
    MaxCopies = 3
    Callers = {c1, c2}
    MaxEvents = 2
    PipeCap = 2
    QueueCap = 1
    MaxLinks = 2
    Sessions = {1, 2}
    MaxAgents = 3
    MaxMishaps = 3
    MaxTrouble = 1
INVARIANTS
    DesktopTypeOK
    SettingsSurvive
    ClipboardsAgree
    ExactlyOnce
PROPERTIES
    EchoNeedsRace
    NoLateInjection
    RightDesktop
    AgentReturns
CHECK_DEADLOCK FALSE
