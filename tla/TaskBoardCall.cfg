SPECIFICATION FairSpec
CONSTANTS
    a = a
    b = b
    c = c
    x = x
    live = live
    legacy = legacy
    NoRun = NoRun
    Run = {a}
    Chat = {}
    Isolated = {}
    Accepted = {}
    Gauntlet = {}
    Scope = {live, legacy}
    LegacyScope = legacy
    ScopeOf <- AllLive
    Stoppable = {}
    Phases = 1
    MaxCrashes = 0
    Outages = FALSE
    Lossy = {}
PROPERTIES
    StartedIsCoordinated
CHECK_DEADLOCK FALSE
