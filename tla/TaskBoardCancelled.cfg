SPECIFICATION Spec
CONSTANTS
    a = a
    b = b
    c = c
    x = x
    live = live
    legacy = legacy
    NoRun = NoRun
    Run = {a, x}
    Chat = {x}
    Isolated = {}
    Accepted = {x}
    Gauntlet = {}
    Scope = {live, legacy}
    LegacyScope = legacy
    ScopeOf <- AllLive
    Stoppable = {x}
    Phases = 1
    MaxCrashes = 0
    Outages = FALSE
    Lossy = {}
PROPERTIES
    CancelledIsDurable
CHECK_DEADLOCK FALSE
