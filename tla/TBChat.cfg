SPECIFICATION FairSpec
CONSTANTS
    a = a
    b = b
    c = c
    x = x
    live = live
    legacy = legacy
    NoRun = NoRun
    Run = {a, b, x}
    Chat = {x}
    Isolated = {}
    Accepted = {b, x}
    Gauntlet = {}
    Scope = {live, legacy}
    LegacyScope = legacy
    ScopeOf <- AllLive
    Stoppable = {b}
    Phases = 1
    MaxCrashes = 0
    Outages = TRUE
    Lossy = {}
PROPERTIES
    StoppedWhileQueuedNeverRuns
    LockEventuallyFreed
    HandOverReachesWaiting
CHECK_DEADLOCK FALSE
