SPECIFICATION Spec
CONSTANTS
    a = a
    b = b
    c = c
    x = x
    live = live
    legacy = legacy
    NoRun = NoRun
    Run = {a, b, c, x}
    Chat = {x}
    Isolated = {c}
    Accepted = {a, b, x}
    Gauntlet = {x}
    Scope = {legacy}
    LegacyScope = legacy
    ScopeOf <- AllLegacy
    Stoppable = {a, x}
    Phases = 1
    MaxCrashes = 1
    Outages = FALSE
    Lossy = {a}
INVARIANTS
    MutualExclusion
    LockHasOwner
    QueueSound
    DoneIsSettled
PROPERTIES
    FinishedStaysFinished
CONSTRAINTS
    Unfaulted
    ChatOrIsolated
CHECK_DEADLOCK FALSE
