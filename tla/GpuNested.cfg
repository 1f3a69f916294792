SPECIFICATION FairSpec
CONSTANTS
    p = p
    q = q
    r = r
    c = c
    m = m
    n = n
    NoReq = NoReq
    Coord = {}
    Req = {p, q}
    Host = {m}
    ServerHost = m
    HostOf <- OneHost
    ContextOf <- SameZone
    Parent <- Nested
    MaxCrashes = 0
    Outages = TRUE
    Unlocked = FALSE
PROPERTIES
    FailsOpen
CHECK_DEADLOCK FALSE
