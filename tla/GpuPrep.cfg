SPECIFICATION Spec
CONSTANTS
    p = p
    q = q
    r = r
    c = c
    m = m
    n = n
    NoReq = NoReq
    Coord = {c}
    Req = {p, q}
    Host = {m}
    ServerHost = m
    HostOf <- OneHost
    ContextOf <- PairZones
    Parent <- Flat
    MaxCrashes = 0
    Outages = TRUE
    Unlocked = FALSE
INVARIANT
    ZoneOfHolder
CHECK_DEADLOCK FALSE
