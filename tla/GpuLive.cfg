SPECIFICATION FairSpec
CONSTANTS
    p = p
    q = q
    r = r
    c = c
    m = m
    n = n
    NoReq = NoReq
    Coord = {}
    Req = {p, q}
    Host = {m}
    ServerHost = m
    HostOf <- OneHost
    ContextOf <- PairZones
    Parent <- Flat
    MaxCrashes = 0
    Outages = TRUE
    Unlocked = TRUE
PROPERTIES
    SwitchNotWedged
    WaiterGetsOn
CHECK_DEADLOCK FALSE
