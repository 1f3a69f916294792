SPECIFICATION Spec
CONSTANTS
    p = p
    q = q
    r = r
    c = c
    m = m
    n = n
    NoReq = NoReq
    Coord = {c}
    Req = {p, q, r}
    Host = {m, n}
    ServerHost = m
    HostOf <- TwoHosts
    ContextOf <- Zones
    Parent <- Flat
    MaxCrashes = 1
    Outages = TRUE
    Unlocked = FALSE
INVARIANTS
    OneKeyHolder
    OneSwitchPerProcess
    ZoneIsTrue
    LeaseExclusive
PROPERTIES
    LeaseSpec
CONSTRAINT OneFault
CHECK_DEADLOCK FALSE
