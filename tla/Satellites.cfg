SPECIFICATION FairSpec
CONSTANTS
    Focus = {"pairing", "edits", "snapshots", "pending", "entities", "brain", "clarify", "maintenance"}
    Thread = {t1, t2}
    Branch = {"main", "fix"}
    MaxPreviews = 2
    MaxConfirms = 3
    MaxCrashes = 1
    DbFails = TRUE
    Run = {r1, r2}
    NoRun = NoRun
    MaxOutages = 2
    Threshold = 3
    Window = 2
    OpenFor = 2
    Room = {a, b}
    Guest = {g, h}
    NoRoom = NoRoom
    NoGuest = NoGuest
    MaxConns = 1
    PoolSize = 2
    MaxResearch = 3
    MaxImpl = 1
    Conversion = {merge}
    Text = {"cat", "dog", "owl"}
    Writer = {w1, w2, w3}
    Tries = 2
    Rows = 3
    Limit = 2
    Poison = {1}
    MaxHostFaults = 1
    Label = {"cat", "dog"}
    Memories = 2
    Device = {"phone"}
    NoDevice = "none"
    Default = "none"
    MaxTasks = 2
    MaxApprovals = 1
    MaxAsks = 3
INVARIANTS
    TablesAgree
    MemoryAccounted
    SentAsAgreed
PROPERTIES
    PendingDrained
    DeliveryEnds
    DownIsRepaired
CHECK_DEADLOCK FALSE
