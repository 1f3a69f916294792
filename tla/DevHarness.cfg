SPECIFICATION FairSpec
CONSTANTS
    w = w
    edit = edit
    cmd = cmd
    task = task
    Requests = 2
    MaxLive = 1
    Sub = {w}
    Call = {edit, task}
    ToolOf <- Tools
    Modes = {"plan", "acceptEdits"}
    Scopes = {"once", "workspace"}
    Nobody = Nobody
    Replayer = Replayer
    MaxTurns = 2
    MaxSubTurns = 1
    BatchSize = 2
    MaxReplays = 1
    MaxCrashes = 1
    DbFails = TRUE
INVARIANTS RestartFindsOutcome HistoryComplete
PROPERTIES LedgerSpec StreamEnds
CHECK_DEADLOCK FALSE
