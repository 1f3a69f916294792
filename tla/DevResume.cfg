SPECIFICATION Spec
CONSTANTS
    w = w
    edit = edit
    cmd = cmd
    task = task
    Requests = 2
    MaxLive = 1
    Sub = {w}
    Call = {edit, cmd}
    ToolOf <- Tools
    Modes = {"acceptEdits"}
    Scopes = {"once"}
    Nobody = Nobody
    Replayer = Replayer
    MaxTurns = 1
    MaxSubTurns = 1
    BatchSize = 2
    MaxReplays = 1
    MaxCrashes = 1
    DbFails = FALSE
INVARIANTS ResumedHistoryComplete
CHECK_DEADLOCK FALSE
