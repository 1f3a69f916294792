SPECIFICATION Spec
CONSTANTS
    w = w
    edit = edit
    cmd = cmd
    task = task
    Requests = 1
    MaxLive = 1
    Sub = {w}
    Call = {cmd}
    ToolOf <- Tools
    Modes = {"default"}
    Scopes = {"once"}
    Nobody = Nobody
    Replayer = Replayer
    MaxTurns = 1
    MaxSubTurns = 1
    BatchSize = 1
    MaxReplays = 0
    MaxCrashes = 0
    DbFails = FALSE
PROPERTIES BudgetIsNoError
CHECK_DEADLOCK FALSE
