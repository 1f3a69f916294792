SPECIFICATION FairSpec
CONSTANTS
    w = w
    edit = edit
    cmd = cmd
    task = task
    Requests = 2
    MaxLive = 2
    Sub = {w}
    Call = {cmd, task}
    ToolOf <- Tools
    Modes = {"default", "plan"}
    Scopes = {"session"}
    Nobody = Nobody
    Replayer = Replayer
    MaxTurns = 2
    MaxSubTurns = 2
    BatchSize = 1
    MaxReplays = 0
    MaxCrashes = 0
    DbFails = FALSE
PROPERTIES StreamEnds
CHECK_DEADLOCK FALSE
