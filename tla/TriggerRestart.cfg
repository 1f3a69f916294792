SPECIFICATION Spec
CONSTANTS
    c = c
    o = o
    i = i
    j = j
    NoTrigger = NoTrigger
    AnyMinute = AnyMinute
    Trigger = {i, j}
    Cron = {}
    Once = {}
    CronMinute <- Daily
    Faulty = {}
    Minutes = 1
    MaxCrashes = 2
    WritesFail = FALSE
INVARIANTS
    CreatedSurvives
