SPECIFICATION FairSpec
CONSTANTS
    c = c
    o = o
    i = i
    j = j
    NoTrigger = NoTrigger
    AnyMinute = AnyMinute
    Trigger = {o, i}
    Cron = {}
    Once = {o}
    CronMinute <- EveryMinute
    Faulty = {i}
    Minutes = 1
    MaxCrashes = 1
    WritesFail = TRUE
PROPERTIES
    DueIsFired
