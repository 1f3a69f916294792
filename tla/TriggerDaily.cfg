SPECIFICATION FairSpec
CONSTANTS
    c = c
    o = o
    i = i
    j = j
    NoTrigger = NoTrigger
    AnyMinute = AnyMinute
    Trigger = {c}
    Cron = {c}
    Once = {}
    CronMinute <- Daily
    Faulty = {}
    Minutes = 2
    MaxCrashes = 0
    WritesFail = FALSE
PROPERTIES
    FiresEveryDay
