SPECIFICATION Spec
CONSTANTS
    c = c
    o = o
    i = i
    j = j
    NoTrigger = NoTrigger
    AnyMinute = AnyMinute
    Trigger = {c, o}
    Cron = {c}
    Once = {o}
    CronMinute <- EveryMinute
    Faulty = {c}
    Minutes = 2
    MaxCrashes = 2
    WritesFail = FALSE
INVARIANTS
    AnswersKept
PROPERTIES
    CronOncePerMinute
