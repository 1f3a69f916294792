-------------------------- MODULE TriggerScheduler --------------------------
(***************************************************************************)
(* The trigger scheduler (agents/trigger_scheduler.py) with the endpoints   *)
(* that use it (/api/v1/trigger/... in agents/main.py).  The event loop     *)
(* creates, pauses, resumes and deletes triggers, one request at a time,    *)
(* and rewrites triggers.json after each (api).  The scheduler's thread     *)
(* ticks beside it and fires what is due (tick).  After a restart the       *)
(* thread is started first and load_persisted then restores the triggers    *)
(* through the same add and pause calls, which rewrite the file (boot).     *)
(***************************************************************************)
EXTENDS Integers

CONSTANTS
    Trigger,      \* trigger ids, all with a task_config
    NoTrigger,    \* no trigger
    Cron,         \* cron triggers; a trigger is cron, once or interval
    Once,         \* one-shot triggers
    CronMinute,   \* the minute of the day at which a cron trigger matches, or AnyMinute
    AnyMinute,    \* a cron trigger with no field set
    Faulty,       \* triggers whose handler may raise
    Minutes,      \* bound: minutes of a day
    MaxCrashes,   \* bound: restarts
    WritesFail    \* bound: whether writing triggers.json may fail, once

Interval == Trigger \ (Cron \cup Once)
Minute == 0..(Minutes - 1)

ASSUME TriggerAssumption ==
    /\ NoTrigger \notin Trigger
    /\ Cron \subseteq Trigger /\ Once \subseteq Trigger \ Cron /\ Faulty \subseteq Trigger
    /\ CronMinute \in [Cron -> Minute \cup {AnyMinute}] /\ AnyMinute \notin Int

ASSUME CalendarAssumption ==
    Minutes \in Nat \ {0} /\ MaxCrashes \in Nat /\ WritesFail \in BOOLEAN

VARIABLES
    known,      \* memory: the keys of _triggers
    state,      \* memory: Trigger.state
    lastMinute, \* memory: _cron_fired_minute, -1 before the first fire
    due,        \* once triggers past fire_at, interval triggers past last_fired + interval
    file,       \* triggers.json: the state of each trigger in it
    api,        \* the request (or restore) the event loop is executing
    boot,       \* "up", or the step of the startup
    saved,      \* the content load_persisted read
    todo,       \* the entries load_persisted has not come to yet
    tick,       \* the scheduler's thread
    clock,      \* minute of the day
    ticked,     \* a tick started in this minute
    crashes,    \* restarts so far
    wanted,     \* history: what the owner was last told
    completed,  \* history: once triggers that have run
    ranNow,     \* history: cron triggers that ran in this minute of this process
    lostWrite,  \* history: a write of triggers.json failed
    cutLoad     \* history: a restart cut load_persisted short

memoryVars == <<known, state, lastMinute>>
loadVars == <<boot, saved, todo>>
timeVars == <<clock, ticked>>
historyVars == <<completed, ranNow, lostWrite, cutLoad>>
vars == <<memoryVars, due, file, api, loadVars, tick, timeVars, crashes, wanted, historyVars>>

State == {"active", "paused", "fired"}
Content == [Trigger -> State \cup {"absent"}]
Empty == [t \in Trigger |-> "absent"]
Op == {"create", "pause", "resume", "delete", "restore", "repause"}
Quiet == [at |-> "idle", op |-> "create", of |-> NoTrigger, image |-> Empty]
Waiting == [at |-> "wait", left |-> {}, of |-> NoTrigger, minute |-> 0]

Init ==
    /\ known = {} /\ state = [t \in Trigger |-> "active"] /\ lastMinute = [t \in Trigger |-> -1]
    /\ due = Interval
    /\ file = Empty
    /\ api = Quiet
    /\ boot = "up" /\ saved = Empty /\ todo = {}
    /\ tick = Waiting
    /\ clock = 0 /\ ticked = FALSE
    /\ crashes = 0
    /\ wanted = [t \in Trigger |-> "none"]
    /\ completed = {} /\ ranNow = {} /\ lostWrite = FALSE /\ cutLoad = FALSE

----------------------------------------------------------------------------
(* The event loop.                                                          *)

Register(t) == known' = known \cup {t} /\ state' = [state EXCEPT ![t] = "active"]
Request(op, t) == api' = [Quiet EXCEPT !.at = "serialize", !.op = op, !.of = t]
Accepts == boot = "up" /\ api.at = "idle"

\* add_cron_task, add_interval_task, add_once_task; ids are never reused.
Create(t) ==
    /\ Accepts /\ wanted[t] = "none" /\ t \notin known
    /\ Register(t)
    /\ Request("create", t)
    /\ UNCHANGED <<lastMinute, due, file, loadVars, tick, timeVars, crashes, wanted, historyVars>>

Pause(t) ==
    /\ Accepts /\ t \in known /\ state[t] = "active"
    /\ state' = [state EXCEPT ![t] = "paused"]
    /\ Request("pause", t)
    /\ UNCHANGED <<known, lastMinute, due, file, loadVars, tick, timeVars, crashes, wanted, historyVars>>

Resume(t) ==
    /\ Accepts /\ t \in known /\ state[t] = "paused"
    /\ state' = [state EXCEPT ![t] = "active"]
    /\ Request("resume", t)
    /\ UNCHANGED <<known, lastMinute, due, file, loadVars, tick, timeVars, crashes, wanted, historyVars>>

Remove(t) ==
    /\ Accepts /\ t \in known
    /\ known' = known \ {t}
    /\ Request("delete", t)
    /\ UNCHANGED <<state, lastMinute, due, file, loadVars, tick, timeVars, crashes, wanted, historyVars>>

\* _persist: the JSON text, taken while the scheduler's thread goes on.
Serialize ==
    /\ api.at = "serialize"
    /\ api' = [api EXCEPT !.at = "replace",
                          !.image = [t \in Trigger |-> IF t \in known THEN state[t] ELSE "absent"]]
    /\ UNCHANGED <<memoryVars, due, file, loadVars, tick, timeVars, crashes, wanted, historyVars>>

\* What the owner is told of the trigger when the request returns.
Answer(op) ==
    CASE op \in {"create", "resume"} -> "active" [] op = "pause" -> "paused" [] op = "delete" -> "deleted"

\* The temporary file replaces triggers.json at once, or the error is swallowed.
Replace ==
    /\ api.at = "replace"
    /\ \/ file' = api.image /\ UNCHANGED lostWrite
       \/ WritesFail /\ ~lostWrite /\ lostWrite' = TRUE /\ UNCHANGED file
    /\ CASE api.op = "restore" -> api' = [api EXCEPT !.at = "repause"] /\ UNCHANGED <<todo, wanted>>
         [] api.op = "repause" -> api' = Quiet /\ todo' = todo \ {api.of} /\ UNCHANGED wanted
         [] OTHER -> api' = Quiet /\ wanted' = [wanted EXCEPT ![api.of] = Answer(api.op)] /\ UNCHANGED todo
    /\ UNCHANGED <<memoryVars, due, boot, saved, tick, timeVars, crashes, completed, ranNow, cutLoad>>

(* load_persisted.                                                          *)

LoadRead ==
    /\ boot = "read"
    /\ saved' = file
    /\ todo' = {t \in Trigger : file[t] # "absent"}
    /\ boot' = "load"
    /\ UNCHANGED <<memoryVars, due, file, api, tick, timeVars, crashes, wanted, historyVars>>

\* A once trigger saved as fired is skipped; any other is added as active.
LoadOne(t) ==
    /\ boot = "load" /\ api.at = "idle" /\ t \in todo
    /\ IF t \in Once /\ saved[t] = "fired"
       THEN todo' = todo \ {t} /\ UNCHANGED <<known, state, api>>
       ELSE Register(t) /\ Request("restore", t) /\ UNCHANGED todo
    /\ UNCHANGED <<lastMinute, due, file, boot, saved, tick, timeVars, crashes, wanted, historyVars>>

\* Mutation of Repause: a paused trigger comes back active.
RepauseForgotten ==
    /\ api.at = "repause"
    /\ api' = Quiet /\ todo' = todo \ {api.of}
    /\ UNCHANGED <<memoryVars, due, file, boot, saved, tick, timeVars, crashes, wanted, historyVars>>

\* pause(), if the entry was saved as paused and has not fired meanwhile.
Repause ==
    /\ api.at = "repause"
    /\ IF saved[api.of] = "paused" /\ state[api.of] = "active"
       THEN /\ state' = [state EXCEPT ![api.of] = "paused"]
            /\ Request("repause", api.of)
            /\ UNCHANGED todo
       ELSE api' = Quiet /\ todo' = todo \ {api.of} /\ UNCHANGED state
    /\ UNCHANGED <<known, lastMinute, due, file, boot, saved, tick, timeVars, crashes, wanted, historyVars>>

LoadDone ==
    /\ boot = "load" /\ api.at = "idle" /\ todo = {}
    /\ boot' = "up"
    /\ UNCHANGED <<memoryVars, due, file, api, saved, todo, tick, timeVars, crashes, wanted, historyVars>>

Loop == Serialize \/ Replace \/ LoadRead \/ (\E t \in Trigger : LoadOne(t)) \/ Repause \/ LoadDone

----------------------------------------------------------------------------
(* The scheduler's thread.                                                  *)

\* One tick works on a copy of _triggers and on the time at which it began.
TickStart ==
    /\ tick.at = "wait"
    /\ tick' = [Waiting EXCEPT !.at = "scan", !.left = known, !.minute = clock]
    /\ ticked' = TRUE
    /\ UNCHANGED <<memoryVars, due, file, api, loadVars, clock, crashes, wanted, historyVars>>

\* _check_cron: the fields match, and the same minute of the day was not the last to fire.
CheckCron(t) ==
    /\ CronMinute[t] \in {AnyMinute, tick.minute}
    /\ lastMinute[t] # tick.minute

ShouldFire(t) == state[t] = "active" /\ IF t \in Cron THEN CheckCron(t) ELSE t \in due

TickCheck(t) ==
    /\ tick.at = "scan" /\ t \in tick.left
    /\ tick' = IF ShouldFire(t) THEN [tick EXCEPT !.at = "handler", !.of = t]
               ELSE [tick EXCEPT !.left = @ \ {t}]
    /\ UNCHANGED <<memoryVars, due, file, api, loadVars, timeVars, crashes, wanted, historyVars>>

NextTrigger == [tick EXCEPT !.at = "scan", !.left = @ \ {tick.of}, !.of = NoTrigger]

\* Mutation of FireFails: the exception ends the scheduler's thread.
FireKillsThread ==
    /\ tick.at = "handler" /\ tick.of \in Faulty
    /\ tick' = [tick EXCEPT !.at = "dead"]
    /\ UNCHANGED <<memoryVars, due, file, api, loadVars, timeVars, crashes, wanted, historyVars>>

\* The handler raises: the trigger stays as it is and is tried again at the next tick.
FireFails ==
    /\ tick.at = "handler" /\ tick.of \in Faulty
    /\ tick' = NextTrigger
    /\ UNCHANGED <<memoryVars, due, file, api, loadVars, timeVars, crashes, wanted, historyVars>>

\* The handler runs (it starts a thread for the task).
FireRuns ==
    /\ tick.at = "handler"
    /\ tick' = [tick EXCEPT !.at = "record"]
    /\ completed' = IF tick.of \in Once THEN completed \cup {tick.of} ELSE completed
    /\ ranNow' = IF tick.of \in Cron THEN ranNow \cup {tick.of} ELSE ranNow
    /\ UNCHANGED <<memoryVars, due, file, api, loadVars, timeVars, crashes, wanted, lostWrite, cutLoad>>

\* last_fired, the given minute of the day, and FIRED for a once trigger, over whatever
\* state the event loop gave it meanwhile.  Nothing is persisted.
Record(minute) ==
    /\ tick.at = "record"
    /\ lastMinute' = IF tick.of \in Cron THEN [lastMinute EXCEPT ![tick.of] = minute] ELSE lastMinute
    /\ state' = IF tick.of \in Once THEN [state EXCEPT ![tick.of] = "fired"] ELSE state
    /\ due' = due \ ({tick.of} \cap Interval)
    /\ tick' = NextTrigger
    /\ UNCHANGED <<known, file, api, loadVars, timeVars, crashes, wanted, historyVars>>

\* Mutation of FireRecord: the minute at which the tick began.
FireRecordTickMinute == Record(tick.minute)

\* The minute recorded is that of a second reading of the clock, after the handler.
FireRecord == Record(clock)

TickEnd ==
    /\ tick.at = "scan" /\ tick.left = {}
    /\ tick' = Waiting
    /\ UNCHANGED <<memoryVars, due, file, api, loadVars, timeVars, crashes, wanted, historyVars>>

Fire == FireFails \/ FireRuns \/ FireRecord
TickStep == TickStart \/ (\E t \in Trigger : TickCheck(t)) \/ Fire \/ TickEnd

----------------------------------------------------------------------------
(* Time and restarts.                                                       *)

\* A minute passes.  TICK_INTERVAL is 15 seconds: no minute goes by without a tick.
MinutePasses ==
    /\ ticked
    /\ clock' = (clock + 1) % Minutes
    /\ ticked' = FALSE
    /\ ranNow' = {}
    /\ UNCHANGED <<memoryVars, due, file, api, loadVars, tick, crashes, wanted, completed, lostWrite, cutLoad>>

\* fire_at comes, or an interval elapses.  A tick goes by the time at which it began:
\* what falls due meanwhile is due for the next one.
BecomesDue(t) ==
    /\ tick.at = "wait" /\ t \notin Cron \cup due
    /\ due' = due \cup {t}
    /\ UNCHANGED <<memoryVars, file, api, loadVars, tick, timeVars, crashes, wanted, historyVars>>

\* Memory is lost; a restored interval trigger has no last_fired and is due at once.
Crash ==
    /\ crashes < MaxCrashes
    /\ crashes' = crashes + 1
    /\ known' = {} /\ state' = [t \in Trigger |-> "active"] /\ lastMinute' = [t \in Trigger |-> -1]
    /\ due' = due \cup Interval
    /\ api' = Quiet /\ tick' = Waiting
    /\ boot' = "read" /\ saved' = Empty /\ todo' = {}
    /\ ranNow' = {}
    /\ cutLoad' = (cutLoad \/ boot = "load")
    /\ UNCHANGED <<file, timeVars, wanted, completed, lostWrite>>

Next ==
    \/ \E t \in Trigger : Create(t) \/ Pause(t) \/ Resume(t) \/ Remove(t)
    \/ Loop
    \/ TickStep
    \/ MinutePasses \/ \E t \in Trigger : BecomesDue(t)
    \/ Crash

Spec == Init /\ [][Next]_vars

\* The event loop and the thread go on, and time passes.
FairSpec == Spec /\ WF_vars(Loop) /\ WF_vars(TickStep) /\ WF_vars(MinutePasses)

----------------------------------------------------------------------------
(* Properties.                                                              *)

\* Every variable has its type.
TypeOK ==
    /\ known \subseteq Trigger /\ state \in [Trigger -> State]
    /\ lastMinute \in [Trigger -> Minute \cup {-1}]
    /\ due \subseteq Trigger \ Cron
    /\ file \in Content
    /\ api \in [at : {"idle", "serialize", "replace", "repause"}, op : Op,
                of : Trigger \cup {NoTrigger}, image : Content]
    /\ boot \in {"up", "read", "load"} /\ saved \in Content /\ todo \subseteq Trigger
    /\ tick \in [at : {"wait", "scan", "handler", "record"}, left : SUBSET Trigger,
                 of : Trigger \cup {NoTrigger}, minute : Minute]
    /\ clock \in Minute /\ ticked \in BOOLEAN
    /\ crashes \in 0..MaxCrashes
    /\ wanted \in [Trigger -> {"none", "active", "paused", "deleted"}]
    /\ completed \subseteq Once /\ ranNow \subseteq Cron
    /\ lostWrite \in BOOLEAN /\ cutLoad \in BOOLEAN

\* What the owner was told still holds when the scheduler is up and no request is in
\* flight, restarts included: a trigger is there, active or paused as last acknowledged,
\* unless it is a once trigger that has run (it may run again after a restart: that it
\* fired is not persisted); a deleted one is gone.  The exceptions are a write of
\* triggers.json that failed and a restore that a second restart cut short.
AnswersKept ==
    boot = "up" /\ api.at = "idle" /\ ~lostWrite /\ ~cutLoad =>
        \A t \in Trigger :
            CASE wanted[t] \in {"active", "paused"} ->
                    \/ t \in known /\ state[t] = wanted[t]
                    \/ t \in completed
              [] wanted[t] \in {"none", "deleted"} -> t \notin known

\* _check_cron: "Don't fire twice in the same minute", also when a tick that began in one
\* minute fires in the next.
CronOncePerMinute ==
    [][tick.at = "handler" /\ tick'.at = "record" => tick.of \notin ranNow]_vars

\* A once or interval trigger that stays active is fired when it is due, however often the
\* handlers of other triggers raise and whatever requests and restores go on beside it.
DueIsFired ==
    \A t \in Trigger \ (Cron \cup Faulty) :
        t \in known /\ state[t] = "active" /\ t \in due
            ~> t \notin known \/ state[t] # "active" \/ t \notin due

\* trigger_create in main.py: the kind of trigger created over the API is "the only kind
\* that survives a restart".
CreatedSurvives ==
    boot = "up" /\ api.at = "idle" =>
        \A t \in Cron \cup Interval : wanted[t] \in {"active", "paused"} => t \in known

\* trigger_scheduler.py, usage of add_cron with an hour and a minute: "Every day at
\* 2:00 AM - run training".  So an active daily trigger fires again and again.
FiresEveryDay ==
    \A t \in Cron :
        <>[](t \in known /\ state[t] = "active") => []<>(tick.at = "record" /\ tick.of = t)
=============================================================================
