---------------------------- MODULE TriggerProofs ----------------------------
(***************************************************************************)
(* Proofs about the trigger scheduler, for any set of triggers, any number  *)
(* of restarts and a failing write anywhere: a cron trigger does not run    *)
(* twice in a minute, and what the owner was told survives the requests,    *)
(* the ticks and the restarts that go on beside each other.                 *)
(*                                                                         *)
(* AnswersKept speaks of the scheduler at rest only.  What makes it         *)
(* inductive is Answers: whatever the event loop is in the middle of, the   *)
(* file, the text about to replace it, memory and (while a restore runs)    *)
(* the content read from the file each agree with what the owner was told,  *)
(* except at the trigger being worked on, where they agree with the request.*)
(***************************************************************************)
EXTENDS TriggerScheduler, TLAPS

----------------------------------------------------------------------------
(* The inductive invariant.                                                 *)

\* A cron trigger that ran in this minute has the minute as its last one, or is about to;
\* a tick that is older than the minute does not come back to it.
Ran ==
    /\ \A t \in ranNow : lastMinute[t] = clock \/ (tick.at = "record" /\ tick.of = t)
    /\ \A t \in ranNow :
           \/ tick.minute = clock
           \/ t \notin tick.left
           \/ tick.at = "record" /\ tick.of = t
    /\ tick.at = "handler" => tick.of \notin ranNow

\* A one-shot trigger whose end is about to be recorded has run.
Ended == tick.at = "record" /\ tick.of \in Once => tick.of \in completed

Kept(t) == wanted[t] \in {"active", "paused"}

\* v is the state that the owner was last told t has.
AsTold(t, v) == IF Kept(t) THEN v = wanted[t] \/ t \in completed ELSE v = "absent"

\* v is the state that the operation asks for.
AsAsked(t, op, v) ==
    /\ op = "delete" => v = "absent"
    /\ op \in {"create", "resume", "restore"} => v = "active" \/ t \in completed
    /\ op \in {"pause", "repause"} => v = "paused" \/ t \in completed

\* The state of t in memory.
Shown(t) == IF t \in known THEN state[t] ELSE "absent"

Busy == api.at # "idle"

\* The scheduler is up: only the trigger of the request in flight may differ.
Serving ==
    /\ Busy => /\ api.of \in Trigger
               /\ api.at \in {"serialize", "replace"}
               /\ api.op \in {"create", "pause", "resume", "delete"}
    /\ \A t \in Trigger : AsTold(t, file[t])
    /\ \A t \in Trigger :
           IF Busy /\ t = api.of THEN AsAsked(t, api.op, Shown(t)) ELSE AsTold(t, Shown(t))
    /\ \A t \in Trigger :
           api.at = "replace" =>
               IF t = api.of THEN AsAsked(t, api.op, api.image[t]) ELSE AsTold(t, api.image[t])

\* Just restarted: memory is empty and the file is all there is.
Restarted ==
    /\ ~ Busy /\ known = {}
    /\ \A t \in Trigger : AsTold(t, file[t])

\* A restore: what is still to do is in saved, what is done is in memory and in the file.
Restoring ==
    /\ \A t \in Trigger : AsTold(t, saved[t])
    /\ \A t \in todo : saved[t] # "absent"
    /\ \A t \in Trigger \ todo : AsTold(t, Shown(t)) /\ AsTold(t, file[t])
    /\ Busy => /\ api.of \in todo /\ AsAsked(api.of, api.op, Shown(api.of))
               /\ api.op = "restore" \/ (api.op = "repause" /\ api.at # "repause"
                                                          /\ saved[api.of] = "paused")
    /\ api.at = "replace" =>
           /\ AsAsked(api.of, api.op, api.image[api.of])
           /\ \A t \in Trigger \ todo : AsTold(t, api.image[t])
    /\ api.at = "repause" => AsAsked(api.of, "restore", file[api.of])

Answers ==
    ~lostWrite /\ ~cutLoad =>
        /\ boot = "up" => Serving
        /\ boot = "read" => Restarted
        /\ boot = "load" => Restoring

IInv == TypeOK /\ Ran /\ Ended /\ Answers

----------------------------------------------------------------------------
(* Type correctness.                                                        *)

LEMMA ConstantTypes ==
  /\ Empty \in Content /\ 0 \in Minute /\ 0 \in 0..MaxCrashes
  /\ Quiet \in [at : {"idle", "serialize", "replace", "repause"}, op : Op,
                of : Trigger \cup {NoTrigger}, image : Content]
  /\ Waiting \in [at : {"wait", "scan", "handler", "record"}, left : SUBSET Trigger,
                  of : Trigger \cup {NoTrigger}, minute : Minute]
<1>1. Empty \in Content
  BY DEF Empty, Content
<1>2. 0 \in Minute /\ 0 \in 0..MaxCrashes
  BY CalendarAssumption DEF Minute
<1>3. "create" \in Op
  BY DEF Op
<1> QED  BY <1>1, <1>2, <1>3 DEF Quiet, Waiting

LEMMA InitType == Init => TypeOK
<1>1. Interval \subseteq Trigger \ Cron
  BY DEF Interval
<1>2. /\ [t \in Trigger |-> "active"] \in [Trigger -> State]
      /\ [t \in Trigger |-> -1] \in [Trigger -> Minute \cup {-1}]
      /\ [t \in Trigger |-> "none"] \in [Trigger -> {"none", "active", "paused", "deleted"}]
  BY DEF State
<1> QED  BY <1>1, <1>2, ConstantTypes DEF Init, TypeOK

LEMMA RequestType ==
  ASSUME TypeOK, NEW t \in Trigger, NEW op \in Op, Request(op, t)
  PROVE  api' \in [at : {"idle", "serialize", "replace", "repause"}, op : Op,
                   of : Trigger \cup {NoTrigger}, image : Content]
  BY DEF TypeOK, Request, Quiet, Empty, Content

LEMMA ApiType ==
  ASSUME TypeOK, \/ \E t \in Trigger : Create(t) \/ Pause(t) \/ Resume(t) \/ Remove(t)
                 \/ Loop
  PROVE  TypeOK'
<1> USE DEF memoryVars, loadVars, timeVars, historyVars
<1>op. {"create", "pause", "resume", "delete", "restore", "repause"} = Op
  BY DEF Op
<1>1. ASSUME NEW t \in Trigger, Create(t) \/ Pause(t) \/ Resume(t) \/ Remove(t)
      PROVE  TypeOK'
  BY <1>1, <1>op, RequestType DEF Create, Pause, Resume, Remove, Register, TypeOK, State
<1>2. CASE Serialize
  <2>1. [t \in Trigger |-> IF t \in known THEN state[t] ELSE "absent"] \in Content
    BY DEF TypeOK, Content
  <2> QED  BY <1>2, <2>1 DEF Serialize, TypeOK
<1>3. CASE Replace
  <2>1. api'.at \in {"idle", "repause"} /\ api' \in [at : {"idle", "serialize", "replace", "repause"},
           op : Op, of : Trigger \cup {NoTrigger}, image : Content]
    BY <1>3, ConstantTypes DEF Replace, TypeOK, Quiet
  <2>2. wanted' \in [Trigger -> {"none", "active", "paused", "deleted"}]
    BY <1>3 DEF Replace, TypeOK, Op, Answer
  <2>3. file' \in Content /\ todo' \subseteq Trigger /\ lostWrite' \in BOOLEAN
    BY <1>3 DEF Replace, TypeOK
  <2> QED  BY <1>3, <2>1, <2>2, <2>3 DEF Replace, TypeOK
<1>4. CASE LoadRead
  BY <1>4 DEF LoadRead, TypeOK
<1>5. ASSUME NEW t \in Trigger, LoadOne(t) PROVE TypeOK'
  BY <1>5, <1>op, RequestType DEF LoadOne, Register, TypeOK, State
<1>6. CASE Repause
  <2>1. api.of \in Trigger \cup {NoTrigger}
    BY DEF TypeOK
  <2>2. state' \in [Trigger -> State] /\ todo' \subseteq Trigger
    BY <1>6 DEF Repause, TypeOK, State
  <2>3. api' \in [at : {"idle", "serialize", "replace", "repause"}, op : Op,
                  of : Trigger \cup {NoTrigger}, image : Content]
    BY <1>6, <1>op, ConstantTypes, <2>1 DEF Repause, Request, Quiet, TypeOK
  <2> QED  BY <1>6, <2>2, <2>3 DEF Repause, TypeOK
<1>7. CASE LoadDone
  BY <1>7 DEF LoadDone, TypeOK
<1> QED  BY <1>1, <1>2, <1>3, <1>4, <1>5, <1>6, <1>7 DEF Loop

LEMMA TickType ==
  ASSUME TypeOK, TickStep
  PROVE  TypeOK'
<1> USE DEF memoryVars, loadVars, timeVars, historyVars
<1>next. NextTrigger \in [at : {"wait", "scan", "handler", "record"}, left : SUBSET Trigger,
                          of : Trigger \cup {NoTrigger}, minute : Minute]
  BY DEF NextTrigger, TypeOK
<1>1. CASE TickStart
  BY <1>1, ConstantTypes DEF TickStart, TypeOK
<1>2. ASSUME NEW t \in Trigger, TickCheck(t) PROVE TypeOK'
  BY <1>2 DEF TickCheck, TypeOK
<1>3. CASE FireFails
  BY <1>3, <1>next DEF FireFails, TypeOK
<1>4. CASE FireRuns
  BY <1>4 DEF FireRuns, TypeOK
<1>5. CASE FireRecord
  <2>1. state' \in [Trigger -> State] /\ lastMinute' \in [Trigger -> Minute \cup {-1}]
    BY <1>5 DEF FireRecord, Record, TypeOK, State
  <2> QED  BY <1>5, <2>1, <1>next DEF FireRecord, Record, TypeOK
<1>6. CASE TickEnd
  BY <1>6, ConstantTypes DEF TickEnd, TypeOK
<1> QED  BY <1>1, <1>2, <1>3, <1>4, <1>5, <1>6 DEF TickStep, Fire

LEMMA TimeType ==
  ASSUME TypeOK, MinutePasses \/ (\E t \in Trigger : BecomesDue(t)) \/ Crash
  PROVE  TypeOK'
<1> USE DEF memoryVars, loadVars, timeVars, historyVars
<1>1. CASE MinutePasses
  <2>1. (clock + 1) % Minutes \in Minute
    BY CalendarAssumption DEF TypeOK, Minute
  <2> QED  BY <1>1, <2>1 DEF MinutePasses, TypeOK
<1>2. ASSUME NEW t \in Trigger, BecomesDue(t) PROVE TypeOK'
  BY <1>2 DEF BecomesDue, TypeOK
<1>3. CASE Crash
  BY <1>3, InitType, TriggerAssumption, CalendarAssumption
     DEF Crash, TypeOK, Interval, Minute, State, Content, Empty, Op, Quiet, Waiting
<1> QED  BY <1>1, <1>2, <1>3

LEMMA StillType ==
  ASSUME TypeOK, UNCHANGED vars
  PROVE  TypeOK'
  BY DEF TypeOK, vars, memoryVars, loadVars, timeVars, historyVars

LEMMA NextType ==
  ASSUME TypeOK, [Next]_vars
  PROVE  TypeOK'
  BY ApiType, TickType, TimeType, StillType DEF Next

----------------------------------------------------------------------------
(* A cron trigger runs once in a minute.                                    *)

LEMMA InitRan == Init => Ran
  BY DEF Init, Ran, Waiting

LEMMA NextRan ==
  ASSUME TypeOK, Ran, [Next]_vars
  PROVE  Ran'
<1> USE DEF memoryVars, loadVars, timeVars, historyVars
<1>1. ASSUME UNCHANGED <<lastMinute, tick, clock, ranNow>> PROVE Ran'
  BY <1>1 DEF Ran
<1>2. CASE UNCHANGED vars \/ Loop \/ \E t \in Trigger : Create(t) \/ Pause(t) \/ Resume(t)
                                                        \/ Remove(t) \/ BecomesDue(t)
  BY <1>1, <1>2 DEF vars, Loop, Serialize, Replace, LoadRead, LoadOne, Repause, LoadDone,
     Create, Pause, Resume, Remove, BecomesDue
<1>3. CASE TickStart
  BY <1>3 DEF TickStart, Ran, Waiting
<1>4. ASSUME NEW t \in Trigger, TickCheck(t) PROVE Ran'
  <2>1. CASE ShouldFire(t)
    <3>1. t \notin ranNow
      BY <1>4, <2>1 DEF TickCheck, ShouldFire, CheckCron, Ran, TypeOK
    <3> QED  BY <1>4, <2>1, <3>1 DEF TickCheck, Ran, TypeOK
  <2>2. CASE ~ ShouldFire(t)
    BY <1>4, <2>2 DEF TickCheck, Ran, TypeOK
  <2> QED  BY <2>1, <2>2
<1>5. CASE FireFails
  BY <1>5 DEF FireFails, NextTrigger, Ran, TypeOK
<1>6. CASE FireRuns
  BY <1>6 DEF FireRuns, Ran, TypeOK
<1>7. CASE FireRecord
  <2>1. /\ tick.at = "record"
        /\ tick'.at = "scan" /\ tick'.minute = tick.minute /\ tick'.left = tick.left \ {tick.of}
        /\ clock' = clock /\ ranNow' = ranNow /\ ranNow \subseteq Cron
    BY <1>7 DEF FireRecord, Record, NextTrigger, TypeOK
  <2>2. ASSUME NEW t \in ranNow PROVE lastMinute'[t] = clock
    <3>1. t \in Trigger /\ lastMinute \in [Trigger -> Minute \cup {-1}]
      BY <2>1, <2>2, TriggerAssumption DEF TypeOK
    <3>2. CASE t = tick.of
      BY <1>7, <2>1, <2>2, <3>1, <3>2 DEF FireRecord, Record
    <3>3. CASE t # tick.of
      BY <1>7, <2>1, <2>2, <3>1, <3>3 DEF FireRecord, Record, Ran
    <3> QED  BY <3>2, <3>3
  <2> QED  BY <2>1, <2>2 DEF Ran
<1>8. CASE TickEnd
  BY <1>8 DEF TickEnd, Waiting, Ran, TypeOK
<1>9. CASE MinutePasses
  BY <1>9 DEF MinutePasses, Ran
<1>10. CASE Crash
  BY <1>10 DEF Crash, Waiting, Ran
<1> QED
  BY <1>2, <1>3, <1>4, <1>5, <1>6, <1>7, <1>8, <1>9, <1>10 DEF Next, TickStep, Fire

\* _check_cron's promise, also for a tick that began in one minute and fires in the next:
\* a cron trigger that has run in a minute does not run again in it (trigger_scheduler.py).
THEOREM CronRunsOncePerMinute == Spec => CronOncePerMinute
<1>1. Init => TypeOK /\ Ran
  BY InitType, InitRan
<1>2. TypeOK /\ Ran /\ [Next]_vars => (TypeOK /\ Ran)'
  BY NextType, NextRan
<1>3. TypeOK /\ Ran /\ [Next]_vars
        => [tick.at = "handler" /\ tick'.at = "record" => tick.of \notin ranNow]_vars
  BY DEF Ran
<1> QED  BY <1>1, <1>2, <1>3, PTL DEF Spec, CronOncePerMinute

----------------------------------------------------------------------------
(* What the owner was told.                                                 *)

LEMMA InitAnswers == Init => Ended /\ Answers
  BY DEF Init, Ended, Answers, Serving, AsTold, Kept, Shown, Busy, Quiet, Waiting, Empty

LEMMA NextEnded ==
  ASSUME TypeOK, Ended, [Next]_vars
  PROVE  Ended'
<1> USE DEF memoryVars, loadVars, timeVars, historyVars
<1>1. CASE UNCHANGED vars \/ Loop \/ \E t \in Trigger : Create(t) \/ Pause(t) \/ Resume(t)
                                                        \/ Remove(t) \/ BecomesDue(t)
  BY <1>1 DEF Ended, vars, Loop, Serialize, Replace, LoadRead, LoadOne, Repause, LoadDone,
     Create, Pause, Resume, Remove, BecomesDue
<1>2. CASE FireRuns
  BY <1>2 DEF Ended, TypeOK, FireRuns
<1>3. CASE FireFails \/ FireRecord
  BY <1>3 DEF Ended, TypeOK, FireFails, FireRecord, Record, NextTrigger
<1>4. CASE TickStart \/ TickEnd \/ Crash
  <2>1. tick'.at # "record"
    <3>1. CASE TickStart
      BY <3>1 DEF TickStart, Waiting
    <3>2. CASE TickEnd \/ Crash
      BY <3>2 DEF TickEnd, Waiting, Crash
    <3> QED  BY <1>4, <3>1, <3>2
  <2> QED  BY <2>1 DEF Ended
<1>6. CASE MinutePasses
  BY <1>6 DEF Ended, MinutePasses
<1>5. ASSUME NEW t \in Trigger, TickCheck(t) PROVE Ended'
  BY <1>5 DEF Ended, TypeOK, TickCheck
<1> QED  BY <1>1, <1>2, <1>3, <1>4, <1>5, <1>6 DEF Next, TickStep, Fire

\* A tick changes the state of a trigger that has run, and nothing else the answers are
\* about; nor do the minutes.
LEMMA TickIs ==
  ASSUME TypeOK, Ended, TickStep \/ MinutePasses \/ \E t \in Trigger : BecomesDue(t)
  PROVE  /\ UNCHANGED <<known, file, api, loadVars, wanted, lostWrite, cutLoad>>
         /\ completed \subseteq completed'
         /\ \A t \in Trigger : state'[t] = state[t] \/ t \in completed'
<1> USE DEF memoryVars, loadVars, timeVars, historyVars
<1>1. CASE FireRecord
  BY <1>1, TriggerAssumption DEF FireRecord, Record, Ended, TypeOK
<1> QED
  BY <1>1 DEF TickStep, Fire, TickStart, TickCheck, FireFails, FireRuns, TickEnd, MinutePasses,
     BecomesDue

LEMMA TickAnswers ==
  ASSUME TypeOK, Ended, Answers, TickStep \/ MinutePasses \/ \E t \in Trigger : BecomesDue(t)
  PROVE  Answers'
<1> USE DEF loadVars, Busy
<1>1. /\ UNCHANGED <<known, file, api, boot, saved, todo, wanted, lostWrite, cutLoad>>
      /\ completed \subseteq completed'
      /\ \A t \in Trigger : state'[t] = state[t] \/ t \in completed'
  BY TickIs
<1>2. ASSUME NEW t \in Trigger, NEW v, AsTold(t, v) PROVE AsTold(t, v)'
  BY <1>1, <1>2 DEF AsTold, Kept
<1>3. ASSUME NEW t \in Trigger, NEW op, NEW v, AsAsked(t, op, v) PROVE AsAsked(t, op, v)'
  BY <1>1, <1>3 DEF AsAsked
<1>4. ASSUME NEW t \in Trigger, AsTold(t, Shown(t)) PROVE AsTold(t, Shown(t))'
  <2>1. state[t] \in {"active", "paused", "fired"}
    BY DEF TypeOK, State
  <2> QED  BY <1>1, <1>4, <2>1 DEF AsTold, Kept, Shown
<1>5. ASSUME NEW t \in Trigger, NEW op \in Op, AsAsked(t, op, Shown(t))
      PROVE  AsAsked(t, op, Shown(t))'
  <2>1. state[t] \in {"active", "paused", "fired"}
    BY DEF TypeOK, State
  <2> QED  BY <1>1, <1>5, <2>1 DEF AsAsked, Shown
<1>6. api.op \in Op /\ todo \subseteq Trigger
  BY DEF TypeOK
<1>7. Serving => Serving'
  BY <1>1, <1>2, <1>3, <1>4, <1>5, <1>6 DEF Serving
<1>8. Restarted => Restarted'
  BY <1>1, <1>2 DEF Restarted
<1>9. Restoring => Restoring'
  BY <1>1, <1>2, <1>3, <1>4, <1>5, <1>6 DEF Restoring
<1> QED  BY <1>1, <1>7, <1>8, <1>9 DEF Answers

LEMMA CrashAnswers ==
  ASSUME TypeOK, Answers, Crash
  PROVE  Answers'
<1>1. /\ boot' = "read" /\ known' = {} /\ api'.at = "idle" /\ UNCHANGED <<file, wanted, completed>>
      /\ ~lostWrite' /\ ~cutLoad' => ~lostWrite /\ ~cutLoad /\ boot # "load"
  BY DEF Crash, Quiet
<1>2. ASSUME ~lostWrite', ~cutLoad', NEW t \in Trigger PROVE AsTold(t, file[t])
  BY <1>1, <1>2 DEF Answers, Serving, Restarted, TypeOK
<1>3. ASSUME ~lostWrite', ~cutLoad' PROVE Restarted'
  BY <1>1, <1>2, <1>3 DEF Restarted, Busy, AsTold, Kept
<1> QED  BY <1>1, <1>3 DEF Answers

\* A request changes memory at its trigger, to what is asked for, and is in flight.
LEMMA RequestAnswers ==
  ASSUME TypeOK, Answers,
         NEW t \in Trigger, Create(t) \/ Pause(t) \/ Resume(t) \/ Remove(t)
  PROVE  Answers'
<1> USE DEF memoryVars, loadVars, timeVars, historyVars
<1>1. /\ boot = "up" /\ api.at = "idle" /\ boot' = "up"
      /\ UNCHANGED <<file, completed, wanted, lostWrite, cutLoad>>
      /\ api'.at = "serialize" /\ api'.of = t
      /\ api'.op \in {"create", "pause", "resume", "delete"}
  BY DEF Create, Pause, Resume, Remove, Accepts, Request, Quiet
<1>2. AsAsked(t, api'.op, Shown(t)')
  BY DEF Create, Pause, Resume, Remove, Register, Request, Quiet, AsAsked, Shown, TypeOK
<1>3. \A u \in Trigger \ {t} : Shown(u)' = Shown(u)
  BY DEF Create, Pause, Resume, Remove, Register, Shown, TypeOK
<1>4. ASSUME ~lostWrite', ~cutLoad' PROVE Serving'
  <2>1. Serving
    BY <1>1, <1>4 DEF Answers
  <2>2. AsAsked(t, api.op, Shown(t))'
    BY <1>1, <1>2 DEF AsAsked
  <2>3. ASSUME NEW u \in Trigger \ {t} PROVE AsTold(u, Shown(u))'
    BY <1>1, <1>3, <2>1 DEF Serving, Busy, AsTold, Kept
  <2>4. ASSUME NEW u \in Trigger PROVE AsTold(u, file[u])'
    BY <1>1, <2>1 DEF Serving, AsTold, Kept
  <2> QED  BY <1>1, <2>2, <2>3, <2>4 DEF Serving, Busy
<1> QED  BY <1>1, <1>4 DEF Answers

\* The text is taken from memory.
LEMMA SerializeAnswers ==
  ASSUME TypeOK, Answers, Serialize
  PROVE  Answers'
<1> USE DEF memoryVars, loadVars, timeVars, historyVars
<1>1. /\ api.at = "serialize" /\ api'.at = "replace" /\ api'.of = api.of /\ api'.op = api.op
      /\ \A t \in Trigger : api'.image[t] = Shown(t)
      /\ UNCHANGED <<known, state, file, boot, saved, todo, completed, wanted, lostWrite, cutLoad>>
  BY DEF Serialize, TypeOK, Shown
<1>2. ASSUME NEW t, NEW v PROVE AsTold(t, v)' <=> AsTold(t, v)
  BY <1>1 DEF AsTold, Kept
<1>3. ASSUME NEW t, NEW op, NEW v PROVE AsAsked(t, op, v)' <=> AsAsked(t, op, v)
  BY <1>1 DEF AsAsked
<1>4. \A t : Shown(t)' = Shown(t)
  BY <1>1 DEF Shown
<1>5. Serving => Serving'
  BY <1>1, <1>2, <1>3, <1>4 DEF Serving, Busy
<1>6. ~ Restarted
  BY <1>1 DEF Restarted, Busy
<1>7. Restoring => Restoring'
  BY <1>1, <1>2, <1>3, <1>4 DEF Restoring, Busy, TypeOK
<1> QED  BY <1>1, <1>5, <1>6, <1>7 DEF Answers

\* The answer to a request of the owner is what memory and the file now say; a restore
\* that is written goes on, or is done with its trigger.
LEMMA ReplaceServing ==
  ASSUME TypeOK, Serving, Replace, ~lostWrite'
  PROVE  Serving'
<1>1. /\ api.at = "replace" /\ api'.at = "idle" /\ file' = api.image
      /\ api.of \in Trigger /\ api.op \in {"create", "pause", "resume", "delete"}
      /\ wanted' = [wanted EXCEPT ![api.of] = Answer(api.op)]
      /\ UNCHANGED <<known, state, completed>>
  BY DEF Replace, Serving, Busy, Quiet, memoryVars
<1>2. ASSUME NEW t, t = api.of, NEW v, AsAsked(t, api.op, v) PROVE AsTold(t, v)'
  <2>1. wanted'[t] = Answer(api.op)
    BY <1>1, <1>2 DEF TypeOK
  <2> QED  BY <1>1, <1>2, <2>1 DEF AsAsked, AsTold, Kept, Answer
<1>3. ASSUME NEW t \in Trigger, t # api.of, NEW v, AsTold(t, v) PROVE AsTold(t, v)'
  BY <1>1, <1>3 DEF AsTold, Kept, TypeOK
<1>4. \A t : Shown(t)' = Shown(t)
  BY <1>1 DEF Shown
<1>5. ASSUME NEW t \in Trigger PROVE AsTold(t, file[t])' /\ AsTold(t, Shown(t))'
  <2>1. CASE t = api.of
    <3>1. AsAsked(t, api.op, Shown(t)) /\ AsAsked(t, api.op, api.image[t])
      BY <1>1, <2>1 DEF Serving, Busy
    <3> QED  BY <1>1, <1>2, <1>4, <2>1, <3>1
  <2>2. CASE t # api.of
    BY <1>1, <1>3, <1>4, <2>2 DEF Serving, Busy
  <2> QED  BY <2>1, <2>2
<1> QED  BY <1>1, <1>5 DEF Serving, Busy

\* What is asked of a trigger saved with that state is what its owner was told.
LEMMA SavedIsTold ==
  ASSUME NEW t \in Trigger, AsTold(t, saved[t]), saved[t] # "absent"
  PROVE  /\ Kept(t)
         /\ \A v : saved[t] = "paused" /\ AsAsked(t, "repause", v) => AsTold(t, v)
         /\ \A v : saved[t] # "paused" /\ AsAsked(t, "restore", v) => AsTold(t, v)
         /\ \A v : t \in completed => AsTold(t, v)
  BY DEF AsTold, Kept, AsAsked

LEMMA ReplaceRestoring ==
  ASSUME TypeOK, Restoring, Replace, ~lostWrite'
  PROVE  Restoring'
<1>1. /\ api.at = "replace" /\ file' = api.image
      /\ api.of \in todo /\ api.of \in Trigger
      /\ UNCHANGED <<known, state, saved, completed>>
  BY DEF Replace, Restoring, Busy, Quiet, memoryVars, TypeOK
<1>2. \A t : Shown(t)' = Shown(t)
  BY <1>1 DEF Shown
<1>3. CASE api.op = "restore"
  <2>1. api' = [api EXCEPT !.at = "repause"] /\ todo' = todo /\ wanted' = wanted
    BY <1>3 DEF Replace
  <2>2. /\ api'.at = "repause" /\ api'.op = "restore" /\ api'.of = api.of
    BY <1>3, <2>1 DEF TypeOK
  <2>3. ASSUME NEW t, NEW v PROVE AsTold(t, v)' <=> AsTold(t, v)
    BY <1>1, <2>1 DEF AsTold, Kept
  <2>4. ASSUME NEW t, NEW op, NEW v PROVE AsAsked(t, op, v)' <=> AsAsked(t, op, v)
    BY <1>1 DEF AsAsked
  <2> QED  BY <1>1, <1>2, <1>3, <2>1, <2>2, <2>3, <2>4 DEF Restoring, Busy
<1>4. CASE api.op = "repause"
  <2>1. api'.at = "idle" /\ todo' = todo \ {api.of} /\ wanted' = wanted
    BY <1>4 DEF Replace, Quiet
  <2>2. ASSUME NEW t, NEW v PROVE AsTold(t, v)' <=> AsTold(t, v)
    BY <1>1, <2>1 DEF AsTold, Kept
  <2>3. AsTold(api.of, Shown(api.of)) /\ AsTold(api.of, api.image[api.of])
    BY <1>1, <1>4, SavedIsTold DEF Restoring, Busy
  <2>4. ASSUME NEW t \in Trigger \ todo' PROVE AsTold(t, Shown(t))' /\ AsTold(t, file[t])'
    BY <1>1, <1>2, <2>1, <2>2, <2>3 DEF Restoring
  <2>5. ASSUME NEW t \in Trigger PROVE AsTold(t, saved[t])'
    BY <1>1, <2>2 DEF Restoring
  <2>6. \A t \in todo' : saved'[t] # "absent"
    BY <1>1, <2>1 DEF Restoring
  <2> QED  BY <2>1, <2>4, <2>5, <2>6 DEF Restoring, Busy
<1> QED  BY <1>1, <1>3, <1>4 DEF Restoring, Busy

LEMMA ReplaceAnswers ==
  ASSUME TypeOK, Answers, Replace
  PROVE  Answers'
<1>1. /\ ~lostWrite' => ~lostWrite
      /\ cutLoad' = cutLoad /\ boot' = boot /\ api.at = "replace"
  BY DEF Replace
<1>2. ~ Restarted
  BY <1>1 DEF Restarted, Busy
<1> QED  BY <1>1, <1>2, ReplaceServing, ReplaceRestoring DEF Answers

LEMMA LoadReadAnswers ==
  ASSUME TypeOK, Answers, LoadRead
  PROVE  Answers'
<1>1. /\ boot = "read" /\ boot' = "load" /\ saved' = file
      /\ todo' = {t \in Trigger : file[t] # "absent"}
      /\ UNCHANGED <<known, state, api, file, completed, wanted, lostWrite, cutLoad>>
  BY DEF LoadRead, memoryVars, historyVars
<1>2. ASSUME Restarted PROVE Restoring'
  <2>1. api'.at = "idle" /\ \A t : Shown(t)' = "absent"
    BY <1>1, <1>2 DEF Restarted, Shown, Busy
  <2>2. ASSUME NEW t \in Trigger PROVE AsTold(t, file[t])'
    BY <1>1, <1>2 DEF Restarted, AsTold, Kept
  <2> QED  BY <1>1, <2>1, <2>2 DEF Restoring, Busy
<1> QED  BY <1>1, <1>2 DEF Answers

LEMMA LoadOneAnswers ==
  ASSUME TypeOK, Answers, NEW t \in Trigger, LoadOne(t)
  PROVE  Answers'
<1>1. /\ boot = "load" /\ boot' = boot /\ api.at = "idle" /\ t \in todo
      /\ UNCHANGED <<saved, file, completed, wanted, lostWrite, cutLoad>>
  BY DEF LoadOne, historyVars
<1>2. ASSUME NEW u, NEW v PROVE AsTold(u, v)' <=> AsTold(u, v)
  BY <1>1 DEF AsTold, Kept
<1>3. ASSUME Restoring PROVE Restoring'
  <2>1. CASE t \in Once /\ saved[t] = "fired"
    <3>1. todo' = todo \ {t} /\ UNCHANGED <<known, state, api>>
      BY <2>1 DEF LoadOne
    <3>2. Kept(t) /\ t \in completed
      BY <1>1, <1>3, <2>1 DEF Restoring, AsTold, Kept
    <3>3. \A v : AsTold(t, v)
      BY <3>2 DEF AsTold
    <3>4. \A u : Shown(u)' = Shown(u)
      BY <3>1 DEF Shown
    <3> QED  BY <1>1, <1>2, <1>3, <3>1, <3>3, <3>4 DEF Restoring, Busy
  <2>2. CASE ~ (t \in Once /\ saved[t] = "fired")
    <3>1. /\ todo' = todo /\ api'.at = "serialize" /\ api'.op = "restore" /\ api'.of = t
          /\ known' = known \cup {t} /\ state' = [state EXCEPT ![t] = "active"]
      BY <2>2 DEF LoadOne, Register, Request, Quiet
    <3>2. Shown(t)' = "active" /\ \A u \in Trigger \ {t} : Shown(u)' = Shown(u)
      BY <3>1 DEF Shown, TypeOK
    <3>3. AsAsked(t, "restore", Shown(t))'
      BY <3>2 DEF AsAsked
    <3>4. ASSUME NEW u \in Trigger \ todo PROVE AsTold(u, Shown(u))' /\ AsTold(u, file[u])'
      BY <1>1, <1>2, <1>3, <3>2 DEF Restoring
    <3> QED  BY <1>1, <1>2, <1>3, <3>1, <3>3, <3>4 DEF Restoring, Busy
  <2> QED  BY <2>1, <2>2
<1> QED  BY <1>1, <1>3 DEF Answers

LEMMA RepauseAnswers ==
  ASSUME TypeOK, Answers, Repause
  PROVE  Answers'
<1>1. /\ api.at = "repause" /\ boot' = boot
      /\ UNCHANGED <<known, saved, file, completed, wanted, lostWrite, cutLoad>>
  BY DEF Repause, historyVars
<1>2. ASSUME NEW u, NEW v PROVE AsTold(u, v)' <=> AsTold(u, v)
  BY <1>1 DEF AsTold, Kept
<1>3. ~ Serving /\ ~ Restarted
  BY <1>1 DEF Serving, Restarted, Busy
<1>4. ASSUME Restoring PROVE Restoring'
  <2>1. /\ api.of \in todo /\ api.of \in Trigger /\ api.op = "restore"
        /\ AsAsked(api.of, "restore", Shown(api.of)) /\ AsAsked(api.of, "restore", file[api.of])
        /\ AsTold(api.of, saved[api.of]) /\ saved[api.of] # "absent"
    BY <1>1, <1>4 DEF Restoring, Busy, TypeOK
  <2>2. CASE saved[api.of] = "paused" /\ state[api.of] = "active"
    <3>1. /\ todo' = todo /\ state' = [state EXCEPT ![api.of] = "paused"]
          /\ api'.at = "serialize" /\ api'.op = "repause" /\ api'.of = api.of
      BY <2>2 DEF Repause, Request, Quiet
    <3>2. \A u \in Trigger \ {api.of} : Shown(u)' = Shown(u)
      BY <1>1, <3>1 DEF Shown, TypeOK
    <3>3. AsAsked(api.of, "repause", Shown(api.of))'
      BY <1>1, <2>1, <2>2, <3>1 DEF AsAsked, Shown, TypeOK
    <3>4. ASSUME NEW u \in Trigger \ todo PROVE AsTold(u, Shown(u))' /\ AsTold(u, file[u])'
      BY <1>1, <1>2, <1>4, <2>1, <3>2 DEF Restoring
    <3> QED  BY <1>1, <1>2, <1>4, <2>1, <2>2, <3>1, <3>3, <3>4 DEF Restoring, Busy
  <2>3. CASE ~ (saved[api.of] = "paused" /\ state[api.of] = "active")
    <3>1. todo' = todo \ {api.of} /\ state' = state /\ api'.at = "idle"
      BY <2>3 DEF Repause, Quiet
    <3>2. \A u : Shown(u)' = Shown(u)
      BY <1>1, <3>1 DEF Shown
    <3>3. AsTold(api.of, Shown(api.of)) /\ AsTold(api.of, file[api.of])
      BY <2>1, <2>3, SavedIsTold DEF AsAsked, Shown
    <3>4. ASSUME NEW u \in Trigger \ todo' PROVE AsTold(u, Shown(u))' /\ AsTold(u, file[u])'
      BY <1>1, <1>2, <1>4, <3>1, <3>2, <3>3 DEF Restoring
    <3> QED  BY <1>1, <1>2, <1>4, <3>1, <3>4 DEF Restoring, Busy
  <2> QED  BY <2>2, <2>3
<1> QED  BY <1>1, <1>3, <1>4 DEF Answers

LEMMA LoadDoneAnswers ==
  ASSUME TypeOK, Answers, LoadDone
  PROVE  Answers'
<1>1. /\ boot = "load" /\ boot' = "up" /\ api.at = "idle" /\ todo = {}
      /\ UNCHANGED <<known, state, api, file, completed, wanted, lostWrite, cutLoad>>
  BY DEF LoadDone, memoryVars, historyVars
<1>2. ASSUME Restoring, NEW t \in Trigger PROVE AsTold(t, Shown(t))' /\ AsTold(t, file[t])'
  BY <1>1, <1>2 DEF Restoring, AsTold, Kept, Shown
<1>3. Restoring => Serving'
  BY <1>1, <1>2 DEF Serving, Busy
<1> QED  BY <1>1, <1>3 DEF Answers

LEMMA StillAnswers ==
  ASSUME Answers, UNCHANGED vars
  PROVE  Answers'
<1>1. /\ UNCHANGED <<known, state, api, file, boot, saved, todo>>
      /\ UNCHANGED <<completed, wanted, lostWrite, cutLoad>>
  BY DEF vars, memoryVars, loadVars, historyVars
<1> QED
  BY <1>1 DEF Answers, Serving, Restarted, Restoring, AsTold, AsAsked, Kept, Shown, Busy

LEMMA NextAnswers ==
  ASSUME TypeOK, Ended, Answers, [Next]_vars
  PROVE  Answers'
  BY TickAnswers, CrashAnswers, RequestAnswers, SerializeAnswers, ReplaceAnswers,
     LoadReadAnswers, LoadOneAnswers, RepauseAnswers, LoadDoneAnswers, StillAnswers
     DEF Next, Loop

\* Every variable of the scheduler keeps its type.
THEOREM TypeCorrect == Spec => []TypeOK
  BY InitType, NextType, PTL DEF Spec

\* Whenever the scheduler is up with no request in flight, memory shows each trigger as its
\* owner was last told, whatever ticks, requests and restarts came between (add, pause,
\* resume, remove, _persist and load_persisted in trigger_scheduler.py).
THEOREM AnswersSurviveRestarts == Spec => []AnswersKept
<1>1. Init => IInv
  BY InitType, InitRan, InitAnswers DEF IInv
<1>2. IInv /\ [Next]_vars => IInv'
  BY NextType, NextRan, NextEnded, NextAnswers DEF IInv
<1>3. IInv => AnswersKept
  BY DEF IInv, Answers, Serving, AsTold, Kept, Shown, Busy, AnswersKept, TypeOK, State
<1> QED  BY <1>1, <1>2, <1>3, PTL DEF Spec

=============================================================================
