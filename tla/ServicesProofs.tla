--------------------------- MODULE ServicesProofs ---------------------------
(***************************************************************************)
(* Proofs about services of the runtime, for any values of the constants:   *)
(* the push confirmation, the training queue, the circuit breaker, the      *)
(* pairing relay and the guard of the training runs.  They are stated of    *)
(* FairSpec, in which every service runs beside the others; OneSteps is     *)
(* what makes a proof about one service a proof about the whole.            *)
(***************************************************************************)
EXTENDS Services, TLAPS

-----------------------------------------------------------------------------
(* A step of the whole is a step of a service or leaves it alone.            *)

LEMMA OneSteps ==
  ASSUME [Next]_vars
  PROVE  /\ [Push!Next]_publishVars
         /\ [Jobs!Next]_mediaVars
         /\ [Breaker!Next]_breakerVars
         /\ [Pairing!Next]_pairingVars
         /\ [Coord!Next]_coordinationVars
         /\ [Train!Next]_trainingVars
         /\ [Edits!Next]_editsVars
         /\ [Snapshots!Next]_snapshotsVars
         /\ [Pending!Next]_pendingVars
         /\ [Entities!Next]_entitiesVars
         /\ [Brain!Next]_brainVars
         /\ [Clarify!Next]_clarifyVars
<1> USE DEF Next, vars, runtimeVars, satelliteVars, Only, PublishOnly, MediaOnly, BreakerOnly,
            DaemonOnly, PairingOnly, WorkflowOnly, CoordinationOnly, TrainingOnly, EditsOnly,
            SnapshotsOnly, PendingOnly, EntitiesOnly, BrainOnly, ClarifyOnly, MaintenanceOnly
<1>1. [Push!Next]_publishVars
  OBVIOUS
<1>2. [Jobs!Next]_mediaVars
  OBVIOUS
<1>3. [Breaker!Next]_breakerVars
  OBVIOUS
<1>4. [Pairing!Next]_pairingVars
  OBVIOUS
<1>5. [Coord!Next]_coordinationVars
  OBVIOUS
<1>6. [Train!Next]_trainingVars
  OBVIOUS
<1>7. [Edits!Next]_editsVars
  OBVIOUS
<1>8. [Snapshots!Next]_snapshotsVars
  OBVIOUS
<1>9. [Pending!Next]_pendingVars
  OBVIOUS
<1>10. [Entities!Next]_entitiesVars
  OBVIOUS
<1>11. [Brain!Next]_brainVars
  OBVIOUS
<1>12. [Clarify!Next]_clarifyVars
  OBVIOUS
<1> QED
  BY <1>1, <1>2, <1>3, <1>4, <1>5, <1>6, <1>7, <1>8, <1>9, <1>10, <1>11, <1>12

-----------------------------------------------------------------------------
(* Publish.  A confirmation takes the token before it pushes, no preview can *)
(* issue another one meanwhile, and a success is the latest row until a row  *)
(* is lost or that of a refused confirmation is written.                     *)

PushTypes ==
    /\ confirming \in [at : {"idle", "push", "pr", "record"}, branch : Branch \cup {"none"}, token : Nat]
    /\ token \in Nat /\ issued \in Nat /\ sealed \in Nat

\* Tokens are numbered as they are issued.
Numbered == token <= issued /\ confirming.token <= issued /\ sealed <= issued

\* What may hide a success from a preview.
Hidden == lost \/ late

Sealed ==
    sealed > 0 =>
        /\ token # 0 => token > sealed
        /\ confirming.at # "idle" => confirming.token > sealed
        /\ issued > sealed => Hidden

PushInv ==
    /\ PushTypes /\ Numbered
    /\ confirming.at # "idle" => token = 0
    /\ sealed > 0 => stage = "push_succeeded" \/ Hidden
    /\ Sealed

LEMMA PushInit == Push!Init => PushInv
<1> SUFFICES ASSUME Push!Init
             PROVE  PushInv
  OBVIOUS
<1>1. confirming = [at |-> "idle", branch |-> "none", token |-> 0]
  BY DEF Push!Init, Push!NoConfirm
<1>2. token = 0 /\ issued = 0 /\ sealed = 0
  BY DEF Push!Init
<1> QED
  BY <1>1, <1>2 DEF PushInv, PushTypes, Numbered, Sealed

\* A row is written, or that it was not is known.
LEMMA RecordedHides ==
  ASSUME NEW s, Push!Recorded(s)
  PROVE  /\ lost => lost'
         /\ stage' = s \/ (stage' = stage /\ lost')
  BY DEF Push!Recorded

\* The inductive step: one case per handler of the push.
LEMMA PushStep == PushInv /\ [Push!Next]_publishVars => PushInv'
<1> SUFFICES ASSUME PushInv, [Push!Next]_publishVars
             PROVE  PushInv'
  OBVIOUS
<1> USE DEF PushInv, PushTypes, Numbered, Sealed
<1>1. ASSUME UNCHANGED <<token, issued, stage, confirming, sealed, lost, late>>
      PROVE  PushInv'
  BY <1>1 DEF Hidden
<1>2. CASE Push!Preview
  <2>1. /\ confirming.at = "idle" /\ issued' = issued + 1 /\ token' = issued + 1
        /\ UNCHANGED <<confirming, sealed>>
    BY <1>2 DEF Push!Preview, Push!Idle
  <2>2. (Hidden => Hidden') /\ (stage # "push_succeeded" \/ Hidden')
    BY <1>2, RecordedHides, Zenon DEF Push!Preview, Hidden
  <2> QED
    BY <2>1, <2>2
<1>3. CASE Push!TokenExpires
  <2>1. token' = 0 /\ UNCHANGED <<issued, stage, confirming, sealed>> /\ (Hidden => Hidden')
    BY <1>3 DEF Push!TokenExpires, Push!historyVars, Hidden
  <2> QED
    BY <2>1
<1>4. ASSUME NEW t \in 1..issued, Push!ConfirmRefused(t)
      PROVE  PushInv'
  <2>1. UNCHANGED <<token, issued, confirming, sealed>>
    BY <1>4 DEF Push!ConfirmRefused
  <2>2. (Hidden => Hidden') /\ (sealed > 0 => Hidden')
    BY <1>4, RecordedHides, Zenon DEF Push!ConfirmRefused, Push!Published, Hidden
  <2> QED
    BY <2>1, <2>2
<1>5. ASSUME NEW t \in 1..issued, NEW b \in Branch, Push!ConfirmTake(t, b)
      PROVE  PushInv'
  <2>1. /\ t = token /\ t # 0 /\ token' = 0
        /\ confirming' = [at |-> "push", branch |-> b, token |-> t]
        /\ UNCHANGED <<issued, sealed>>
    BY <1>5 DEF Push!ConfirmTake, Push!Consumed
  <2>2. Hidden => Hidden'
    BY <1>5, RecordedHides, Zenon DEF Push!ConfirmTake, Hidden
  <2>3. sealed > 0 => Hidden
    BY <2>1
  <2> QED
    BY <2>1, <2>2, <2>3
<1>6. CASE Push!GitPush \/ Push!OpenPr
  <2>1. /\ confirming.at \in {"push", "pr"} /\ UNCHANGED <<token, issued, stage, sealed>>
        /\ \E at \in {"pr", "record"} : confirming' = [confirming EXCEPT !.at = at]
        /\ Hidden => Hidden'
    BY <1>6 DEF Push!GitPush, Push!OpenPr, Push!historyVars, Hidden
  <2> QED
    BY <2>1
<1>7. CASE Push!PushFails
  <2>1. /\ confirming.at # "idle" /\ UNCHANGED <<token, issued, sealed>>
        /\ confirming' = [at |-> "idle", branch |-> "none", token |-> 0]
    BY <1>7 DEF Push!PushFails, Push!NoConfirm
  <2>2. Hidden => Hidden'
    BY <1>7, RecordedHides, Zenon DEF Push!PushFails, Hidden
  <2>3. sealed > 0 => Hidden
    BY <2>1
  <2> QED
    BY <2>1, <2>2, <2>3
<1>8. CASE Push!RecordSuccess
  <2>1. /\ confirming.at # "idle" /\ UNCHANGED <<token, issued>>
        /\ confirming' = [at |-> "idle", branch |-> "none", token |-> 0]
        /\ sealed' = IF stage' = "push_succeeded" THEN issued ELSE sealed
    BY <1>8 DEF Push!RecordSuccess, Push!NoConfirm
  <2>2. (Hidden => Hidden') /\ (stage' = "push_succeeded" \/ Hidden')
    BY <1>8, RecordedHides, Zenon DEF Push!RecordSuccess, Hidden
  <2> QED
    BY <2>1, <2>2
<1>9. CASE Push!Crash
  <2>1. /\ confirming' = [at |-> "idle", branch |-> "none", token |-> 0]
        /\ UNCHANGED <<token, issued, stage, sealed>> /\ (Hidden => Hidden')
    BY <1>9 DEF Push!Crash, Push!NoConfirm, Push!historyVars, Hidden
  <2> QED
    BY <2>1
<1>10. ASSUME NEW a \in {"approved", "denied"}, Push!SetApproval(a)
       PROVE  PushInv'
  BY <1>1, <1>10 DEF Push!SetApproval, Push!historyVars
<1>11. ASSUME NEW b \in Branch, Push!ClosePr(b)
       PROVE  PushInv'
  BY <1>1, <1>11 DEF Push!ClosePr, Push!historyVars
<1>12. CASE UNCHANGED publishVars
  BY <1>1, <1>12 DEF publishVars
<1> QED
  BY <1>2, <1>3, <1>4, <1>5, <1>6, <1>7, <1>8, <1>9, <1>10, <1>11, <1>12 DEF Push!Next

\* Once a success is on record, a token and a push in progress are of a later preview, and a later
\* preview issued a token only because a row was lost or a refused confirmation hid the success: for
\* any number of previews, confirmations, restarts and branches.
THEOREM NoSecondPush == FairSpec => []NothingAfterSuccess
<1>1. Init => PushInv
  BY PushInit DEF Init
<1>2. PushInv /\ [Next]_vars => PushInv'
  BY PushStep, OneSteps
<1>3. PushInv => NothingAfterSuccess
  BY DEF PushInv, Sealed, Hidden, NothingAfterSuccess, Push!NothingAfterSuccess, Push!Published,
         Push!Idle
<1> QED
  BY <1>1, <1>2, <1>3, PTL DEF FairSpec

-----------------------------------------------------------------------------
(* MediaJobs.  A run is in one place: waiting to be pushed, in the list once, *)
(* or in the hands of the worker.  Until the worker has it nobody writes its *)
(* record; but the record may expire.                                        *)

Working == worker \in {"get", "lock", "dataset", "train", "error"}
Queues(r) == \E i \in 1..Len(queue) : queue[i] = r
Waits(r) == status[r] \in {"queued", "expired"}

JobsTypes ==
    /\ queue \in Seq(Run)
    /\ pushing \in Run \cup {NoRun}
    /\ DOMAIN status = Run

JobsInv ==
    /\ JobsTypes
    /\ \A i \in 1..Len(queue) : Waits(queue[i])
    /\ \A i, j \in 1..Len(queue) : queue[i] = queue[j] => i = j
    /\ pushing # NoRun => Waits(pushing) /\ ~Queues(pushing)
    /\ Working => job \in Run /\ status[job] # "none" /\ job # pushing /\ ~Queues(job)

LEMMA JobsInit == Jobs!Init => JobsInv
  BY DEF Jobs!Init, JobsInv, JobsTypes, Working

\* A step that adds no run to the list, and leaves the records alone but for those that expire and
\* that of the run the worker has.
KeepsJobs ==
    /\ queue' = queue
    /\ pushing' \in {pushing, NoRun}
    /\ Working' => Working /\ job' = job
    /\ DOMAIN status' = Run
    /\ \A r \in Run :
        \/ status'[r] = status[r]
        \/ status[r] # "none" /\ status'[r] = "expired"
        \/ Working /\ r = job /\ status'[r] # "none"

LEMMA KeepsJobsStep == JobsInv /\ KeepsJobs => JobsInv'
<1> SUFFICES ASSUME JobsInv, KeepsJobs
             PROVE  JobsInv'
  OBVIOUS
<1> USE DEF JobsInv, JobsTypes, KeepsJobs, Waits, Queues
<1>1. JobsTypes'
  OBVIOUS
<1>2. \A r \in Run : Waits(r) /\ (Working => r # job) => Waits(r)'
  OBVIOUS
<1>3. ASSUME NEW i \in 1..Len(queue)
      PROVE  Waits(queue[i])'
  BY <1>2, <1>3
<1>4. pushing' # NoRun => Waits(pushing)' /\ ~Queues(pushing)'
  BY <1>2
<1>5. Working' => job' \in Run /\ status'[job'] # "none" /\ job' # pushing' /\ ~Queues(job)'
  BY NoneAssumption
<1> QED
  BY <1>1, <1>3, <1>4, <1>5

\* The worker takes the head of the list.
LEMMA TakesHead ==
  ASSUME JobsInv, queue # <<>>, job' = Head(queue), queue' = Tail(queue), UNCHANGED <<status, pushing>>
  PROVE  JobsInv'
<1> USE DEF JobsInv, JobsTypes, Waits, Queues
<1>1. /\ queue' \in Seq(Run) /\ Len(queue') = Len(queue) - 1
      /\ \A i \in 1..Len(queue') : queue'[i] = queue[i + 1]
      /\ 1 \in 1..Len(queue) /\ job' = queue[1]
  OBVIOUS
<1>2. /\ \A i \in 1..Len(queue') : Waits(queue[i + 1]) /\ queue[i + 1] # job'
      /\ \A i, j \in 1..Len(queue') : queue[i + 1] = queue[j + 1] => i = j
  BY <1>1
<1>3. job' \in Run /\ status[job'] # "none" /\ job' # pushing
  BY <1>1, NoneAssumption
<1> QED
  BY <1>1, <1>2, <1>3

\* The worker, the failures and the TTL.
LEMMA WorkKeepsJobs ==
  ASSUME JobsInv, \/ Jobs!ApiRestart \/ Jobs!WorkerStep \/ Jobs!WorkerDies \/ Jobs!RedisStops
                  \/ Jobs!RedisStarts \/ \E r \in Run : Jobs!RecordExpires(r)
  PROVE  JobsInv'
<1> USE DEF JobsInv, JobsTypes, Working, KeepsJobs, Jobs!Goes, Jobs!Update, Jobs!WorkStep,
            Jobs!apiVars, Jobs!workerVars, Jobs!Absent
<1>1. CASE Jobs!Pop
  <2>1. UNCHANGED <<status, pushing>>
    BY <1>1 DEF Jobs!Pop
  <2>2. CASE queue # <<>> /\ job' = Head(queue) /\ queue' = Tail(queue)
    BY <2>1, <2>2, TakesHead
  <2>3. CASE queue' = queue /\ worker' \in {"pop", "down"}
    BY <2>1, <2>3, KeepsJobsStep
  <2> QED
    BY <1>1, <2>2, <2>3 DEF Jobs!Pop
<1>2. CASE Jobs!Get
  BY <1>2, KeepsJobsStep DEF Jobs!Get
<1>3. CASE Jobs!Prepare \/ Jobs!Dataset \/ Jobs!Train
  BY <1>3, KeepsJobsStep DEF Jobs!Prepare, Jobs!Dataset, Jobs!Train
<1>4. CASE Jobs!Report
  BY <1>4, KeepsJobsStep DEF Jobs!Report
<1>5. CASE Jobs!WorkerStarts \/ Jobs!WorkerDies
  BY <1>5, KeepsJobsStep DEF Jobs!WorkerStarts, Jobs!WorkerDies
<1>6. CASE Jobs!ApiRestart \/ Jobs!RedisStops \/ Jobs!RedisStarts
  BY <1>6, KeepsJobsStep DEF Jobs!ApiRestart, Jobs!RedisStops, Jobs!RedisStarts
<1>7. CASE \E r \in Run : Jobs!RecordExpires(r)
  BY <1>7, KeepsJobsStep DEF Jobs!RecordExpires
<1> QED
  BY <1>1, <1>2, <1>3, <1>4, <1>5, <1>6, <1>7 DEF Jobs!WorkerStep

LEMMA JobsStep == JobsInv /\ [Jobs!Next]_mediaVars => JobsInv'
<1> SUFFICES ASSUME JobsInv, [Jobs!Next]_mediaVars
             PROVE  JobsInv'
  OBVIOUS
<1> USE DEF JobsInv, JobsTypes, Working, Waits, Queues
<1>1. ASSUME NEW r \in Run, Jobs!Store(r)
      PROVE  JobsInv'
  <2>1. /\ status[r] = "none" /\ pushing = NoRun /\ UNCHANGED <<queue, worker, job>>
        /\ \/ pushing' = r /\ status' = [status EXCEPT ![r] = "queued"]
           \/ UNCHANGED <<pushing, status>>
    BY <1>1 DEF Jobs!Store, Jobs!Unknown, Jobs!workerVars
  <2>2. ~Queues(r) /\ (Working => job # r)
    BY <2>1
  <2>3. CASE pushing' = r /\ status' = [status EXCEPT ![r] = "queued"]
    <3>1. \A q \in Run : q # r => status'[q] = status[q]
      BY <2>3
    <3>2. \A i \in 1..Len(queue) : queue[i] \in Run /\ queue[i] # r
      BY <2>2
    <3> QED
      BY <2>1, <2>2, <2>3, <3>1, <3>2, NoneAssumption
  <2>4. CASE UNCHANGED <<pushing, status>>
    BY <2>1, <2>4
  <2> QED
    BY <2>1, <2>3, <2>4
<1>2. CASE Jobs!Push
  <2>1. /\ pushing \in Run /\ pushing' = NoRun /\ UNCHANGED <<status, worker, job>>
        /\ queue' = queue \/ queue' = Append(queue, pushing)
    BY <1>2 DEF Jobs!Push, Jobs!workerVars
  <2>2. CASE queue' = queue
    BY <2>1, <2>2, NoneAssumption
  <2>3. CASE queue' = Append(queue, pushing)
    <3>1. /\ queue' \in Seq(Run) /\ Len(queue') = Len(queue) + 1 /\ queue'[Len(queue) + 1] = pushing
          /\ \A i \in 1..Len(queue) : queue'[i] = queue[i]
      BY <2>1, <2>3
    <3>2. \A i \in 1..Len(queue') : i = Len(queue) + 1 \/ i \in 1..Len(queue)
      BY <3>1
    <3>3. Waits(pushing) /\ ~Queues(pushing)
      BY <2>1, NoneAssumption
    <3>4. \A i, j \in 1..Len(queue') : queue'[i] = queue'[j] => i = j
      BY <3>1, <3>2, <3>3
    <3>5. Working => \A i \in 1..Len(queue') : queue'[i] # job
      BY <3>1, <3>2
    <3> QED
      BY <2>1, <3>1, <3>2, <3>3, <3>4, <3>5, NoneAssumption
  <2> QED
    BY <2>1, <2>2, <2>3
<1>3. CASE \/ Jobs!ApiRestart \/ Jobs!WorkerStep \/ Jobs!WorkerDies \/ Jobs!RedisStops
           \/ Jobs!RedisStarts \/ \E r \in Run : Jobs!RecordExpires(r)
  BY <1>3, WorkKeepsJobs
<1>4. CASE UNCHANGED mediaVars
  BY <1>4 DEF mediaVars
<1> QED
  BY <1>1, <1>2, <1>3, <1>4 DEF Jobs!Next

\* What is in the training queue has a record that says "queued" until that record expires, for any
\* number of runs, outages, restarts of the API process and deaths of the worker.
THEOREM QueueNamesRecords == FairSpec => []QueuedIsStored
<1>1. Init => JobsInv
  BY JobsInit DEF Init
<1>2. JobsInv /\ [Next]_vars => JobsInv'
  BY JobsStep, OneSteps
<1>3. JobsInv => QueuedIsStored
  BY DEF JobsInv, JobsTypes, Waits, QueuedIsStored, Jobs!QueuedIsStored, Jobs!ToSet
<1> QED
  BY <1>1, <1>2, <1>3, PTL DEF FairSpec

-----------------------------------------------------------------------------
(* CircuitBreaker.  While the window of the first failure is open, the last   *)
(* failures counted are the end of the streak and younger than the first.    *)

BreakerTypes ==
    /\ circuitFailures \in Nat /\ sinceFirst \in Nat
    /\ streak \in Seq(Nat) /\ Len(streak) <= Threshold

Counted == circuitFailures <= Len(streak) \/ Len(streak) = Threshold

Young == \A i \in 1..Len(streak) : Len(streak) - circuitFailures < i => streak[i] <= sinceFirst

BreakerInv == BreakerTypes /\ (sinceFirst <= Window => Counted /\ Young)

LEMMA BreakerInit == Breaker!Init => BreakerInv
  BY ThresholdAssumption, WindowAssumption DEF Breaker!Init, BreakerInv, BreakerTypes, Counted, Young

\* A failure is added to the streak, which forgets its oldest one when it is full.
LEMMA FailedIs ==
  ASSUME BreakerInv
  PROVE  /\ Breaker!Failed \in Seq(Nat)
         /\ Len(Breaker!Failed) = IF Len(streak) < Threshold THEN Len(streak) + 1 ELSE Threshold
         /\ Breaker!Failed[Len(Breaker!Failed)] = 0
         /\ \A i \in 1..(Len(Breaker!Failed) - 1) :
               Breaker!Failed[i] = IF Len(streak) < Threshold THEN streak[i] ELSE streak[i + 1]
<1> USE ThresholdAssumption DEF BreakerInv, BreakerTypes
<1> DEFINE longer == Append(streak, 0)
<1>1. /\ longer \in Seq(Nat) /\ Len(longer) = Len(streak) + 1 /\ longer[Len(streak) + 1] = 0
      /\ \A i \in 1..Len(streak) : longer[i] = streak[i]
  OBVIOUS
<1>2. CASE Len(streak) < Threshold
  BY <1>1, <1>2 DEF Breaker!Failed
<1>3. CASE Len(streak) = Threshold
  <2>1. Len(longer) = Threshold + 1 /\ Len(longer) - Threshold + 1 = 2
    BY <1>1, <1>3
  <2>2. Breaker!Failed = SubSeq(longer, Len(longer) - Threshold + 1, Len(longer))
    <3>1. ~(Len(streak) < Threshold)
      BY <1>3
    <3> QED
      BY <3>1, Zenon DEF Breaker!Failed, Breaker!LastOf
  <2>3. Breaker!Failed = SubSeq(longer, 2, Threshold + 1)
    BY <2>1, <2>2
  <2> HIDE DEF longer
  <2>4. /\ SubSeq(longer, 2, Threshold + 1) \in Seq(Nat)
        /\ Len(SubSeq(longer, 2, Threshold + 1)) = Threshold
        /\ \A i \in 1..Threshold : SubSeq(longer, 2, Threshold + 1)[i] = longer[i + 1]
    BY <1>1, <1>3
  <2> QED
    BY <1>1, <1>3, <2>3, <2>4
<1> QED
  BY <1>2, <1>3 DEF BreakerInv, BreakerTypes

\* The ages grow together.
LEMMA TickKeepsStreak == BreakerInv /\ Breaker!Tick => BreakerInv'
<1> SUFFICES ASSUME BreakerInv, Breaker!Tick
             PROVE  BreakerInv'
  OBVIOUS
<1> USE WindowAssumption DEF BreakerInv, BreakerTypes
<1>1. /\ streak' \in Seq(Nat) /\ Len(streak') = Len(streak)
      /\ \A i \in 1..Len(streak) : streak'[i] = Breaker!Capped(streak[i], Window + 1)
  <2>1. Len(streak) \in Nat /\ \A i \in 1..Len(streak) : streak[i] \in Nat
    OBVIOUS
  <2>2. streak' = [i \in 1..Len(streak) |->
                     IF streak[i] < Window + 1 THEN streak[i] + 1 ELSE Window + 1]
    BY DEF Breaker!Tick, Breaker!Capped
  <2>3. streak' \in [1..Len(streak) -> Nat]
    BY <2>1, <2>2
  <2>4. \A n \in Nat : \A f \in [1..n -> Nat] : f \in Seq(Nat) /\ Len(f) = n
    OBVIOUS
  <2>5. \A i \in 1..Len(streak) : streak'[i] = Breaker!Capped(streak[i], Window + 1)
    BY <2>2 DEF Breaker!Capped
  <2> QED
    BY <2>1, <2>3, <2>4, <2>5
<1> USE DEF Breaker!Tick, Breaker!Capped
<1>2. sinceFirst' \in Nat /\ (sinceFirst' <= Window => sinceFirst' = sinceFirst + 1 /\ sinceFirst <= Window)
  OBVIOUS
<1>3. circuitFailures' = circuitFailures
  OBVIOUS
<1>4. ASSUME NEW i \in 1..Len(streak'), Len(streak') - circuitFailures' < i, sinceFirst' <= Window
      PROVE  streak'[i] <= sinceFirst'
  <2>1. streak[i] <= sinceFirst /\ streak[i] \in Nat
    BY <1>1, <1>2, <1>3, <1>4 DEF Young
  <2> QED
    BY <1>1, <1>2, <1>4, <2>1
<1> QED
  BY <1>1, <1>2, <1>3, <1>4 DEF Counted, Young

\* A failure that is counted, or not counted on probation.
LEMMA FailureKeepsStreak ==
  ASSUME BreakerInv, NEW c \in Thread, Breaker!RecordFailure(c)
  PROVE  BreakerInv'
<1> USE ThresholdAssumption, WindowAssumption
<1>1. streak' = Breaker!Failed
  BY DEF Breaker!RecordFailure
<1>2. /\ streak' \in Seq(Nat)
      /\ Len(streak') = IF Len(streak) < Threshold THEN Len(streak) + 1 ELSE Threshold
      /\ streak'[Len(streak')] = 0
      /\ \A i \in 1..(Len(streak') - 1) :
            streak'[i] = IF Len(streak) < Threshold THEN streak[i] ELSE streak[i + 1]
  BY <1>1, FailedIs
<1>3. \/ UNCHANGED <<circuitFailures, sinceFirst>>
      \/ sinceFirst > Window /\ circuitFailures' = 1 /\ sinceFirst' = 0
      \/ sinceFirst <= Window /\ circuitFailures' = circuitFailures + 1 /\ UNCHANGED sinceFirst
  BY DEF Breaker!RecordFailure, BreakerInv, BreakerTypes
<1>4. BreakerTypes /\ Len(streak) \in Nat
  BY DEF BreakerInv, BreakerTypes
<1>5. BreakerTypes'
  BY <1>2, <1>3, <1>4 DEF BreakerTypes
<1>6. CASE sinceFirst > Window /\ circuitFailures' = 1 /\ sinceFirst' = 0
  <2>1. Counted'
    BY <1>2, <1>4, <1>6 DEF Counted
  <2>2. Young'
    BY <1>2, <1>4, <1>6 DEF Young
  <2> QED
    BY <1>5, <2>1, <2>2 DEF BreakerInv
<1>7. CASE sinceFirst' = sinceFirst /\ (circuitFailures' = circuitFailures \/ circuitFailures' = circuitFailures + 1)
  <2>1. ASSUME sinceFirst <= Window
        PROVE  Counted' /\ Young'
    <3>1. Counted /\ Young
      BY <2>1 DEF BreakerInv
    <3>2. Counted'
      BY <1>2, <1>4, <1>7, <3>1 DEF Counted, BreakerTypes
    <3>3. ASSUME NEW i \in 1..Len(streak'), Len(streak') - circuitFailures' < i
          PROVE  streak'[i] <= sinceFirst
      <4>1. CASE i = Len(streak')
        BY <1>2, <1>4, <4>1 DEF BreakerTypes
      <4>2. CASE i # Len(streak') /\ Len(streak) < Threshold
        <5>1. Len(streak') = Len(streak) + 1
          BY <1>2, <4>2
        <5>2. i \in 1..Len(streak) /\ streak'[i] = streak[i]
          BY <1>2, <1>4, <4>2, <5>1
        <5>3. Len(streak) - circuitFailures < i
          BY <1>4, <1>7, <3>3, <5>1 DEF BreakerTypes
        <5> QED
          BY <3>1, <5>2, <5>3 DEF Young
      <4>3. CASE i # Len(streak') /\ ~(Len(streak) < Threshold)
        <5>1. Len(streak) = Threshold
          BY <1>4, <4>3 DEF BreakerTypes
        <5>2. i + 1 \in 1..Len(streak) /\ streak'[i] = streak[i + 1]
          BY <1>2, <4>3, <5>1
        <5>3. Len(streak) - circuitFailures < i + 1
          BY <1>2, <1>4, <1>7, <3>3, <4>3, <5>1 DEF BreakerTypes
        <5> QED
          BY <3>1, <5>2, <5>3 DEF Young
      <4> QED
        BY <4>1, <4>2, <4>3
    <3> QED
      BY <1>7, <3>2, <3>3 DEF Young
  <2> QED
    BY <1>5, <1>7, <2>1 DEF BreakerInv
<1> QED
  BY <1>3, <1>6, <1>7

LEMMA BreakerStep == BreakerInv /\ [Breaker!Next]_breakerVars => BreakerInv'
<1> SUFFICES ASSUME BreakerInv, [Breaker!Next]_breakerVars
             PROVE  BreakerInv'
  OBVIOUS
<1>1. ASSUME NEW c \in Thread, Breaker!Allow(c)
      PROVE  BreakerInv'
  BY <1>1 DEF BreakerInv, BreakerTypes, Counted, Young, Breaker!Allow
<1>2. ASSUME NEW c \in Thread, Breaker!RecordSuccess(c)
      PROVE  BreakerInv'
  BY <1>2, ThresholdAssumption, WindowAssumption DEF BreakerInv, BreakerTypes, Counted, Young, Breaker!RecordSuccess
<1>3. CASE Breaker!Flaps
  BY <1>3 DEF BreakerInv, BreakerTypes, Counted, Young, Breaker!Flaps
<1>4. CASE UNCHANGED breakerVars
  BY <1>4 DEF BreakerInv, BreakerTypes, Counted, Young, breakerVars
<1> QED
  BY <1>1, <1>2, <1>3, <1>4, FailureKeepsStreak, TickKeepsStreak DEF Breaker!Next, Breaker!Ends

\* Only a failure opens a closed circuit, and it is the last of Threshold failures in a row.
LEMMA OpensOnStreak ==
  ASSUME BreakerInv, [Breaker!Next]_breakerVars, circuit = "closed", circuit' = "open"
  PROVE  Len(streak') = Threshold /\ streak'[1] <= Window
<1> USE ThresholdAssumption, WindowAssumption
<1>1. PICK c \in Thread : Breaker!RecordFailure(c)
  BY DEF Breaker!Next, Breaker!Ends, Breaker!Allow, Breaker!RecordSuccess, Breaker!Tick,
         Breaker!Flaps, breakerVars
<1>2. BreakerInv'
  BY BreakerStep
<1>3. circuitFailures' >= Threshold /\ sinceFirst' <= Window
  BY <1>1 DEF Breaker!RecordFailure, BreakerInv, BreakerTypes
<1>4. BreakerTypes' /\ Counted' /\ Young'
  BY <1>2, <1>3 DEF BreakerInv
<1>5. Len(streak') = Threshold
  BY <1>3, <1>4 DEF BreakerTypes, Counted
<1>6. 1 \in 1..Len(streak') /\ Len(streak') - circuitFailures' < 1
  <2>1. circuitFailures' \in Nat
    BY <1>4 DEF BreakerTypes
  <2>2. Len(streak') \in Nat /\ 1 <= Len(streak') /\ Len(streak') <= circuitFailures'
    BY <1>3, <1>5
  <2> QED
    BY <2>1, <2>2
<1>7. streak'[1] <= sinceFirst' /\ streak'[1] \in Nat
  BY <1>4, <1>6 DEF BreakerTypes, Young
<1> QED
  BY <1>3, <1>4, <1>5, <1>7 DEF BreakerTypes

\* The circuit opens only on Threshold failures in a row, all within the window: for any threshold,
\* any window and any number of threads whose calls end late.
THEOREM NoFalseAlarm == FairSpec => OpensOnlyOnStreak
<1>1. Init => BreakerInv
  BY BreakerInit DEF Init
<1>2. BreakerInv /\ [Next]_vars => BreakerInv'
  BY BreakerStep, OneSteps
<1>3. BreakerInv /\ [Next]_vars =>
          [circuit = "closed" /\ circuit' = "open" => Len(streak') = Threshold /\ streak'[1] <= Window]_breakerVars
  BY OpensOnStreak, OneSteps
<1> QED
  BY <1>1, <1>2, <1>3, PTL DEF FairSpec, OpensOnlyOnStreak, Breaker!OpensOnlyOnStreak, Breaker!vars, breakerVars

-----------------------------------------------------------------------------
(* PairingRelay.  A token is issued once, for one room: a guest is the guest  *)
(* of one room only, and nobody's host.                                      *)

RoomTypes ==
    /\ byCode \subseteq Room
    /\ byToken \in [Pairing!Token -> Room \cup {NoRoom}]
    /\ guest \in [Room -> Guest \cup {NoGuest}]
    /\ home \in [Pairing!Token -> Room \cup {NoRoom}]

IssuedOnce ==
    /\ \A r \in Room : home[r] \in {r, NoRoom}
    /\ \A r \in byCode : home[r] = r
    /\ \A r \in Room : guest[r] # NoGuest => home[guest[r]] = r /\ home[r] = r

PairingInv == RoomTypes /\ IssuedOnce /\ Pairing!TablesAgree

LEMMA PairingInit == Pairing!Init => PairingInv
  BY NoneAssumption, TokenAssumption
     DEF Pairing!Init, PairingInv, RoomTypes, IssuedOnce, Pairing!TablesAgree, Pairing!Token

\* The cleanup keeps the tables in agreement.
LEMMA CleanupKeeps ==
  ASSUME PairingInv
  PROVE  /\ Pairing!Kept \in [Pairing!Token -> Room \cup {NoRoom}]
         /\ \A r \in Room, t \in Pairing!Token :
               Pairing!Kept[t] = r <=> r \in byCode \ Pairing!Expired /\ t \in {r, guest[r]}
<1> USE NoneAssumption, TokenAssumption
    DEF PairingInv, RoomTypes, IssuedOnce, Pairing!TablesAgree, Pairing!Token
<1>1. Pairing!Kept \in [Pairing!Token -> Room \cup {NoRoom}]
  BY DEF Pairing!Kept
<1>2. ASSUME NEW r \in Room, NEW t \in Pairing!Token
      PROVE  Pairing!Kept[t] = r <=> r \in byCode \ Pairing!Expired /\ t \in {r, guest[r]}
  <2>1. Pairing!Kept[t] = IF \E x \in Pairing!Expired : t \in {x, guest[x]} THEN NoRoom ELSE byToken[t]
    BY DEF Pairing!Kept
  <2>2. Pairing!Expired \subseteq byCode
    BY DEF Pairing!Expired
  <2>3. ASSUME NEW x \in byCode, t \in {x, guest[x]}, t \in {r, guest[r]}, r \in byCode
        PROVE  x = r
    BY <2>3
  <2> QED
    BY <2>1, <2>2, <2>3
<1> QED
  BY <1>1, <1>2

LEMMA CreateKeepsTables ==
  ASSUME PairingInv, NEW n \in Room, Pairing!Create(n)
  PROVE  PairingInv'
<1> USE NoneAssumption, TokenAssumption, CleanupKeeps DEF Pairing!Create, Pairing!Token
<1>1. RoomTypes' /\ IssuedOnce'
  BY DEF PairingInv, RoomTypes, IssuedOnce
<1>2. n \notin byCode /\ guest[n] = NoGuest /\ \A r \in Room : guest[r] # n
  BY DEF PairingInv, RoomTypes, IssuedOnce
<1>3. Pairing!TablesAgree'
  BY <1>2 DEF PairingInv, RoomTypes, Pairing!TablesAgree
<1> QED
  BY <1>1, <1>3 DEF PairingInv

LEMMA JoinKeepsTables ==
  ASSUME PairingInv, NEW n \in Room, NEW g \in Guest, Pairing!Join(n, g)
  PROVE  PairingInv'
<1> USE NoneAssumption, TokenAssumption, CleanupKeeps DEF Pairing!Join, Pairing!Token
<1>1. CASE n \in byCode \ Pairing!Expired /\ guest[n] = NoGuest
  <2>1. RoomTypes' /\ IssuedOnce'
    BY <1>1 DEF PairingInv, RoomTypes, IssuedOnce
  <2>2. g \notin Room /\ \A r \in Room : guest[r] # g
    BY DEF PairingInv, RoomTypes, IssuedOnce
  <2>3. Pairing!TablesAgree'
    BY <1>1, <2>2 DEF PairingInv, RoomTypes, Pairing!TablesAgree
  <2> QED
    BY <2>1, <2>3 DEF PairingInv
<1>2. CASE ~(n \in byCode \ Pairing!Expired /\ guest[n] = NoGuest)
  BY <1>2 DEF PairingInv, RoomTypes, IssuedOnce, Pairing!TablesAgree
<1> QED
  BY <1>1, <1>2

LEMMA LeaveKeepsTables ==
  ASSUME PairingInv, NEW t \in Pairing!Token, Pairing!Leave(t)
  PROVE  PairingInv'
<1> USE NoneAssumption, TokenAssumption DEF Pairing!Leave, Pairing!Token
<1>1. RoomTypes' /\ IssuedOnce'
  BY DEF PairingInv, RoomTypes, IssuedOnce
<1>2. PICK r \in Room : r = byToken[t]
  BY DEF PairingInv, RoomTypes
<1>3. r \in byCode /\ t \in {r, guest[r]}
  BY <1>2 DEF PairingInv, Pairing!TablesAgree
<1>4. CASE t = r
  BY <1>1, <1>2, <1>3, <1>4 DEF PairingInv, RoomTypes, IssuedOnce, Pairing!TablesAgree
<1>5. CASE t # r
  <2>1. t \in Guest /\ t \notin Room /\ t = guest[r]
    BY <1>3, <1>5 DEF PairingInv, RoomTypes
  <2> QED
    BY <1>1, <1>2, <1>3, <1>5, <2>1 DEF PairingInv, RoomTypes, IssuedOnce, Pairing!TablesAgree
<1> QED
  BY <1>4, <1>5

LEMMA PairingStep == PairingInv /\ [Pairing!Next]_pairingVars => PairingInv'
<1> SUFFICES ASSUME PairingInv, [Pairing!Next]_pairingVars
             PROVE  PairingInv'
  OBVIOUS
<1>1. CASE UNCHANGED <<byCode, byToken, guest, home>>
  BY <1>1 DEF PairingInv, RoomTypes, IssuedOnce, Pairing!TablesAgree
<1>2. ASSUME NEW r \in Room, Pairing!HalfHourPasses(r)
      PROVE  PairingInv'
  BY <1>1, <1>2 DEF Pairing!HalfHourPasses
<1>3. ASSUME NEW t \in Pairing!Token, Pairing!Connect(t) \/ Pairing!Message(t) \/ Pairing!Disconnect(t)
      PROVE  PairingInv'
  BY <1>1, <1>3 DEF Pairing!Connect, Pairing!Message, Pairing!Disconnect
<1>4. CASE UNCHANGED pairingVars
  BY <1>1, <1>4 DEF pairingVars
<1> QED
  BY <1>2, <1>3, <1>4, CreateKeepsTables, JoinKeepsTables, LeaveKeepsTables DEF Pairing!Next

\* The table of the codes and the table of the tokens agree, for any number of rooms, guests and
\* websockets.
THEOREM TablesStayInStep == FairSpec => []TablesAgree
<1>1. Init => PairingInv
  BY PairingInit DEF Init
<1>2. PairingInv /\ [Next]_vars => PairingInv'
  BY PairingStep, OneSteps
<1>3. PairingInv => TablesAgree
  BY DEF PairingInv, TablesAgree
<1> QED
  BY <1>1, <1>2, <1>3, PTL DEF FairSpec

-----------------------------------------------------------------------------
(* TrainingRuns.  What takes the guard's owner away resets the guard.         *)

TrainInv ==
    /\ runAt \in [Train!AnyRun -> Train!Place]
    /\ task \in Thread \cup {NoRun}
    /\ GuardHasOwner

LEMMA TrainInit == Train!Init => TrainInv
  BY DEF Train!Init, TrainInv, GuardHasOwner, Train!GuardHasOwner, Train!WatchdogFinds,
         Train!Place, Train!AnyRun

\* The steps of a training run.
LEMMA TrainingKeepsGuard ==
  ASSUME TrainInv, NEW t \in Thread, Train!Start(t) \/ Train!Proceeds(t) \/ Train!Heartbeat(t)
  PROVE  TrainInv'
<1> USE NoneAssumption, TrainingAssumption
    DEF TrainInv, GuardHasOwner, Train!GuardHasOwner, Train!WatchdogFinds, Train!Place,
        Train!AnyRun, Train!Busy, Train!Go
<1>1. CASE Train!Start(t)
  BY <1>1 DEF Train!Start
<1>2. CASE Train!Begin(t)
  BY <1>2 DEF Train!Begin
<1>3. CASE Train!Train(t)
  BY <1>3 DEF Train!Train
<1>4. CASE Train!Record(t)
  BY <1>4 DEF Train!Record
<1>5. CASE Train!TrainEnds(t)
  BY <1>5 DEF Train!TrainEnds
<1>6. CASE Train!Returns(t)
  BY <1>6 DEF Train!Returns, Train!Released
<1>7. CASE Train!Raises(t)
  BY <1>7 DEF Train!Raises, Train!Released
<1>8. CASE Train!Heartbeat(t)
  BY <1>8 DEF Train!Heartbeat
<1> QED
  BY <1>1, <1>2, <1>3, <1>4, <1>5, <1>6, <1>7, <1>8 DEF Train!Proceeds

LEMMA TrainStep == TrainInv /\ [Train!Next]_trainingVars => TrainInv'
<1> SUFFICES ASSUME TrainInv, [Train!Next]_trainingVars
             PROVE  TrainInv'
  OBVIOUS
<1> USE NoneAssumption, TrainingAssumption
    DEF TrainInv, GuardHasOwner, Train!GuardHasOwner, Train!WatchdogFinds, Train!Place,
        Train!AnyRun, Train!Busy, Train!Go
<1>1. CASE Train!Cancel
  BY <1>1 DEF Train!Cancel, Train!Released
<1>2. ASSUME NEW c \in Conversion, Train!StartConversion(c)
      PROVE  TrainInv'
  BY <1>2 DEF Train!StartConversion
<1>3. ASSUME NEW c \in Conversion, Train!ConversionBegins(c)
      PROVE  TrainInv'
  BY <1>3 DEF Train!ConversionBegins
<1>4. ASSUME NEW c \in Conversion, Train!ConversionEnds(c)
      PROVE  TrainInv'
  BY <1>4 DEF Train!ConversionEnds
<1>5. CASE Train!Restart
  BY <1>5 DEF Train!Restart, Train!Released
<1>6. CASE UNCHANGED trainingVars
  BY <1>6 DEF trainingVars
<1> QED
  BY <1>1, <1>2, <1>3, <1>4, <1>5, <1>6, TrainingKeepsGuard DEF Train!Next, Train!Converts

\* A guard that refuses training runs belongs to a run that will reset it, and the watchdog finds
\* no task that left it set: for any number of training runs and conversions.
THEOREM GuardIsOwned == FairSpec => []GuardHasOwner
<1>1. Init => TrainInv
  BY TrainInit DEF Init
<1>2. TrainInv /\ [Next]_vars => TrainInv'
  BY TrainStep, OneSteps
<1>3. TrainInv => GuardHasOwner
  BY DEF TrainInv
<1> QED
  BY <1>1, <1>2, <1>3, PTL DEF FairSpec
=============================================================================
