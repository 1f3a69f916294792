----------------------------- MODULE MediaJobs -----------------------------
(* Image training runs: the API process stores and queues them in Redis      *)
(* (agents/media_job_store.py), and a worker process takes and works them    *)
(* off (agents/training/image_lora_worker.py).  Each process decides once    *)
(* whether it uses Redis or, if Redis does not answer, its own memory.       *)
EXTENDS Naturals, Sequences, SequencesExt

CONSTANTS
    Run,           \* training runs
    NoRun,
    MaxOutages     \* bound: outages of Redis, restarts of the API process, deaths of the worker

VARIABLES
    up,            \* Redis answers
    status,        \* status in the record of each run in Redis
    queue,         \* the list of queued runs in Redis
    api,           \* what the API process uses: "unset", "redis" or "memory"
    pushing,       \* run that is stored and not yet queued by the request in progress
    held,          \* runs in the memory of the API process
    client,        \* what the worker uses
    worker,        \* where the worker is
    job,           \* the run it works on
    outages

vars == <<up, status, queue, api, pushing, held, client, worker, job, outages>>

apiVars == <<api, pushing, held>>
workerVars == <<client, worker, job>>

Ended == {"completed", "error"}
Absent == {"none", "expired"}

TypeOK ==
    /\ up \in BOOLEAN
    /\ status \in [Run -> {"queued", "preparing", "dataset_ready"} \cup Ended \cup Absent]
    /\ queue \in Seq(Run)
    /\ api \in {"unset", "redis", "memory"} /\ client \in {"unset", "redis", "memory"}
    /\ pushing \in Run \cup {NoRun} /\ job \in Run \cup {NoRun}
    /\ held \subseteq Run
    /\ worker \in {"down", "pop", "get", "lock", "dataset", "train", "error"}
    /\ outages \in 0..MaxOutages

Init ==
    /\ up = TRUE
    /\ status = [r \in Run |-> "none"]
    /\ queue = <<>>
    /\ api = "unset" /\ pushing = NoRun /\ held = {}
    /\ client = "unset" /\ worker = "pop" /\ job = NoRun
    /\ outages = 0

\* _get_redis_client: the first call of a process decides for good.
Resolved(c) == IF c = "unset" THEN IF up THEN "redis" ELSE "memory" ELSE c

-----------------------------------------------------------------------------
(* create_image_training_run in the API process.                             *)

Unknown(r) == status[r] = "none" /\ r \notin held /\ r \notin ToSet(queue)

\* Mutation of Store: the run is queued before it is stored.
StoreLast(r) ==
    /\ pushing = NoRun /\ Unknown(r)
    /\ api' = Resolved(api)
    /\ pushing' = IF api' = "redis" /\ up THEN r ELSE NoRun
    /\ queue' = IF api' = "redis" /\ up THEN Append(queue, r) ELSE queue
    /\ held' = IF api' = "memory" THEN held \cup {r} ELSE held
    /\ UNCHANGED <<up, status, workerVars, outages>>

\* The run is stored with status "queued"; without Redis it stays in memory, or the request fails.
Store(r) ==
    /\ pushing = NoRun /\ Unknown(r)
    /\ api' = Resolved(api)
    /\ pushing' = IF api' = "redis" /\ up THEN r ELSE NoRun
    /\ status' = IF api' = "redis" /\ up THEN [status EXCEPT ![r] = "queued"] ELSE status
    /\ held' = IF api' = "memory" THEN held \cup {r} ELSE held
    /\ UNCHANGED <<up, queue, workerVars, outages>>

\* Its id is appended to the list; if Redis is gone by now the request fails.
Push ==
    /\ pushing # NoRun
    /\ queue' = IF up THEN Append(queue, pushing) ELSE queue
    /\ pushing' = NoRun
    /\ UNCHANGED <<up, status, api, held, workerVars, outages>>

ApiRestart ==
    /\ outages < MaxOutages
    /\ outages' = outages + 1
    /\ api' = "unset" /\ pushing' = NoRun /\ held' = {}
    /\ UNCHANGED <<up, status, queue, workerVars>>

-----------------------------------------------------------------------------
(* The worker: main, pop_image_training_run, process_run.                    *)

Goes(place) == worker' = place /\ UNCHANGED <<up, apiVars, client, job, outages>>

\* BLPOP.  A worker that has fallen back to memory polls an empty list; one that loses Redis dies.
Pop ==
    /\ worker = "pop"
    /\ client' = Resolved(client)
    /\ IF client' = "redis" /\ up /\ queue # <<>>
       THEN /\ worker' = "get" /\ job' = Head(queue) /\ queue' = Tail(queue)
       ELSE /\ worker' = IF client' = "redis" /\ ~up THEN "down" ELSE "pop"
            /\ UNCHANGED <<job, queue>>
    /\ UNCHANGED <<up, apiVars, status, outages>>

\* The record of the run is read.
Get ==
    /\ worker = "get"
    /\ Goes(IF ~up THEN "down" ELSE IF status[job] \in Absent THEN "pop" ELSE "lock")
    /\ UNCHANGED <<status, queue>>

\* A record that is gone is not written again.
Update(s) == status' = IF status[job] \in Absent THEN status ELSE [status EXCEPT ![job] = s]

\* One step of the work and the update that reports it.  Any of them may raise: the GPU lock is not
\* obtained, the dataset or the trainer fails, or Redis is gone.
WorkStep(from, reported, next) ==
    /\ worker = from
    /\ \/ up /\ Update(reported) /\ Goes(next)
       \/ Goes("error") /\ UNCHANGED status
    /\ UNCHANGED queue

Prepare == WorkStep("lock", "preparing", "dataset")
Dataset == WorkStep("dataset", "dataset_ready", "train")

\* Where no trainer is configured the run ends "planned", which is completed here.
Train == WorkStep("train", "completed", "pop")

\* Mutation of Report: the failure is only logged.
ReportNothing ==
    /\ worker = "error"
    /\ Goes("pop")
    /\ UNCHANGED <<status, queue>>

\* The exception is reported as the status of the run, or kills the worker.
Report ==
    /\ worker = "error"
    /\ IF up THEN Update("error") /\ Goes("pop") ELSE UNCHANGED status /\ Goes("down")
    /\ UNCHANGED queue

WorkerDies ==
    /\ worker # "down" /\ outages < MaxOutages
    /\ outages' = outages + 1
    /\ worker' = "down"
    /\ UNCHANGED <<up, status, queue, apiVars, client, job>>

\* The container is started again.
WorkerStarts ==
    /\ worker = "down"
    /\ worker' = "pop" /\ client' = "unset" /\ job' = NoRun
    /\ UNCHANGED <<up, status, queue, apiVars, outages>>

RedisStops ==
    /\ up /\ outages < MaxOutages
    /\ outages' = outages + 1
    /\ up' = FALSE
    /\ UNCHANGED <<status, queue, apiVars, workerVars>>

\* Redis comes back with its data.
RedisStarts == ~up /\ up' = TRUE /\ UNCHANGED <<status, queue, apiVars, workerVars, outages>>

\* The TTL of a record, which each update starts anew; the list has none.
RecordExpires(r) ==
    /\ status[r] \notin Absent
    /\ status' = [status EXCEPT ![r] = "expired"]
    /\ UNCHANGED <<up, queue, apiVars, workerVars, outages>>

WorkerStep == Pop \/ Get \/ Prepare \/ Dataset \/ Train \/ Report \/ WorkerStarts

Next ==
    \/ (\E r \in Run : Store(r) \/ RecordExpires(r)) \/ Push \/ ApiRestart
    \/ WorkerStep \/ WorkerDies
    \/ RedisStops \/ RedisStarts

-----------------------------------------------------------------------------

\* What is in the list has a record that says "queued", so the worker that takes it finds what to
\* do and nobody has begun it; unless its record expired while it waited.
QueuedIsStored == \A r \in ToSet(queue) : status[r] \in {"queued", "expired"}

\* A run that was accepted ends with a status, while nothing breaks down and its record lasts.
EveryRunEnds ==
    \A r \in Run : status[r] = "queued" ~> (status[r] \in Ended \cup {"expired"} \/ outages > 0)

\* The same when things break down.  (A worker that dies with a run in hand leaves it.)
NoRunForgotten == \A r \in Run : status[r] = "queued" ~> status[r] \in Ended \cup {"expired"}
=============================================================================
