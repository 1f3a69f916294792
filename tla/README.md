# Agent Swarm: specifications, model checking and proofs

Agent Swarm runs multi-agent coding, research and media tasks on a few machines with a shared
GPU, together with a memory service, a voice assistant and a maintenance daemon. This directory
holds TLA+ specifications of the parts of it whose correctness depends on the order in which
things happen, the TLC instances that check them, and TLAPS proofs about them. Paths are
relative to the repository; line numbers are in `PROJECT.json` (`map`).

To check a module: `tlc -config TaskBoard.cfg MCTaskQueue`. To check the proofs:
`tlapm TaskQueueProofs.tla`. `PROJECT.json` lists every run, the module and cfg it uses, the
properties it checks, a mutation of the specification that violates each of them, the code
behind every definition, and the hazards that the properties are aimed at.

## 1. The system

One process, *agent_runtime* (`agents/main.py`, FastAPI under a single uvicorn worker), serves
the API and hosts most of what follows. Handlers are coroutines on one event loop; a handler
without an `await` is therefore atomic with respect to other handlers, but not with respect to
the threads the process starts. Redis and Postgres are shared with other hosts, which run the
same process. Redis is used for locks, queues and short-lived state; most calls to it swallow
errors and fall back ("fail open"). The memory service, the voice assistant, the maintenance
router and the auto-repair daemon are processes of their own with stores of their own.

| Component | Code | State | What is hard | What makes it correct | Module |
|---|---|---|---|---|---|
| Task board | `agents/coordination/task_queue.py`, `agents/main.py`, `agents/routing/gates.py`, `agents/swarm_run_store.py` | Redis: a lock with a TTL and a list per scope; memory: arguments, cancelled ids; Postgres: `swarm_runs` | Threads finish and hand over while the loop creates and stops; GET and DEL are two calls; TTL, outage, restart | One writer per mount; no lost lock; no lost or doubled task; no phantom row | `TaskQueue` |
| Coordinator | `agents/coordination/{orchestrator,executor,session,session_sandbox,devharness_worker}.py` | Memory: the session and its workers; Docker: its container; Postgres: the run's row | Stops and exceptions in the middle of a parallel phase; many ways to end; restarts | The container outlives its workers; the row is true; every run ends | `Coordination` |
| GPU mutex | `agents/utils/{gpu_queue,peer_lock}.py`, `agents/api/gpu_lock.py` | Redis: lock and zone keys; lock server: a lease; process: a semaphore; GPU: loaded models | Outages that change the tier in mid-flight, lost answers, expiry, stalled workloads, restarts | Exclusion per tier; a true zone key; no wedge | `GpuMutex`, `GpuLease` |
| Circuit breaker | `agents/utils/gpu_queue.py`, `agents/church.py` | Memory: one circuit | Threads whose calls end after the state has changed | Opens only on a streak; closes again | `CircuitBreaker` |
| Trigger scheduler | `agents/trigger_scheduler.py` | Memory: triggers; disk: `triggers.json` | The ticking thread beside requests and beside the restore | What the owner was told survives; a due trigger fires | `TriggerScheduler` |
| Dev harness | `agents/dev_harness/` | Postgres: a checkpoint; memory: approvals and rules | Restart between a tool and its checkpoint; late decisions; vanished clients; replay and resume | A tool runs at most as often as it was allowed; a restart finds what may have run | `DevHarness`, `ToolLedger` |
| Daemon registry | `agents/daemon_registry.py` | Memory: workers with an event | start races with the loop of the previous start | A stop ends every loop | `DaemonRegistry` |
| Workflow engine | `agents/workflow_engine.py` | Memory: steps | A failure inside a parallel group | Every workflow ends | `WorkflowEngine` |
| Push confirmation | `agents/main.py`, `agents/publish_state.py`, `agents/github_push_audit_store.py`, `agents/tools/github_push_ops.py` | Redis: a token; Postgres: audit rows; GitHub: pull requests | A restart between two effects of one confirmation | Nothing is left that could publish twice | `Publish` |
| Training queue | `agents/media_job_store.py`, `agents/training/image_lora_worker.py` | Redis: records and a list | Stored, then queued; a fallback that is decided once | What is queued has a record; a run ends | `MediaJobs` |
| Training runs | `agents/main.py`, `agents/training/{grpo_trainer,convert_gguf}.py` | Memory: one guard; Postgres: rows | Cancels that stop nothing; lost writes; restarts | A guard that refuses has an owner; rows are settled | `TrainingRuns` |
| Pairing relay | `agents/pairing/routes.py` | Memory: rooms, tokens, sockets | Leave, expiry and a late close of an old websocket | The two tables agree | `PairingRelay` |
| Memory service | `control_plane/mempalace/app/` | Postgres: memories, audit trail, snapshots, pending conversations, entities | Edits that wait for an embedding, numbered versions, overlapping batches, a cache that outlives a rollback | The trail accounts for the text; stored is stamped; every conversation gets its turn | `MemoryEdits`, `SnapshotStore`, `PendingExtraction`, `EntityExtraction` |
| Voice assistant | `services/friday_brain/main.py` | Memory: one delivery record, one parked ask, shared by all rooms | Turns of several rooms between two awaits; background tasks | A weak match is never sent; an ask is handed over once | `HomeBrain`, `SwarmClarify` |
| Maintenance | `services/maintenance_router/`, `agents/auto_repair_daemon.py` | Redis: cooldown key and a list; memory: last repairs | Deliveries that overlap; a daemon that dies after its pop | A container that stays down is repaired again | `Maintenance` |

How they interact: the chat runtime and the task endpoints both start coordinations and share
the lock of the task board; every coordination and every media handler reaches the GPU through
`request_lock`, whose evictions go through the circuit breaker; triggers start chat runs on
threads of their own, which then take the same two locks; the dev harness is one of the workers
of a coordination (`Coordination` has its "harness" mode). No component holds the task lock
while it waits for a lock of the same kind.

## 2. Modules

```
            TaskQueue         GpuMutex         TriggerScheduler    DevHarness          Services
            |                 |                |                   |                   |
checked by  MCTaskQueue       MCGpuMutex       MCTriggerScheduler  MCDevHarness        itself
proved in   TaskQueueProofs   GpuMutexProofs   TriggerProofs       DevHarnessProofs    ServicesProofs
            TaskBoardProofs                                                            CoordinationProofs
                                                                                       SatelliteProofs
implements                    GpuLease                             ToolLedger

Services: INSTANCE ... WITH of each of
  Publish  MediaJobs  CircuitBreaker  DaemonRegistry  PairingRelay  WorkflowEngine  Coordination
  TrainingRuns  MemoryEdits  SnapshotStore  PendingExtraction  EntityExtraction  HomeBrain
  SwarmClarify  Maintenance
```

`GpuLease` and `ToolLedger` are abstract specifications; the modules above them instantiate them
with a refinement mapping.

Conventions. A step is one call to a shared store or backend, one critical section, or one
piece of code between two awaits; that is what others can interleave with. `pc` or `at` is the
next step of a thread. Variables marked *history* record what the code does not, and only
properties read them. A definition that follows the comment "Mutation of X" is a wrong variant
of X which the checks use to confirm that a property can fail; it is not part of the
specification.

### 2.1 TaskQueue

`lock` and `queue` are the two Redis keys of a scope, `redisUp` whether Redis answers, `status`
the column of `swarm_runs`; `pending`, `cancelled` and `session` are `_PENDING_TASK_DISPATCH`,
`_CANCELLED_TASKS` and the registered coordinator sessions. A *run* is a coordination id. Some
runs come from the chat path, some use an isolated sandbox and take no lock, some end in the
research branch, some have a gauntlet bar and survive a restart as `needs_input`; the constants
say which.

| Code | Actions |
|---|---|
| `create_task` | `CreateAdmitted` or `CreateWaits`, then `CreateRunningRow`, `CreateQueuedRow`, `CreateArgs`, `CreateEnqueue` |
| `stop_task` | `StopRead`, `StopSignal`, `StopMarkQueued`, `StopUnqueue`, `StopMarkRunning`, `StopCancelRow` |
| `_dispatch_task_now` | `DispatchCheck`, `DispatchDropRead/Delete`, `DispatchMark`; by the event loop or by the thread that hands over |
| `coordinate_task` | `EnterCoordination`, `RecordRunning`, `Boundary` (the cancellation check), `PhaseEnds`, `ResearchReturns`, `Finish` |
| the `finally` of a run | `ReleaseRead`, `ReleaseDelete`, `DiscardCancelled` |
| `_advance_task_queue` | `PopNext`, `CheckNext`, `TakeNext`, `AcquireNext`, `RestoreArgs`, `Requeue` |
| chat path | `ChatStart`, `ChatStall` (the client is gone and the bounded stream queue is full), `AfterRelease` |
| startup | `Reconcile`, `ClearAll` |
| environment | `Crash`, `LockExpires`, `RedisFails`, `RedisRecovers` |

Here a coordination is a client of the lock: a phase ends well, badly or not at all. What
happens inside it is `Coordination`.

### 2.2 GpuMutex and GpuLease

A *request* is one call of `request_lock`. Its `pc` walks through Tier 1 (`spin`, `sem`, `zone`,
`evict`, `warm`, `set_zone`, `yield`, `work`, `rel_get`, `rel_del`), Tier 2 (`peer_first`,
`peer`, `peer_sem`, `peer_work`, `peer_rel`) or Tier 3 (`local`, `local_work`). `key` and `zone`
are the Redis keys, `lease` and `expired` the state of the lock server, `permits` the semaphore
of each process, `loaded` what the backends hold in VRAM. `Parent` gives a request that is made
inside the workload of another, as `handle_3d` around `generate_image`. Evictions may leave
models behind (an unreachable backend, an open circuit), a warm-up may give up, answers may be
lost after they took effect.

`GpuLease` is what the lock server promises: one holder at a time, a release only by the
holder, and a lease that ends by expiry, by an operator or with the server. `GpuMutex`
implements it with *holder* = the lease that has not expired, *users* = the requests that were
told they have it, *failures* = the restarts; the run `gpu` checks this (`LeaseSpec`) and
`GpuMutexProofs` proves it.

### 2.3 TriggerScheduler

`known`, `state` and `lastMinute` are the scheduler's dictionaries, `file` is `triggers.json`,
`api` the request in progress, `tick` the thread, `boot` the progress of `load_persisted`.
A request changes memory, serialises (`Serialize`) and replaces the file (`Replace`): the thread
ticks in between. Restoring uses the same two steps for every trigger, as the code does.
A minute passes only after a tick (the interval is 15 s); a handler may take any time.
Conditions on hour, minute and weekday are one match of the minute of the day.

### 2.4 DevHarness and ToolLedger

One owner and session: the streams of its requests and the subagents they spawn, the row of
`dev_harness_checkpoints` (`ckpt`), the approval owners and decisions, the standing rules, and
the replay request. A loop's record says where it is, the calls of its turn (`todo`), the calls
in its history and which of them have a result. A generator goes on only while it is read: the
places in `Yields` end the loop when the client is gone. `save_checkpoint` may answer False, and
refuses a status it does not know. The environment is `Crash`, a client that disconnects, a
decision that arrives before, at or after a timeout.

`ToolLedger` is what all that is for: a call is executed at most as often as somebody allowed
it, be it the owner, the permission mode or a confirmed replay. `DevHarness` implements it
(`LedgerSpec`).

### 2.5 The services of Services

Fifteen small specifications, each of one protocol, each with a module of its own. They share no
state, so `Services` runs one of them per behaviour (`focus`) and the others rest: one run
checks all of them, with the sum and not the product of their states. Their sizes are constants
of `Services`, given in the cfg, so that the proofs hold for all of them; the steps of a workflow,
the loops of a daemon and the bounds of maintenance, of which nothing is proved, are fixed in the
`INSTANCE`.

* **Publish**: `push_preview`, `push_confirm`, approve and deny. A confirmation is one handler
  with no `await`; a restart cuts it between its effects (push, pull request, audit row).
* **MediaJobs**: the API process stores, then queues a run; the worker pops, reads, locks,
  prepares, trains and reports. Each process decides once whether it uses Redis.
* **CircuitBreaker**: `allow`, `record_success`, `record_failure` under the breaker's lock, and
  the calls that end later. Time is ticks; `streak` is a history of the failures' ages.
* **DaemonRegistry**: start clears the event and begins a new thread, whatever still runs.
* **PairingRelay**: `byCode` and `byToken` are the two tables, `sockets` the entry of each token,
  `conns` the websockets that are really open.
* **WorkflowEngine**: rounds of ready steps, the pool of `MaxParallel`, conditions, failure, and
  the rollback that runs while siblings still work (`undo`, `undone`).
* **Coordination**: `coordinate_task` from research to the last branch, the workers in the pool
  or in the thread (`crew`), the session's container, the run's row, `stop_task`, a restart with
  reconciliation. The `mode` switches are sandbox, harness and gauntlet; model answers are
  choices.
* **TrainingRuns**: the guard `_active_training`, training runs as a task plus threads,
  conversions that hold the event loop, cancel, lost writes, the startup's cleanup. The watchdog
  is the condition `WatchdogFinds`: it never holds (part of `GuardHasOwner`), so it has no action.
* **MemoryEdits**: store, PATCH and DELETE of one memory. A request reads the row, may wait for
  an embedding, and writes the row together with an entry of the trail.
* **SnapshotStore**: read the highest version, insert the next, retry on the unique constraint.
* **PendingExtraction**: conversations queued for the nightly batch, the calls of the batch, the
  model host that may be out, and rows that the database always refuses (`Poison`).
* **EntityExtraction**: calls of `run_entity_extraction` with their `label_cache`, a transaction
  per batch, insertions that wait for each other by the unique index, rollbacks, deadlocks.
* **HomeBrain**: the one record `_image_delivery`, the turns of all rooms that read and write it,
  the background deliveries, and approvals that wait for a notification.
* **SwarmClarify**: the one parked ask and the turns that park, answer, fold and drop it.
* **Maintenance**: webhook deliveries (classify, publish, mark), the list, the subscriber and the
  polling thread of the daemon, cooldowns in ticks, outages of Redis, restarts.

## 3. Runs

TLC checks each run over all interleavings of its instance. Deadlock is checked only for the
trigger scheduler: elsewhere every request can be over.

| Run | Instance | Checks | Shows |
|---|---|---|---|
| `task_board` | two composer runs (one a research run) with a chat run (a gauntlet) or with an isolated run, two may be stopped, one restart | `MutualExclusion`, `LockHasOwner`, `QueueSound`, `DoneIsSettled`, `FinishedStaysFinished` | no overlap, no orphaned lock, no lost or doubled task, no phantom row, whatever the order |
| `task_board_live` | two composer runs, one stop, TTL and outages, fairness | `StoppedWhileQueuedNeverRuns`, `LockEventuallyFreed`, `HandOverReachesWaiting` | a run stopped while waiting never runs; every lock is given up; a hand-over under way reaches the next run |
| `gpu` | three requests in two processes, outages, lost answers, expiry, a restart | `OneKeyHolder`, `OneSwitchPerProcess`, `ZoneIsTrue`, `LeaseExclusive`, `LeaseSpec` | each tier excludes, the zone key is true, the server implements the lease |
| `gpu_live` | two requests of one process, outages, workloads that may never return, fairness | `SwitchNotWedged`, `WaiterGetsOn` | a stalled workload does not wedge the process or the cluster |
| `trigger` | a cron and a one-shot trigger, failing handlers, two restarts | `AnswersKept`, `CronOncePerMinute` | what the owner was told survives; no double fire |
| `trigger_live` | a one-shot beside an interval trigger that may always fail, a restart, a failed write, fairness | `DueIsFired` | a due trigger fires |
| `dev_harness` | two requests, a subagent, an edit and a task call, a restart, a replay, lost writes, fairness | `RestartFindsOutcome`, `HistoryComplete`, `LedgerSpec`, `StreamEnds` | a restart finds every tool that may have run, the history has a result for every call, no call runs unallowed, every stream ends |
| `services` | the fifteen services, below | 8 invariants, 10 temporal properties | each keeps what it promises, and each gets on |

The properties of `services`, by service:

| Property | Service | Says |
|---|---|---|
| `NothingAfterSuccess` | Publish | a success on record leaves no token and no push that could publish again, unless audit rows were lost |
| `QueuedIsStored`, `EveryRunEnds` | MediaJobs | what is queued has a record; an accepted run ends while nothing breaks down |
| `OpensOnlyOnStreak`, `Recovers` | CircuitBreaker | the circuit opens only on a streak within the window, and closes for good when the service is up for good |
| `StopEndsLoops` | DaemonRegistry | a stop ends all loops, also those of earlier starts |
| `TablesAgree` | PairingRelay | rooms, tokens and sockets name each other through leave, expiry and reconnects |
| `WorkflowEnds` | WorkflowEngine | a workflow ends for every graph of dependencies, cycles included |
| `WorkersHaveContainer`, `RowTrue`, `CoordinationEnds` | Coordination | no container is removed under a worker; a stopped or ended run is shown so; every run ends |
| `GuardHasOwner`, `RowsSettle` | TrainingRuns | a guard that refuses belongs to a run that resets it; rows are settled unless a write was lost |
| `MemoryAccounted` | the four modules of the memory service | the newest entry about the content is what the memory holds; versions have no gap and no double; what was stored is stamped; a call whose batches succeeded believes only in rows |
| `PendingDrained` | PendingExtraction | refused rows, an outage and a restart keep no other conversation waiting for ever |
| `SentAsAgreed` | HomeBrain, SwarmClarify | a weak match is never sent and a close one only when approved; an ask is handed over once |
| `DeliveryEnds` | HomeBrain | a delivery that was begun ends, even if the image service hangs |
| `DownIsRepaired` | Maintenance | a container that stays down is repaired again and again |

**Bounds.** *Runs, requests, threads:* every property but the hand-over chain relates two of
them; the third is the one that takes the place of a departed holder. *Phases = 1* for the task
board: a first check, a phase and a last check; further phases repeat the same steps.
`ChatOrIsolated` follows a chat run or an isolated run beside the two composer runs, not both at
once. *Restarts:* one where the startup resets everything it may meet; two for the scheduler,
whose restore writes the file that the second restart reads. *Minutes = 2:* a tick that begins in
one minute and fires in the next. *Faults:* `task_board` does not go on from a state in which a
working run lost its lock to the TTL (`Unfaulted`), because its properties assume that this did
not happen; expiry and outages are followed to the end in `task_board_live`. In `gpu`, `OneFault`
stops a behaviour at its second fault of the kinds the properties exempt.

For `dev_harness`: a turn has up to two calls, two turns are begun, one request is live at a
time (`DevLive.cfg` has two at once and checks `StreamEnds`; there the checkpoint is shared and
belongs to the last writer). A subagent has one turn.

For `services`: three switches of a coordination occur (`mode` in `Services!Init`): a plain
run, a sandboxed one with harness workers and a sandboxed one with a gauntlet, not every
combination; `PoolSize = 2` with up to three research workers, so one waits for a place. The
circuit has a threshold of three within two ticks. Dependencies of a workflow are all graphs over
three steps. Snapshots have three writers and two attempts instead of five: refused means as many
others saved. The nightly batch looks at `Limit = 2` of three rows and one of them is poison, so a
poison row is always in the window and the others must still come; with as many poison rows as
the limit they do not (section 4). One outage or restart per service, two for the training queue,
one write lost for training runs. The voice assistant has one device and two deliveries; with two
devices `SentWhereAsked` is refuted (section 4). A pairing token has one websocket at a time
(`MaxConns = 1`). Entities are two labels in any order, so that two calls can wait for each other.

**Conditions in properties.** `MutualExclusion`, `LockHasOwner` and `QueueSound` assume
`~faulted`: no working run lost its lock, no outage. The code fails open on purpose there.
`OneKeyHolder` assumes that no key expired in use, `LeaseExclusive` that no lease did,
`ZoneIsTrue` also that no eviction failed and no degraded workload ran. `OneSwitchPerProcess` and
`LeaseSpec` assume nothing. `AnswersKept` exempts a failed write and an interrupted restore, and
one-shot triggers that have run. `RowTrue` exempts a run that asked a question or answered in the
perspective branch, which returns without settling its row. `RowsSettle` exempts a lost write,
`NothingAfterSuccess` a lost audit row, `EveryRunEnds` an outage; the unconditional forms are
refuted and listed below.

**Fairness.** The threads of runs and requests, the handler in progress and the startup are
weakly fair: the operating system and the event loop run what can run, and every wait in them has
a timeout or polls. Redis expires keys (TTL) and the lock server leases, so expiry is weakly fair.
In `task_board_live` Redis comes back from an outage. In `services`: the callers of the circuit
keep calling and their calls end by a timeout, time passes, a worker's agent returns, a training
run ends within its time budget, the container of the image worker is started again, the batch of
the memory service is called every night, the steps of a delivery end by a timeout if need be,
the polling thread of the daemon runs. Nothing is assumed of clients, of owners, of approvals, of
webhook deliveries or, in `gpu_live`, of workloads. `FailsOpen`, `DueIsFired` and `Recovers` state
their own premises.

## 4. What disagrees with the code's own words

Four runs are expected to be violated; `PROJECT.json` (`findings`) quotes the sentences.

| Run | Property | What happens |
|---|---|---|
| `task_board_queued` | `QueuedIsDispatched` | `create_task` fails to acquire and appends only later; a holder that releases and pops in between finds an empty list. The chat path and a cancelled dispatch release without looking at the list |
| `trigger_daily` | `FiresEveryDay` | the minute of the last fire is remembered without the day: a daily trigger fires once per process |
| `dev_budget` | `BudgetIsNoError` | the status `synthesizing` is not among those that `save_checkpoint` accepts, so a stream that uses up its turns ends with an error |
| `gauntlet_verdict` | `PassIsHeard` | the pattern that reads the critic's verdict has doubled backslashes in a raw string and never matches |

Further properties of the modules are refuted by the code. Those with a cfg: `tlc -config
TaskBoardCancelled.cfg MCTaskQueue` (`CancelledIsDurable`: `finish_run` has no condition on the
row's status), `GpuNested.cfg MCGpuMutex` (`FailsOpen`: in the degraded tiers a nested request waits
for its own caller), `TriggerRestart.cfg MCTriggerScheduler` (`CreatedSurvives`: every restored
trigger rewrites the file, a restart in the middle loses the rest), `DevResume.cfg MCDevHarness`
(`ResumedHistoryComplete`), `PublishAgain.cfg Publish` (`PublishedIsFinal`: with a lost audit row a
second preview issues a token). The others are at the end of `Services`; to see one, put it in
place of the invariants (or properties) of `Services.cfg`:

* **Push, queue, circuit, daemons, pairing, workflow.** `NoRunForgotten`: a worker that dies after
  BLPOP loses its run; a process that fell back to memory at its first call stays there.
  `StreakOpens`: the window is 60 s and the calls time out after 180 or 600 s, so three failures in
  a row may never open the circuit. `OneProbe`: half-open lets everything through. `OneLoop`: a stop and a start
  within an interval leave two loops. `TwoParticipants`: the guest's websocket stays after a leave.
  `ReachableWhileConnected` (with `MaxConns = 2`): the late close of an old websocket removes the entry
  of the new one. `RollbackComplete`: siblings that complete after the rollback began stay.
* **Coordination.** `CancelledCommitsNothing`: harness workers of a cancelled session still write
  "completed" although `session.py:78-79` says that workers check before committing.
  `WorkersSettled`: a worker cancelled at its last check keeps its row at "running". `AskedIsShown`: a
  pause for a question leaves the row at "running". A failure to create the container may
  leave one behind. The gauntlet column is set by the first critic: a restart before marks the run
  failed although `reconcile_stale_runs` says it is preserved.
* **Training runs.** `OneTraining`: a cancel, or a second start before the first task runs, lets two
  runs train. `CancelHolds`: the heartbeat of the thread writes "running" over "failed". `NoRowStuck`:
  one lost write leaves a row at "running" until the next restart; the watchdog repairs nothing.
* **Memory service.** `FailedStaysPending`: an outage of the model is taken for an empty answer and the
  row is stamped, although the docstring (`main.py:597-604`) says that it is left. `StoredOnce`: calls that
  overlap store the same conversation twice. As many poison rows as the limit starve all newer ones.
  `OneRowPerVersion` (with `owned = FALSE` in `Services!Init`): the constraint ignores rows without an
  owner. `TrailShowsText`, `TrailIsChain`: a change of another field logs a stale text; two edits that read the
  same text both say so. `CacheIsAlwaysTrue`: after a batch was rolled back, `label_cache` keeps the ids
  of its rows, and the later batches of the call count mentions on rows that do not exist and mark
  their memories as extracted.
* **Voice assistant.** `SentWhereAsked` (with two devices): "send it" sends the image of one task
  to the device that a later task wrote into the record, although `tools.py:245-246` says that it must never
  choose somebody's phone. `ParkedIsKept`: an ask of another room replaces the parked one. A new image request
  while a source is awaited is taken for the answer.
* **Maintenance.** `OneAction`: two deliveries that overlap both publish. `RepairsSpaced`: the
  subscriber and the polling thread keep the last repair under different names ("postgres", "PostgreSQL"), so
  the ten minutes between repairs (`auto_repair_daemon.py:70`) do not hold. An action that the daemon
  has popped when it dies is lost while the cooldown suppresses the next alert; the README of the
  router sends such alerts to the human queue, the code drops them.

Seen while modelling and not modelled: a durable pending approval cannot be decided after a restart
(`approval_service.py:3-4`); two `dev_resume` requests at once both pass; an exception in the
executor ends a stream with status failed and no pending calls, which hides what may have run; the
timeouts of workflow steps are enforced nowhere, and a cycle ends as "completed" with skipped steps;
session containers of the dev chat are reused after a failed checkout and cleaned up while a
checkpoint names them, and a dev chat on the live mount takes no task lock.

## 5. Proofs

TLAPS proves the following for every value of the constants that the named assumptions allow. The
assumptions say no more than that ids differ from the value that stands for none, that functions and
bounds have their types, and what the code relies on: isolated runs use the legacy scope, cron and
one-shot triggers are different triggers, a breaker opens on at least one failure, a conversion is
no training run, the default device is a device. Every safety property of a passing run, invariant
or action property, is stated by a theorem: the run shows it on an instance (and its mutation shows
that it can fail), the theorem for any number of actors, restarts and faults.

| Module | Theorem | States | Inductive invariant |
|---|---|---|---|
| `TaskQueueProofs` | `TypeCorrect`, `OneWriterPerScope`, `EveryLockHasOwner` | `TypeOK`, `MutualExclusion`, `LockHasOwner` | `IInv` |
| `TaskBoardProofs` | `WaitListsSound`, `NoPhantomRow`, `FinalRowStays`, `StoppedNeverRuns` | `QueueSound`, `DoneIsSettled`, `FinishedStaysFinished`, `StoppedWhileQueuedNeverRuns` | `Board`, `OutOfLine` |
| `GpuMutexProofs` | `TypeCorrect`, `ClusterMutex`, `SwitchMutex`, `LeaseImplemented`, `LeaseMutex`, `ZoneNeverStale` | `TypeOK`, `OneKeyHolder`, `OneSwitchPerProcess`, `LeaseSpec`, `LeaseExclusive`, `ZoneIsTrue` | `IInv`, `ZoneInv` |
| `TriggerProofs` | `TypeCorrect`, `CronRunsOncePerMinute`, `AnswersSurviveRestarts` | `TypeOK`, `CronOncePerMinute`, `AnswersKept` | `IInv` |
| `DevHarnessProofs` | `TypeCorrect`, `LedgerImplemented`, `OutcomeFound`, `NoDanglingCall` | `TypeOK`, `LedgerSpec`, `RestartFindsOutcome`, `HistoryComplete` | `IInv` |
| `ServicesProofs` | `NoSecondPush`, `QueueNamesRecords`, `NoFalseAlarm`, `TablesStayInStep`, `GuardIsOwned` | `NothingAfterSuccess`, `QueuedIsStored`, `OpensOnlyOnStreak`, `TablesAgree`, `GuardHasOwner` | `PushInv`, `JobsInv`, `BreakerInv`, `PairingInv`, `TrainInv` |
| `CoordinationProofs` | `ContainerOutlivesWorkers`, `BoardShowsTheEnd` | `WorkersHaveContainer`, `RowTrue` | `CoordInv` |
| `SatelliteProofs` | `MemoryIsAccounted`, `AssistantKeepsItsWord` | `MemoryAccounted`, `SentAsAgreed` | `MemoryInv`; `BrainInv`, `ClarifyInv` |

None of the properties is inductive by itself; this is what each proof adds, and why.

**TaskQueueProofs.** Two runs could both be about to enter with only one key. `IInv` is `TypeInv /\
Fresh /\ Ownership /\ LockHasOwner`. `Ownership`: while nothing went wrong, whoever has been
admitted, or is about to delete a key, owns that key; two runs of one scope then own the same key
and are the same run. `Fresh`: a handler creating a run is the first to touch it, and only created
runs are in the lists or in a thread's hand; without it a hand-over might dispatch a run still being
created. `TypeInv` adds that a thread past its pop has a run in hand and that nothing runs during
startup.

**TaskBoardProofs.** `Board` adds where a waiting run is: in one entry of one list, in one hand, or
with the handler about to enqueue it (`Once`); that its arguments are in one place (`Arguments`);
and what the row says at every step of a run (`Rows`, `Marked`, `Settled`). Unlike the ownership of
the lock, all of this but `Listed` survives expired keys and outages. For `StoppedNeverRuns`, a
stopped run that waits is `Doomed`: it is marked as cancelled until one of the two looks at
`_CANCELLED_TASKS` takes it off the board. That needs `OutOfLine`: a run that is being dispatched
stands in no list and is in no hand, or a second thread could use up the mark on which its dispatch
relies. The property nests two "always"; the last step combines the inductive steps in temporal
logic.

**GpuMutexProofs.** `Semaphore` ties the permit of a process to the steps that hold it, `KeyOwned`
the steps of Tier 1 to the key. The refinement needs `TypeOK` only: every step of a request maps to
a grant, a release, a departure or a stutter, an expiry or a clear to a revocation, a restart to a
restart of client or server. `ZoneInv`: while no lock was lost in use and nothing spoiled the
record, VRAM holds at most what the recorded zone uses (nothing before the first switch), unless a
switch is unfinished; a request past its evictions finds only what its own context uses, and one
past the SET of the zone key works in the recorded zone.

**TriggerProofs.** `AnswersKept` speaks of the scheduler at rest. `Answers` speaks of every point of
the event loop: the file, the text about to replace it, memory and, during a restore, the content
that was read each agree with what the owner was told, except at the trigger being worked on, where
they agree with the request. A restore keeps this split between what is done (in memory and in the
file) and what is still to do (in the content read). A tick may end a one-shot trigger anywhere in
between, but only one that has run. `Ran` says that a cron trigger that ran in this minute has it
recorded as its last or is about to, and that a tick older than the minute does not come back to it.

**DevHarnessProofs.** `Backed`: for each call, the executions so far, plus one that a decision or a
step before an execution has in hand, are at most as many as were granted; this gives the refinement
of `ToolLedger`. `Issued` (a call belongs to one turn of one loop) and `Waiting` (a decision has a
stream that waits for it) keep two loops from using one permission. `Covered` and `Unrun` relate the
checkpoint to the loop that wrote it and to what has run; `History` follows a call from the model's
turn to its result.

**ServicesProofs.** A step of `Services` is a step of one service or leaves it alone (`OneSteps`),
so an invariant of each service by itself is one of the whole. `BreakerInv`: as long as the first
failure that the breaker counted is within the window, it counted no more failures than the streak
has, and none is older. `PairingInv` adds that a guest's token is issued once. `TrainInv` is the
guard's property with the place of every run.

**CoordinationProofs.** The pool's join is `Gathered`: outside the wait for a phase, all workers
have returned; the container is removed only there. `Stopped` and `Shown` follow the row from the
stop and from the ending to the release.

**SatelliteProofs.** The entry of the trail is committed with the text that it names
(`LogAccounts`). The versions of an agent's snapshots are 1 to their number, so the next version is
free unless another writer took it since it was read, and each refused attempt has met another saved
snapshot (`SnapInv`). Stored memories are those of stamped conversations. `EntitiesInv` says which
rows a call may believe in: those committed, and those of its own transaction. `BrainInv` follows a
delivery from the match to the send: the shared record offers for approval only an image that its
task found close, and what a task found is not changed afterwards. `ClarifyInv` is what the same
theorem needs of the hand-over of a clarified ask: an ask that is still in hand was not handed over
before.

**Checked before they were proved.** TLC finds no violation of these inductive invariants on the
instances of `TaskBoard.cfg`, `Trigger.cfg` (with a failing write), `DevHarness.cfg`, `GpuMutex.cfg`
and `Services.cfg`. The runs do not list them, since the theorems say more. To see one, extend the
proof module by an instance and name the invariant in the cfg.

**Only model-checked.** Liveness: `LockEventuallyFreed`, `HandOverReachesWaiting`,
`SwitchNotWedged`, `WaiterGetsOn`, `DueIsFired`, `StreamEnds`, `EveryRunEnds`, `Recovers`,
`StopEndsLoops`, `WorkflowEnds`, `CoordinationEnds`, `RowsSettle`, `PendingDrained`, `DeliveryEnds`,
`DownIsRepaired`. They rest on fairness, so on `ENABLED`, which the prover does not handle. Of
`DaemonRegistry`, `WorkflowEngine` and `Maintenance` only liveness is checked, so nothing is proved;
their refuted invariants and those of the other services are in section 4. The type invariants of
`TaskQueue`, `GpuMutex`, `TriggerScheduler` and `DevHarness` are proved; `Services!TypeOK` holds
when added to the cfg, and the proofs use the parts of it that they need.

## 6. Plan

1. *Types of the services*: `Services!TypeOK` as a theorem, from the parts that the inductive
   invariants have.
2. *What liveness rests on*: the facts of one step that the liveness arguments use (a phase of a
   coordination only goes forward, the list of a hand-over gets shorter, the rounds of a workflow
   are bounded by its steps) as action properties with proofs, leaving only the fairness to TLC.
3. *Pending contexts of the chat* (section 7), as a module with one file per owner and session.

## 7. Not modelled, and why

* *Prompts, model answers, decomposition and synthesis*: not protocols; the specifications let every
  model answer in every way. Streaming formats, listings, metrics and logs: no property is about them.
* *Chat runtime, `church.py`, specialised agents*: mostly model calls in a row; what they share (the two
  locks, the circuit, the row of the run) is modelled. The exception is `handle_pending_context` in
  `agents/routing/gates.py`: nine gates over several turns whose state is one file per owner and session
  (`agents/brooks.py`), shared by concurrent requests and ended after 30 minutes. It is a state machine
  that deserves a module. One path to look at there: `coordination/orchestrator.py:1026-1052` saves a
  `swarm_clarification` and may then go on without asking; the next message of the session is taken for the answer.
* *Authorization, tokens and audit of capabilities*: a subject of its own.
* *The image service* (`execution_plane/klein_service`): one pipeline in memory, no lock; two warm-ups of
  different variants at once may leave a name that is not the loaded pipeline's. One variable and one race; the caller,
  `GpuMutex`, serialises its uses.
* *A/B tests and templates* (`agents/training/ab_test.py`, `agents/expertise/`): rows written one after
  the other with no transaction around them; a crash between the conclusion of a test and the promotion leaves the winner
  unpromoted, since only active tests are looked at. Nothing in the code promises more.
* *Training dispatcher* (`agents/training/dispatcher.py`): forwards a job to a remote host; a job stays
  "running" until somebody polls it.
* *Event dispatcher*: all task events go to one queue with consumers in the process; a popped event is
  lost with its process, as a training run is in `MediaJobs`.
* *Relations, graphs and search of the memory service*: scores and drawings; team memory is a single upsert. A
  relation that the database refuses is a batch that breaks in `EntityExtraction`.
* *Alerts for people, audit rows of the router, repair of the Authentik database*: an insert, or a repair like another.
* *Goals, node health, provider routing, the GPU allocator*: single statements on one event loop, a cache of pings,
  a choice among hosts, and code that is switched off where it would be called.
* *Voice engine, voice client, the vendored ComfyUI, the UI*: device drivers, third-party code and pages that keep no
  state the runtime relies on.

Timing is modelled by order: a TTL may run out whenever its key is held, which includes every real
duration; cooldowns and windows are counted in ticks where two of them are compared.
