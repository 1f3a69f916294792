----------------------------- MODULE TaskQueue -----------------------------
(***************************************************************************)
(* The task board of the agent runtime: the single-active-run lock and     *)
(* FIFO wait list of one shared mount (agents/coordination/task_queue.py), *)
(* the two entry points that use it (POST /v1/tasks in agents/main.py and  *)
(* the project picker of the chat path in agents/routing/gates.py), the    *)
(* stop endpoint, the coordinator thread, the durable row of a run         *)
(* (agents/swarm_run_store.py) and the startup reconciliation.             *)
(*                                                                         *)
(* Processes.  The endpoints are `async def` handlers without an await, so *)
(* they run one at a time on the event loop (loop).  Every admitted run    *)
(* drains its generator on a thread of its own (pc).  Redis and Postgres   *)
(* are shared; one action is one call to one of them, or one critical      *)
(* section of _pending_task_dispatch_lock.                                 *)
(***************************************************************************)
EXTENDS Naturals, Sequences, SequencesExt

CONSTANTS
    Run,          \* coordination ids
    NoRun,        \* no run
    Chat,         \* runs started by the chat path; the others come from POST /v1/tasks
    Isolated,     \* composer runs in session_mode "ephemeral": they take no lock
    Accepted,     \* runs whose call of coordinate_task is accepted; today the chat runs only
    Gauntlet,     \* runs whose row has a gauntlet_bar
    Scope,        \* shared-resource project ids, with the legacy scope
    LegacyScope,  \* DEFAULT_SCOPE, "legacy-shared"
    ScopeOf,      \* task_scope_id of a run
    Stoppable,    \* runs whose owner may call the stop endpoint
    Phases,       \* bound: phases of a coordination between its first and last check
    MaxCrashes,   \* bound: restarts of the agent runtime
    Outages,      \* whether Redis may become unreachable
    Lossy         \* bound: runs of whose rows Postgres may lose a write

ASSUME RunAssumption ==
    /\ NoRun \notin Run
    /\ Chat \subseteq Run
    /\ Gauntlet \subseteq Run
    /\ Chat \subseteq Accepted /\ Accepted \subseteq Run
    /\ Stoppable \subseteq Run
    /\ Lossy \subseteq Run
    /\ Isolated \subseteq Run \ Chat

ASSUME ScopeAssumption ==
    /\ LegacyScope \in Scope
    /\ ScopeOf \in [Run -> Scope]
    /\ \A r \in Isolated : ScopeOf[r] = LegacyScope

ASSUME BoundAssumption == Phases \in Nat /\ MaxCrashes \in Nat /\ Outages \in BOOLEAN

VARIABLES
    lock,       \* Redis: the run that holds the lock key of a scope
    queue,      \* Redis: the wait list of a scope
    redisUp,    \* Redis answers
    status,     \* Postgres: swarm_runs.status, "none" before the row exists
    pending,    \* memory: the keys of _PENDING_TASK_DISPATCH
    cancelled,  \* memory: _CANCELLED_TASKS
    session,    \* memory: the CoordinatorSession of a run and its cancel_flag
    pc,         \* the next step of a run's dispatch and coordinator thread
    phase,      \* phases a coordination has entered
    next,       \* next_id in _advance_task_queue, run by the thread of a finished run
    loop,       \* the handler the event loop is executing
    boot,       \* "up", or the startup step to come
    crashes,    \* restarts so far
    faulted,    \* history: a working run lost its lock, or Redis failed
    untold      \* history: runs whose row was not told how they ended

redisVars == <<lock, queue, redisUp>>
memoryVars == <<pending, cancelled, session>>
threadVars == <<pc, phase, next>>
hostVars == <<boot, crashes>>
historyVars == <<faulted, untold>>
vars == <<redisVars, status, memoryVars, threadVars, loop, hostVars, historyVars>>

Composer == Run \ Chat
Locked == Run \ Isolated

Status == {"none", "queued", "running", "needs_input", "completed", "failed", "cancelled"}
Terminal == {"completed", "failed", "cancelled"}

\* Before its thread runs, a run is dispatched by the event loop or by another thread.
DispatchPC == {"dispatch", "drop_get", "drop_del", "mark", "start"}
\* Inside coordinate_task.
CoordinatePC == {"record", "boundary", "phase", "completed", "failed", "cancelled"}
\* Inside _advance_task_queue.
AdvancePC == {"pop", "check", "take", "acquire", "repend", "requeue"}
PC == {"idle", "queued", "done", "stalled", "rel_get", "rel_del", "discard"}
        \cup DispatchPC \cup CoordinatePC \cup AdvancePC

CreatePC == {"run_row", "queue_row", "queue_args", "enqueue", "dispatching"}
StopPC == {"signal", "mark_queued", "unqueue", "mark_running", "cancel_row"}
Idle == [at |-> "idle", run |-> NoRun, legacy |-> FALSE, seen |-> "none"]

\* A chat run may be new, or paused at the project card by a coordination that took no lock.
Init ==
    /\ lock = [s \in Scope |-> NoRun]
    /\ queue = [s \in Scope |-> <<>>]
    /\ redisUp = TRUE
    /\ status \in [Run -> {"none", "needs_input"}] /\ \A r \in Composer : status[r] = "none"
    /\ pending = {}
    /\ cancelled = {}
    /\ session = [r \in Run |-> "none"]
    /\ pc = [r \in Run |-> "idle"]
    /\ phase = [r \in Run |-> 0]
    /\ next = [r \in Run |-> NoRun]
    /\ loop = Idle
    /\ boot = "up"
    /\ crashes = 0
    /\ faulted = FALSE /\ untold = {}

----------------------------------------------------------------------------
(* task_queue.py: one Redis call each; every call swallows a Redis error.  *)

\* SET key id NX EX ttl; a Redis error counts as acquired.
CanAcquire(s) == redisUp => lock[s] = NoRun
Acquire(r) == lock' = IF redisUp THEN [lock EXCEPT ![ScopeOf[r]] = r] ELSE lock

\* RPUSH; a Redis error loses the id.
Enqueue(r) == queue' = IF redisUp THEN [queue EXCEPT ![ScopeOf[r]] = Append(@, r)] ELSE queue

\* LREM key 0 id: an id is queued at most once (QueueWellFormed), so one copy is all copies.
RemoveQueued(r, s) ==
    queue' = IF redisUp /\ Contains(queue[s], r)
             THEN [queue EXCEPT ![s] = RemoveAt(@, CHOOSE i \in DOMAIN @ : @[i] = r)]
             ELSE queue

\* Mutation of OwnsLock: release() forgets the ownership check.
OwnsAnyLock(r) == redisUp /\ lock[ScopeOf[r]] # NoRun

\* GET key, before the DELETE of release().
OwnsLock(r) == redisUp /\ lock[ScopeOf[r]] = r
\* DELETE key, whoever holds it by then.
DeleteLock(r) == lock' = IF redisUp THEN [lock EXCEPT ![ScopeOf[r]] = NoRun] ELSE lock

(* swarm_run_store.py: one statement each; a failed one is logged.         *)

RowLost(r) == r \in Lossy /\ UNCHANGED status

\* Writes that say how a run ended.  A lost one leaves the row as it is.
Told(r) == untold' = untold \ {r}
Untold(r) == untold' = untold \cup {r}

\* Mutation of Advanced: the UPDATE loses its guard on terminal rows.
AdvancedAlways(r, st) == [status EXCEPT ![r] = st]

Advanced(r, st) ==
    IF status[r] \in Terminal \cup {"none"} THEN status ELSE [status EXCEPT ![r] = st]

SetStatus(r, st) == status' = Advanced(r, st) \/ RowLost(r)

\* INSERT ... ON CONFLICT DO NOTHING.
CreateRun(r, st) ==
    status' = (IF status[r] = "none" THEN [status EXCEPT ![r] = st] ELSE status) \/ RowLost(r)

\* finish_run has no condition on the status it replaces.
FinishRun(r, st) ==
    \/ /\ status' = IF status[r] = "none" THEN status ELSE [status EXCEPT ![r] = st]
       /\ Told(r)
    \/ RowLost(r) /\ Untold(r)

Goto(r, label) == pc' = [pc EXCEPT ![r] = label]

\* _pending_task_dispatch_lock stays held while a cancelled dispatch releases its lock.
RegistryFree == \A r \in Run : pc[r] \notin {"drop_get", "drop_del"}
----------------------------------------------------------------------------
(* POST /v1/tasks: create_task, on the event loop.                         *)

\* try_acquire succeeds, or no lock is needed: the run will start at once.
CreateAdmitted(r) ==
    /\ boot = "up" /\ loop = Idle /\ r \in Composer /\ pc[r] = "idle"
    /\ r \in Locked => CanAcquire(ScopeOf[r])
    /\ IF r \in Locked THEN Acquire(r) ELSE UNCHANGED lock
    /\ loop' = [Idle EXCEPT !.at = "run_row", !.run = r]
    /\ UNCHANGED <<queue, redisUp, status, memoryVars, threadVars, hostVars, historyVars>>

\* try_acquire fails: the run will wait.
CreateWaits(r) ==
    /\ boot = "up" /\ loop = Idle /\ r \in Composer /\ pc[r] = "idle"
    /\ r \in Locked /\ ~CanAcquire(ScopeOf[r])
    /\ loop' = [Idle EXCEPT !.at = "queue_row", !.run = r]
    /\ UNCHANGED <<redisVars, status, memoryVars, threadVars, hostVars, historyVars>>

CreateRunningRow(r) ==
    /\ loop.at = "run_row" /\ loop.run = r
    /\ CreateRun(r, "running")
    /\ Goto(r, "dispatch")
    /\ loop' = [loop EXCEPT !.at = "dispatching"]
    /\ UNCHANGED <<redisVars, memoryVars, phase, next, hostVars, historyVars>>

CreateQueuedRow(r) ==
    /\ loop.at = "queue_row" /\ loop.run = r
    /\ CreateRun(r, "queued")
    /\ Goto(r, "queued")
    /\ loop' = [loop EXCEPT !.at = "queue_args"]
    /\ UNCHANGED <<redisVars, memoryVars, phase, next, hostVars, historyVars>>

CreateArgs(r) ==
    /\ loop.at = "queue_args" /\ loop.run = r /\ RegistryFree
    /\ pending' = pending \cup {r}
    /\ loop' = [loop EXCEPT !.at = "enqueue"]
    /\ UNCHANGED <<redisVars, status, cancelled, session, threadVars, hostVars, historyVars>>

CreateEnqueue(r) ==
    /\ loop.at = "enqueue" /\ loop.run = r
    /\ Enqueue(r)
    /\ loop' = Idle
    /\ UNCHANGED <<lock, redisUp, status, memoryVars, threadVars, hostVars, historyVars>>

CreateStep(r) == CreateRunningRow(r) \/ CreateQueuedRow(r) \/ CreateArgs(r) \/ CreateEnqueue(r)

----------------------------------------------------------------------------
(* POST /v1/tasks/{id}/stop: stop_task, on the event loop.                 *)

\* Reads the row; a missing, finished or cancelled run is answered at once.
StopRead(r) ==
    /\ boot = "up" /\ loop = Idle /\ r \in Stoppable
    /\ status[r] \in {"queued", "running", "needs_input"}
    /\ loop' = [Idle EXCEPT !.at = "signal", !.run = r, !.seen = status[r]]
    /\ UNCHANGED <<redisVars, status, memoryVars, threadVars, hostVars, historyVars>>

\* Signals the live session, if there is one by now, and goes on by the status it read.
StopSignal(r) ==
    /\ loop.at = "signal" /\ loop.run = r
    /\ session' = IF session[r] = "live" THEN [session EXCEPT ![r] = "flagged"] ELSE session
    /\ loop' = [loop EXCEPT !.at = CASE loop.seen = "queued" -> "mark_queued"
                                     [] loop.seen = "running" -> "mark_running"
                                     [] loop.seen = "needs_input" -> "cancel_row"]
    /\ UNCHANGED <<redisVars, status, pending, cancelled, threadVars, hostVars, historyVars>>

\* Without pending arguments the scope of the run is unknown and defaults to the legacy one.
StopMarkQueued(r) ==
    /\ loop.at = "mark_queued" /\ loop.run = r /\ RegistryFree
    /\ cancelled' = cancelled \cup {r}
    /\ pending' = pending \ {r}
    /\ loop' = [loop EXCEPT !.at = "unqueue", !.legacy = (r \notin pending)]
    /\ UNCHANGED <<redisVars, status, session, threadVars, hostVars, historyVars>>

StopUnqueue(r) ==
    /\ loop.at = "unqueue" /\ loop.run = r
    /\ RemoveQueued(r, IF loop.legacy THEN LegacyScope ELSE ScopeOf[r])
    /\ loop' = [loop EXCEPT !.at = "cancel_row"]
    /\ UNCHANGED <<lock, redisUp, status, memoryVars, threadVars, hostVars, historyVars>>

StopMarkRunning(r) ==
    /\ loop.at = "mark_running" /\ loop.run = r /\ RegistryFree
    /\ cancelled' = cancelled \cup {r}
    /\ loop' = [loop EXCEPT !.at = "cancel_row"]
    /\ UNCHANGED <<redisVars, status, pending, session, threadVars, hostVars, historyVars>>

\* cancel_run spares a finished row; then, and when the write fails, the endpoint answers 409.
CancelRun(r) ==
    \/ status' = Advanced(r, "cancelled") /\ Told(r)
    \/ RowLost(r) /\ Untold(r)

StopCancelRow(r) ==
    /\ loop.at = "cancel_row" /\ loop.run = r
    /\ CancelRun(r)
    /\ loop' = Idle
    /\ UNCHANGED <<redisVars, memoryVars, threadVars, hostVars, faulted>>

StopStep(r) ==
    \/ StopSignal(r) \/ StopMarkQueued(r) \/ StopUnqueue(r)
    \/ StopMarkRunning(r) \/ StopCancelRow(r)

----------------------------------------------------------------------------
(* _dispatch_task_now, called by create_task or by the thread of a finished *)
(* run.  The event loop is free again when the call it made returns.        *)

LoopAfterDispatch(r) == loop' = IF loop.at = "dispatching" /\ loop.run = r THEN Idle ELSE loop

\* Mutation of DispatchCheck: no second look at _CANCELLED_TASKS.
DispatchUnchecked(r) ==
    /\ pc[r] = "dispatch" /\ RegistryFree
    /\ Goto(r, "mark")
    /\ UNCHANGED <<redisVars, status, memoryVars, phase, next, loop, hostVars, historyVars>>

DispatchCheck(r) ==
    /\ pc[r] = "dispatch" /\ RegistryFree
    /\ cancelled' = cancelled \ {r}
    /\ Goto(r, IF r \in cancelled THEN "drop_get" ELSE "mark")
    /\ UNCHANGED <<redisVars, status, pending, session, phase, next, loop, hostVars, historyVars>>

\* Mutation of DispatchDropRead: a cancelled dispatch returns without the release.
DispatchDropKeepsLock(r) ==
    /\ pc[r] = "drop_get"
    /\ Goto(r, "done")
    /\ LoopAfterDispatch(r)
    /\ UNCHANGED <<redisVars, status, memoryVars, phase, next, hostVars, historyVars>>

DispatchDropRead(r) ==
    /\ pc[r] = "drop_get"
    /\ Goto(r, IF OwnsLock(r) THEN "drop_del" ELSE "done")
    /\ IF OwnsLock(r) THEN UNCHANGED loop ELSE LoopAfterDispatch(r)
    /\ UNCHANGED <<redisVars, status, memoryVars, phase, next, hostVars, historyVars>>

DispatchDropDelete(r) ==
    /\ pc[r] = "drop_del"
    /\ DeleteLock(r)
    /\ Goto(r, "done")
    /\ LoopAfterDispatch(r)
    /\ UNCHANGED <<queue, redisUp, status, memoryVars, phase, next, hostVars, historyVars>>

DispatchMark(r) ==
    /\ pc[r] = "mark"
    /\ SetStatus(r, "running")
    /\ Goto(r, "start")
    /\ LoopAfterDispatch(r)
    /\ UNCHANGED <<redisVars, memoryVars, phase, next, hostVars, historyVars>>

----------------------------------------------------------------------------
(* The chat path: the dev_project_picker branch of gates.py, drained on the *)
(* thread of one streaming response.  A caller that loses try_acquire is    *)
(* answered "try again" and leaves no trace.                                *)

\* A run that paused, or that a restart left resumable, is started again under its id.
ChatStart(r) ==
    /\ boot = "up" /\ r \in Chat
    /\ pc[r] = "idle" \/ (pc[r] = "done" /\ status[r] = "needs_input")
    /\ CanAcquire(ScopeOf[r])
    /\ Acquire(r)
    /\ Goto(r, "start")
    /\ UNCHANGED <<queue, redisUp, status, memoryVars, phase, next, loop, hostVars, historyVars>>

\* The client is gone and the bounded queue of updates is full: put() never returns.
ChatStall(r) ==
    /\ r \in Chat /\ pc[r] \in {"boundary", "phase"}
    /\ Goto(r, "stalled")
    /\ UNCHANGED <<redisVars, status, memoryVars, phase, next, loop, hostVars, historyVars>>

----------------------------------------------------------------------------
(* coordinate_task, as far as the row, the session and the lock go.         *)

\* The arguments hold a task_scope_id that coordinate_task does not take: the call raises, the
\* thread logs it, and the row stays as it is.
CallRaises(r) ==
    /\ pc[r] = "start" /\ r \notin Accepted
    /\ Untold(r)
    /\ Goto(r, "rel_get")
    /\ UNCHANGED <<redisVars, status, memoryVars, phase, next, loop, hostVars, faulted>>

EnterCoordination(r) ==
    /\ pc[r] = "start" /\ r \in Accepted
    /\ session' = [session EXCEPT ![r] = "live"]
    /\ phase' = [phase EXCEPT ![r] = 0]
    /\ Goto(r, "record")
    /\ UNCHANGED <<redisVars, status, pending, cancelled, next, loop, hostVars, historyVars>>

\* create_run and set_status("running"); then the session container comes up, or does not.
RecordRunning(r) ==
    /\ pc[r] = "record"
    /\ \/ status' = IF status[r] \in Terminal THEN status ELSE [status EXCEPT ![r] = "running"]
       \/ RowLost(r)
    /\ \E label \in {"boundary", "failed"} : Goto(r, label)
    /\ UNCHANGED <<redisVars, memoryVars, phase, next, loop, hostVars, historyVars>>

\* _ensure_not_cancelled, before each phase and before the final summary.
Boundary(r) ==
    /\ pc[r] = "boundary"
    /\ IF session[r] = "flagged" THEN Goto(r, "cancelled") /\ UNCHANGED phase
       ELSE IF phase[r] = Phases THEN Goto(r, "completed") /\ UNCHANGED phase
       ELSE Goto(r, "phase") /\ phase' = [phase EXCEPT ![r] = @ + 1]
    /\ UNCHANGED <<redisVars, status, memoryVars, next, loop, hostVars, historyVars>>

PhaseEnds(r) ==
    /\ pc[r] = "phase"
    /\ \E label \in {"boundary", "failed"} : Goto(r, label)
    /\ UNCHANGED <<redisVars, status, memoryVars, phase, next, loop, hostVars, historyVars>>

\* A question about an ambiguous task or synthesis, and the perspective-research branch, return
\* without a finish_run.
LeavesUnfinished(r) ==
    /\ pc[r] = "phase"
    /\ Untold(r)
    /\ session' = [session EXCEPT ![r] = "none"]
    /\ Goto(r, "rel_get")
    /\ UNCHANGED <<redisVars, status, pending, cancelled, phase, next, loop, hostVars, faulted>>

\* finish_run with the outcome; the generator frame ends and the session with it.
Finish(r) ==
    /\ pc[r] \in {"completed", "failed", "cancelled"}
    /\ FinishRun(r, pc[r])
    /\ session' = [session EXCEPT ![r] = "none"]
    /\ Goto(r, "rel_get")
    /\ UNCHANGED <<redisVars, pending, cancelled, phase, next, loop, hostVars, faulted>>

Coordinate(r) ==
    \/ CallRaises(r) \/ EnterCoordination(r) \/ RecordRunning(r) \/ Boundary(r)
    \/ PhaseEnds(r) \/ LeavesUnfinished(r) \/ Finish(r)

----------------------------------------------------------------------------
(* The finally of _run and of the picker branch: release, and for a         *)
(* composer run _advance_task_queue.                                        *)

AfterRelease(r) == IF r \in Chat THEN "done" ELSE "discard"

ReleaseRead(r) ==
    /\ pc[r] = "rel_get"
    /\ Goto(r, IF OwnsLock(r) THEN "rel_del" ELSE AfterRelease(r))
    /\ UNCHANGED <<redisVars, status, memoryVars, phase, next, loop, hostVars, historyVars>>

ReleaseDelete(r) ==
    /\ pc[r] = "rel_del"
    /\ DeleteLock(r)
    /\ Goto(r, AfterRelease(r))
    /\ UNCHANGED <<queue, redisUp, status, memoryVars, phase, next, loop, hostVars, historyVars>>

\* Mutation of DiscardCancelled: the thread ends without advancing the queue.
DiscardAndEnd(r) ==
    /\ pc[r] = "discard" /\ RegistryFree
    /\ cancelled' = cancelled \ {r}
    /\ Goto(r, "done")
    /\ UNCHANGED <<redisVars, status, pending, session, phase, next, loop, hostVars, historyVars>>

DiscardCancelled(r) ==
    /\ pc[r] = "discard" /\ RegistryFree
    /\ cancelled' = cancelled \ {r}
    /\ Goto(r, "pop")
    /\ UNCHANGED <<redisVars, status, pending, session, phase, next, loop, hostVars, historyVars>>

\* Mutation of PopNext: LINDEX instead of LPOP.
PeekNext(r) ==
    /\ pc[r] = "pop"
    /\ IF redisUp /\ queue[ScopeOf[r]] # <<>>
       THEN next' = [next EXCEPT ![r] = Head(queue[ScopeOf[r]])] /\ Goto(r, "check")
       ELSE Goto(r, "done") /\ UNCHANGED next
    /\ UNCHANGED <<redisVars, status, memoryVars, phase, loop, hostVars, historyVars>>

\* LPOP; an empty list or a Redis error ends the advance.
PopNext(r) ==
    /\ pc[r] = "pop"
    /\ IF redisUp /\ queue[ScopeOf[r]] # <<>>
       THEN /\ next' = [next EXCEPT ![r] = Head(queue[ScopeOf[r]])]
            /\ queue' = [queue EXCEPT ![ScopeOf[r]] = Tail(@)]
            /\ Goto(r, "check")
       ELSE /\ Goto(r, "done")
            /\ UNCHANGED <<next, queue>>
    /\ UNCHANGED <<lock, redisUp, status, memoryVars, phase, loop, hostVars, historyVars>>

\* The popped run will never be dispatched; the thread pops again.
Skip(r) ==
    pc' = [pc EXCEPT ![r] = "pop", ![next[r]] = IF @ = "queued" THEN "done" ELSE @]

CheckNext(r) ==
    /\ pc[r] = "check" /\ RegistryFree
    /\ cancelled' = cancelled \ {next[r]}
    /\ IF next[r] \in cancelled
       THEN pending' = pending \ {next[r]} /\ Skip(r)
       ELSE Goto(r, "take") /\ UNCHANGED pending
    /\ UNCHANGED <<redisVars, status, session, phase, next, loop, hostVars, historyVars>>

TakeNext(r) ==
    /\ pc[r] = "take" /\ RegistryFree
    /\ pending' = pending \ {next[r]}
    /\ IF next[r] \in pending THEN Goto(r, "acquire") ELSE Skip(r)
    /\ UNCHANGED <<redisVars, status, cancelled, session, phase, next, loop, hostVars, historyVars>>

\* try_acquire on behalf of the popped run, which this thread then dispatches.
AcquireNext(r) ==
    /\ pc[r] = "acquire"
    /\ IF CanAcquire(ScopeOf[next[r]])
       THEN /\ Acquire(next[r])
            /\ pc' = [pc EXCEPT ![r] = "done", ![next[r]] = "dispatch"]
            /\ next' = [next EXCEPT ![r] = NoRun]
       ELSE /\ Goto(r, "repend")
            /\ UNCHANGED <<lock, next>>
    /\ UNCHANGED <<queue, redisUp, status, memoryVars, phase, loop, hostVars, historyVars>>

\* The lock was taken in between: put the run back and trust the holder to advance.
RestoreArgs(r) ==
    /\ pc[r] = "repend" /\ RegistryFree
    /\ pending' = pending \cup {next[r]}
    /\ Goto(r, "requeue")
    /\ UNCHANGED <<redisVars, status, cancelled, session, phase, next, loop, hostVars, historyVars>>

Requeue(r) ==
    /\ pc[r] = "requeue"
    /\ Enqueue(next[r])
    /\ Goto(r, "done")
    /\ next' = [next EXCEPT ![r] = NoRun]
    /\ UNCHANGED <<lock, redisUp, status, memoryVars, phase, loop, hostVars, historyVars>>

Advance(r) ==
    \/ DiscardCancelled(r) \/ PopNext(r) \/ CheckNext(r) \/ TakeNext(r)
    \/ AcquireNext(r) \/ RestoreArgs(r) \/ Requeue(r)

Thread(r) ==
    \/ DispatchCheck(r) \/ DispatchDropRead(r) \/ DispatchDropDelete(r) \/ DispatchMark(r)
    \/ Coordinate(r) \/ ReleaseRead(r) \/ ReleaseDelete(r) \/ Advance(r)

----------------------------------------------------------------------------
(* The runtime restarts: memory is lost, Redis and Postgres are not.        *)

Crash ==
    /\ crashes < MaxCrashes
    /\ crashes' = crashes + 1
    /\ boot' = "reconcile"
    /\ pending' = {} /\ cancelled' = {}
    /\ session' = [r \in Run |-> "none"]
    /\ pc' = [r \in Run |-> IF pc[r] = "idle" /\ loop.run # r THEN "idle" ELSE "done"]
    /\ phase' = [r \in Run |-> 0]
    /\ next' = [r \in Run |-> NoRun]
    /\ loop' = Idle
    /\ UNCHANGED <<redisVars, status, historyVars>>

\* Mutation of Reconciled: only running rows are reconciled.
ReconciledRunning(r) ==
    IF status[r] # "running" THEN status[r]
    ELSE IF r \in Gauntlet THEN "needs_input" ELSE "failed"

\* reconcile_stale_runs
Reconciled(r) ==
    IF status[r] \notin {"queued", "running"} THEN status[r]
    ELSE IF r \in Gauntlet THEN "needs_input" ELSE "failed"

Reconcile ==
    /\ boot = "reconcile"
    /\ \/ status' = [r \in Run |-> Reconciled(r)] /\ untold' = {}
       \/ /\ Lossy # {} /\ UNCHANGED status
          /\ untold' = untold \cup {r \in Run : status[r] \in {"queued", "running"}}
    /\ boot' = "clear"
    /\ UNCHANGED <<redisVars, memoryVars, threadVars, loop, crashes, faulted>>

\* clear_all; the server takes requests after it.
ClearAll ==
    /\ boot = "clear"
    /\ lock' = IF redisUp THEN [s \in Scope |-> NoRun] ELSE lock
    /\ queue' = IF redisUp THEN [s \in Scope |-> <<>>] ELSE queue
    /\ boot' = "up"
    /\ UNCHANGED <<redisUp, status, memoryVars, threadVars, loop, crashes, historyVars>>

----------------------------------------------------------------------------
(* Redis.                                                                   *)

\* A run that was admitted and whose thread has not released its lock yet.
Holding(r) ==
    \/ loop.at = "run_row" /\ loop.run = r
    \/ pc[r] \in DispatchPC \cup CoordinatePC \cup {"rel_get", "rel_del"}

\* Mutation of LockExpires: SET without EX.
LockNeverExpires(s) == FALSE

\* LIVE_REPO_LOCK_TTL runs out; the loss matters if the holder still works.
LockExpires(s) ==
    /\ lock[s] # NoRun
    /\ lock' = [lock EXCEPT ![s] = NoRun]
    /\ faulted' = (faulted \/ Holding(lock[s]))
    /\ UNCHANGED <<queue, redisUp, status, memoryVars, threadVars, loop, hostVars, untold>>

RedisFails ==
    /\ Outages /\ redisUp
    /\ redisUp' = FALSE
    /\ faulted' = TRUE
    /\ UNCHANGED <<lock, queue, status, memoryVars, threadVars, loop, hostVars, untold>>

RedisRecovers ==
    /\ ~redisUp
    /\ redisUp' = TRUE
    /\ UNCHANGED <<lock, queue, status, memoryVars, threadVars, loop, hostVars, historyVars>>

\* A request arrives.
Request ==
    \E r \in Run : CreateAdmitted(r) \/ CreateWaits(r) \/ StopRead(r) \/ ChatStart(r)

\* The event loop goes on with the handler it is executing.
Handler == \E r \in Run : CreateStep(r) \/ StopStep(r)

Startup == Reconcile \/ ClearAll

Next ==
    \/ Request \/ Handler
    \/ \E r \in Run : Thread(r) \/ ChatStall(r)
    \/ Crash \/ Startup
    \/ \E s \in Scope : LockExpires(s)
    \/ RedisFails \/ RedisRecovers

Spec == Init /\ [][Next]_vars

\* Threads and handlers that can go on do, startup finishes, Redis expires keys and comes back.
Fairness ==
    /\ \A r \in Run : WF_vars(Thread(r))
    /\ WF_vars(Handler)
    /\ WF_vars(Startup)
    /\ \A s \in Scope : WF_vars(LockExpires(s))
    /\ WF_vars(RedisRecovers)

FairSpec == Spec /\ Fairness

----------------------------------------------------------------------------
(* Properties.                                                              *)

LoopType ==
    [at : {"idle"} \cup CreatePC \cup StopPC, run : Run \cup {NoRun},
     legacy : BOOLEAN, seen : Status]

\* Every variable has its type.
TypeOK ==
    /\ lock \in [Scope -> Run \cup {NoRun}]
    /\ queue \in [Scope -> Seq(Run)]
    /\ redisUp \in BOOLEAN
    /\ status \in [Run -> Status]
    /\ pending \subseteq Run /\ cancelled \subseteq Run
    /\ session \in [Run -> {"none", "live", "flagged"}]
    /\ pc \in [Run -> PC]
    /\ phase \in [Run -> 0..Phases]
    /\ next \in [Run -> Run \cup {NoRun}]
    /\ loop \in LoopType
    /\ boot \in {"up", "reconcile", "clear"}
    /\ crashes \in 0..MaxCrashes
    /\ faulted \in BOOLEAN /\ untold \subseteq Run

\* Unless a working run lost its lock to the TTL or Redis failed, at most one
\* lock-taking run of a scope is inside coordinate_task, whatever mix of composer
\* and chat runs, stops, hand-overs and restarts led there.
MutualExclusion ==
    ~faulted =>
        \A q, r \in Locked :
            ScopeOf[q] = ScopeOf[r] /\ pc[q] \in CoordinatePC /\ pc[r] \in CoordinatePC => q = r

\* A held lock has an owner that will still release it, or a chat stream stalled
\* behind a vanished client: no path through create, stop, dispatch, hand-over or
\* restart drops a lock on the floor ("every acquire is guaranteed a matching release").
LockHasOwner ==
    boot = "up" /\ ~faulted =>
        \A s \in Scope, r \in Run : lock[s] = r =>
            ScopeOf[r] = s /\ (Holding(r) \/ pc[r] = "stalled")

\* A run in a wait list can be dispatched (its arguments are registered) or is known
\* to be cancelled: a pop never silently throws away a task the owner still wants.
QueuedIsServable ==
    boot = "up" /\ ~faulted =>
        \A s \in Scope : ToSet(queue[s]) \subseteq pending \cup cancelled

\* A run is queued at most once, in its own scope, while it waits, and not while a
\* thread has it in hand: no run is ever dispatched twice.
QueueWellFormed ==
    boot = "up" /\ ~faulted =>
        /\ \A s \in Scope : IsInjective(queue[s])
        /\ \A s \in Scope : \A r \in ToSet(queue[s]) :
              pc[r] = "queued" /\ ScopeOf[r] = s /\ \A q \in Run : next[q] # r
        /\ \A p, q \in Run : next[p] = next[q] /\ next[p] # NoRun => p = q

\* The wait lists can be worked off: nothing in them is lost, doubled or out of place.
QueueSound == QueuedIsServable /\ QueueWellFormed

\* When a run is over and no stop request for it is in flight, its row no longer says
\* queued or running (a phantom on the task board): stops, hand-overs, late dispatches, resumes
\* and restarts never leave one.  What does is named by untold: a coordination that returned or
\* was refused without a last write, and a last write that Postgres lost.
DoneIsSettled ==
    boot = "up" =>
        \A r \in Run \ untold :
            pc[r] = "done" /\ loop.run # r => status[r] \notin {"queued", "running"}

\* A completed or failed row is final: no late stop, hand-over, resume or restart changes it.
FinishedStaysFinished ==
    [][\A r \in Run : status[r] \in {"completed", "failed"} => status'[r] = status[r]]_vars

\* A run the owner stopped while it was waiting never enters coordinate_task,
\* even when a finishing thread already has it in hand.
StoppedWhileQueuedNeverRuns ==
    \A r \in Run :
        [](pc[r] = "queued" /\ r \in cancelled => [](pc[r] \notin CoordinatePC))

\* A lock is always given up in the end: by its run, by the restart, or by the TTL
\* when the holder stalled or the release was lost.
LockEventuallyFreed ==
    \A s \in Scope, r \in Run : lock[s] = r ~> lock[s] # r

\* While a composer run of the scope has yet to advance the queue, a run already
\* waiting there is taken out of the list: the hand-over chain does not break.
WillAdvance(r) ==
    pc[r] \in {"dispatch", "mark", "start", "rel_get", "rel_del", "discard", "pop"} \cup CoordinatePC

HandOverReachesWaiting ==
    \A s \in Scope, r \in Composer :
        (r \in ToSet(queue[s]) /\ \E q \in Composer : ScopeOf[q] = s /\ WillAdvance(q))
            ~> (r \notin ToSet(queue[s]) \/ faulted)

\* task_queue.py, module docstring: "a losing caller is recorded status="queued" and
\* automatically dispatched the moment the lock frees up".
QueuedIsDispatched ==
    \A r \in Composer : status[r] = "queued" ~> status[r] # "queued"

\* agents/main.py, _dispatch_task_now: "Flip a run to 'running' and drain its coordinate_task
\* generator on a background thread."
StartedIsCoordinated ==
    \A r \in Composer : pc[r] = "start" ~> pc[r] \in CoordinatePC

\* swarm_run_store.cancel_run: "Cancel an owner-owned non-terminal run and make the
\* transition durable".
CancelledIsDurable ==
    [][\A r \in Run : status[r] = "cancelled" => status'[r] = "cancelled"]_vars
=============================================================================
