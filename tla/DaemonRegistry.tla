--------------------------- MODULE DaemonRegistry ---------------------------
(* One worker of agents/daemon_registry.py: register, start, stop,           *)
(* unregister and stop_all, and the loop that each start begins in a thread  *)
(* of its own.  Nothing is locked: a start or a stop looks at the state and  *)
(* then acts on what it saw.                                                 *)
EXTENDS Naturals

CONSTANTS
    Caller,        \* threads that start and stop the worker
    Loop,          \* threads: bounds how many loops run at once
    MaxFailures

VARIABLES
    registered,    \* the worker is in _workers
    state,         \* its DaemonState
    stopping,      \* its _stop_event
    failures,      \* failure_count
    at,            \* where each loop is
    caller,        \* what each caller is about to do
    told,          \* history: the worker was said to be stopped, and was not started since
    overlapped     \* history: two loops of the worker have run at once

history == <<told, overlapped>>
vars == <<registered, state, stopping, failures, at, caller, told, overlapped>>

Running == {l \in Loop : at[l] # "none"}

TypeOK ==
    /\ registered \in BOOLEAN
    /\ state \in {"pending", "running", "stopped", "failed"}
    /\ stopping \in BOOLEAN
    /\ failures \in Nat
    /\ at \in [Loop -> {"none", "begin", "check", "handler", "wait"}]
    /\ caller \in [Caller -> {"idle", "start", "stop", "pop"}]
    /\ told \in BOOLEAN /\ overlapped \in BOOLEAN

Init ==
    /\ registered = FALSE
    /\ state = "pending"
    /\ stopping = FALSE
    /\ failures = 0
    /\ at = [l \in Loop |-> "none"]
    /\ caller = [c \in Caller |-> "idle"]
    /\ told = FALSE /\ overlapped = FALSE

Register ==
    /\ ~registered /\ state = "pending"
    /\ registered' = TRUE
    /\ UNCHANGED <<state, stopping, failures, at, caller, history>>

Calls(c, what) == caller' = [caller EXCEPT ![c] = what]

\* start finds the worker and sees that it is not running.
StartSees(c) ==
    /\ registered /\ caller[c] = "idle"
    /\ state # "running"
    /\ Calls(c, "start")
    /\ UNCHANGED <<registered, state, stopping, failures, at, history>>

Start(c, l) ==
    /\ caller[c] = "start" /\ at[l] = "none"
    /\ stopping' = FALSE
    /\ failures' = 0
    /\ state' = "running"
    /\ at' = [at EXCEPT ![l] = "begin"]
    /\ Calls(c, "idle")
    /\ told' = FALSE
    /\ overlapped' = (overlapped \/ Running # {})
    /\ UNCHANGED registered

\* stop sees a worker that is running and is to be signalled, or else says at once that it is
\* stopped.  unregister takes the worker out of the table afterwards.
StopSees(c, next) ==
    /\ registered /\ caller[c] = "idle"
    /\ IF state = "running"
       THEN Calls(c, "stop") /\ UNCHANGED history
       ELSE Calls(c, next) /\ told' = TRUE /\ UNCHANGED overlapped
    /\ UNCHANGED <<registered, state, stopping, failures, at>>

\* Mutation of Signal: the event is not set.
SignalNothing == UNCHANGED stopping

Signal == stopping' = TRUE

Stop(c) ==
    /\ caller[c] = "stop"
    /\ Signal
    /\ state' = "stopped"
    /\ told' = TRUE
    /\ \E next \in {"idle", "pop"} : Calls(c, next)
    /\ UNCHANGED <<registered, failures, at, overlapped>>

Unregister(c) ==
    /\ caller[c] = "pop"
    /\ registered' = FALSE
    /\ Calls(c, "idle")
    /\ UNCHANGED <<state, stopping, failures, at, history>>

\* The loop looks its worker up, which may be unregistered by now.
Begin(l) ==
    /\ at[l] = "begin"
    /\ at' = [at EXCEPT ![l] = IF registered THEN "check" ELSE "none"]
    /\ UNCHANGED <<registered, state, stopping, failures, caller, history>>

Check(l) ==
    /\ at[l] = "check"
    /\ at' = [at EXCEPT ![l] = IF stopping THEN "none" ELSE "handler"]
    /\ UNCHANGED <<registered, state, stopping, failures, caller, history>>

HandlerReturns(l) ==
    /\ at[l] = "handler"
    /\ failures' = 0
    /\ at' = [at EXCEPT ![l] = "wait"]
    /\ UNCHANGED <<registered, state, stopping, caller, history>>

HandlerRaises(l) ==
    /\ at[l] = "handler"
    /\ failures' = failures + 1
    /\ IF failures' >= MaxFailures
       THEN state' = "failed" /\ at' = [at EXCEPT ![l] = "none"]
       ELSE UNCHANGED state /\ at' = [at EXCEPT ![l] = "wait"]
    /\ UNCHANGED <<registered, stopping, caller, history>>

\* The interval is over, or the worker is told to stop.
Wake(l) ==
    /\ at[l] = "wait"
    /\ at' = [at EXCEPT ![l] = "check"]
    /\ UNCHANGED <<registered, state, stopping, failures, caller, history>>

LoopStep(l) == Begin(l) \/ Check(l) \/ HandlerReturns(l) \/ HandlerRaises(l) \/ Wake(l)

Call(c) ==
    \/ StartSees(c) \/ Stop(c) \/ Unregister(c)
    \/ \E l \in Loop : Start(c, l)
    \/ \E next \in {"idle", "pop"} : StopSees(c, next)

Next ==
    \/ Register
    \/ \E c \in Caller : Call(c)
    \/ \E l \in Loop : LoopStep(l)

-----------------------------------------------------------------------------

\* A worker that is said to be stopped comes to rest unless it is started again: whoever else starts
\* and stops it meanwhile, and also when it was said so because it had failed.  Not once two of its
\* loops have run at once.
StopEndsLoops == told /\ ~overlapped ~> Running = {} \/ ~told \/ overlapped

\* The same after two loops have run at once.  Refuted: when one of them fails for good, stop takes
\* the worker for one that has ended and leaves the other one running.
StopAlwaysEndsLoops == told ~> Running = {} \/ ~told

\* A worker has one loop.  (Not when it is stopped and started within an interval.)
OneLoop == \A l, m \in Running : l = m
=============================================================================
