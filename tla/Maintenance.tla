---------------------------- MODULE Maintenance ----------------------------
(* Repairs of one container: the maintenance router that turns alerts into   *)
(* actions on a list in Redis (services/maintenance_router), and the         *)
(* auto-repair daemon (agents/auto_repair_daemon.py) with its two threads,   *)
(* one that takes the actions and one that checks for itself.                *)
EXTENDS Naturals, FiniteSets

CONSTANTS
    Webhook,       \* deliveries of the alert that may be in progress at a time
    Cooldown,      \* ticks of the router's cooldown
    RepairCooldown,\* ticks of the daemon's
    MaxBus,        \* bound: actions on the list
    MaxFaults      \* bound: outages of Redis, restarts of the daemon

VARIABLES
    down,          \* the container does not answer
    redisUp,
    webhook,       \* where each delivery of the alert is
    cooldown,      \* ticks left of the router's cooldown key
    bus,           \* length of the list maintenance:system_alert
    subscriber,    \* where the thread is that takes actions from the list
    poll,          \* where the thread is that checks the container
    sinceRepair,   \* ticks since last_repair_time of the polled service, at most RepairCooldown
    quiet,         \* history: ticks since a repair began, at most RepairCooldown
    faults

vars == <<down, redisUp, webhook, cooldown, bus, subscriber, poll, sinceRepair, quiet, faults>>
routerVars == <<webhook, cooldown, bus>>
daemonVars == <<subscriber, poll, sinceRepair, quiet>>

Later(ticks) == IF ticks < RepairCooldown THEN ticks + 1 ELSE ticks

TypeOK ==
    /\ down \in BOOLEAN /\ redisUp \in BOOLEAN
    /\ webhook \in [Webhook -> {"idle", "publish", "mark"}]
    /\ cooldown \in 0..Cooldown /\ bus \in 0..MaxBus
    /\ subscriber \in {"connect", "pop", "repair", "off"}
    /\ poll \in {"check", "repair", "sleep"}
    /\ sinceRepair \in 0..RepairCooldown /\ quiet \in 0..RepairCooldown
    /\ faults \in 0..MaxFaults

Init ==
    /\ down = FALSE /\ redisUp = TRUE
    /\ webhook = [w \in Webhook |-> "idle"]
    /\ cooldown = 0 /\ bus = 0
    /\ subscriber = "connect" /\ poll = "check"
    /\ sinceRepair = RepairCooldown /\ quiet = RepairCooldown
    /\ faults = 0

-----------------------------------------------------------------------------
(* The router: classify, publish_system_alert, mark_dispatched.              *)

\* An alert in its cooldown is dropped; without Redis the webhook answers 500 and is repeated.
Classify(w) ==
    /\ webhook[w] = "idle" /\ down
    /\ redisUp /\ cooldown = 0
    /\ webhook' = [webhook EXCEPT ![w] = "publish"]
    /\ UNCHANGED <<down, redisUp, cooldown, bus, daemonVars, faults>>

PublishAction(w) ==
    /\ webhook[w] = "publish" /\ redisUp /\ bus < MaxBus
    /\ bus' = bus + 1
    /\ webhook' = [webhook EXCEPT ![w] = "mark"]
    /\ UNCHANGED cooldown

MarkDispatched(w) ==
    /\ webhook[w] = "mark" /\ redisUp
    /\ cooldown' = Cooldown
    /\ webhook' = [webhook EXCEPT ![w] = "idle"]
    /\ UNCHANGED bus

\* Redis does not answer: the webhook ends where it is.
WebhookRaises(w) ==
    /\ webhook[w] # "idle" /\ ~redisUp
    /\ webhook' = [webhook EXCEPT ![w] = "idle"]
    /\ UNCHANGED <<cooldown, bus>>

Router(w) ==
    \/ Classify(w)
    \/ /\ PublishAction(w) \/ MarkDispatched(w) \/ WebhookRaises(w)
       /\ UNCHANGED <<down, redisUp, daemonVars, faults>>

-----------------------------------------------------------------------------
(* The thread of the daemon that takes actions from the list.                *)

\* Without Redis at its start the thread ends for good.
Connect ==
    /\ subscriber = "connect"
    /\ subscriber' = IF redisUp THEN "pop" ELSE "off"
    /\ UNCHANGED <<down, redisUp, routerVars, poll, sinceRepair, quiet, faults>>

TakeAction ==
    /\ subscriber = "pop" /\ redisUp /\ bus > 0
    /\ bus' = bus - 1
    /\ subscriber' = "repair" /\ quiet' = 0
    /\ UNCHANGED <<down, redisUp, webhook, cooldown, poll, sinceRepair, faults>>

\* The restart of the container helps or not.  The time is noted under the name of the container,
\* which the other thread, with the name of the service, does not look up.
RoutedRepair ==
    /\ subscriber = "repair"
    /\ subscriber' = "pop"
    /\ down' \in {down, FALSE}
    /\ UNCHANGED <<redisUp, routerVars, poll, sinceRepair, quiet, faults>>

-----------------------------------------------------------------------------
(* The thread that checks the container: perform_health_check_and_repair.    *)

\* Mutation of SkipRepair: the check notes its time.
SkipRepairNoted ==
    /\ poll = "check" /\ down /\ sinceRepair < RepairCooldown
    /\ poll' = "sleep" /\ sinceRepair' = 0
    /\ UNCHANGED quiet

\* should_repair: the last repair is too recent.
SkipRepair ==
    /\ poll = "check" /\ down /\ sinceRepair < RepairCooldown
    /\ poll' = "sleep"
    /\ UNCHANGED <<sinceRepair, quiet>>

BeginRepair ==
    /\ poll = "check" /\ down /\ sinceRepair = RepairCooldown
    /\ poll' = "repair" /\ quiet' = 0
    /\ UNCHANGED sinceRepair

FindHealthy ==
    /\ poll = "check" /\ ~down
    /\ poll' = "sleep"
    /\ UNCHANGED <<sinceRepair, quiet>>

PollCheck ==
    /\ SkipRepair \/ BeginRepair \/ FindHealthy
    /\ UNCHANGED <<down, redisUp, routerVars, subscriber, faults>>

PolledRepair ==
    /\ poll = "repair"
    /\ poll' = "sleep" /\ sinceRepair' = 0
    /\ down' \in {down, FALSE}
    /\ UNCHANGED <<redisUp, routerVars, subscriber, quiet, faults>>

-----------------------------------------------------------------------------

\* Time passes, and the sleep of the polling thread is over.
Tick ==
    /\ poll # "check"
    /\ cooldown' = IF cooldown > 0 THEN cooldown - 1 ELSE 0
    /\ sinceRepair' = Later(sinceRepair) /\ quiet' = Later(quiet)
    /\ poll' = IF poll = "sleep" THEN "check" ELSE poll
    /\ UNCHANGED <<down, redisUp, webhook, bus, subscriber, faults>>

Breaks == ~down /\ down' = TRUE
          /\ UNCHANGED <<redisUp, routerVars, daemonVars, faults>>

RedisFails ==
    /\ redisUp /\ faults < MaxFaults
    /\ redisUp' = FALSE /\ faults' = faults + 1
    /\ UNCHANGED <<down, routerVars, daemonVars>>

RedisReturns == ~redisUp /\ redisUp' = TRUE /\ UNCHANGED <<down, routerVars, daemonVars, faults>>

\* The daemon forgets when it repaired what, and the action that it took from the list.
DaemonRestarts ==
    /\ faults < MaxFaults
    /\ faults' = faults + 1
    /\ subscriber' = "connect" /\ poll' = "check" /\ sinceRepair' = RepairCooldown
    /\ UNCHANGED <<down, redisUp, routerVars, quiet>>

Next ==
    \/ \E w \in Webhook : Router(w)
    \/ Connect \/ TakeAction \/ RoutedRepair
    \/ PollCheck \/ PolledRepair
    \/ Tick \/ Breaks \/ RedisFails \/ RedisReturns \/ DaemonRestarts

-----------------------------------------------------------------------------

\* A container that stays down is repaired again and again, whatever becomes of Redis, the router
\* and the other thread: the polling thread is the backstop.
DownIsRepaired == []<>(~down \/ poll = "repair")

\* "10 minutes between repairs".  Refuted: the two threads do not know of each other's repairs.
RepairsSpaced == [][quiet' = 0 /\ (poll' # poll \/ subscriber' # subscriber)
                    => quiet = RepairCooldown]_vars

\* One action for an outage.  Refuted: two deliveries are classified before one is marked.
OneAction == bus <= 1
=============================================================================
