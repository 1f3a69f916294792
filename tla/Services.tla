------------------------------ MODULE Services ------------------------------
(* Fifteen services side by side: of the runtime the push of a finished      *)
(* task, the training queue, the circuit breaker, the daemon registry, the   *)
(* pairing relay, a workflow, a coordination and the training runs; of its   *)
(* satellites the edits, the snapshots, the batch and the entities of the    *)
(* memory service, the images and the handed-off asks of the voice           *)
(* assistant, and maintenance.  They share no state, so a behaviour runs one *)
(* of them, `focus`, and the others rest. ServicesProofs, CoordinationProofs *)
(* and SatelliteProofs prove what they promise for any values of the         *)
(* constants.                                                                *)
EXTENDS Naturals, Sequences, FiniteSets

\* Each constant is the one of that name in the module of its service; a Thread is a request, a
\* caller or a loop, as the service has them.
CONSTANTS
    Focus,              \* the services that a run looks at
    Thread,
    Branch, MaxPreviews, MaxConfirms, MaxCrashes, DbFails,
    Run, NoRun, MaxOutages,
    Threshold, Window, OpenFor,
    Room, Guest, NoRoom, NoGuest, MaxConns,
    PoolSize, MaxResearch, MaxImpl,
    Conversion,
    Text,
    Writer, Tries,
    Rows, Limit, Poison,
    MaxHostFaults,      \* bound: MaxOutages of PendingExtraction
    Label, Memories,
    Device, NoDevice, Default, MaxTasks, MaxApprovals,
    MaxAsks

ASSUME FocusAssumption ==
    Focus \subseteq {"publish", "media", "breaker", "daemon", "pairing", "workflow", "coordination",
                     "training", "edits", "snapshots", "pending", "entities", "brain", "clarify",
                     "maintenance"}

\* The breaker opens on at least one failure.
ASSUME ThresholdAssumption == Threshold \in Nat \ {0}
ASSUME WindowAssumption == Window \in Nat

\* What stands for the absence of a thing is none.
ASSUME NoneAssumption == NoRun \notin Run /\ NoRoom \notin Room /\ NoGuest \notin Guest

\* A token is the host's or a guest's.
ASSUME TokenAssumption == Room \cap Guest = {} /\ NoGuest \notin Room

\* A training run is no conversion.
ASSUME TrainingAssumption == Thread \cap Conversion = {}

\* No memory has the text that stands for its absence.
ASSUME TextAssumption == Text \cap {"absent", "deleted"} = {}

\* The requests that save snapshots of an agent are finitely many.
ASSUME WriterAssumption == IsFiniteSet(Writer) /\ Tries \in Nat \ {0}

\* An image goes to the default device if that is one of the devices.
ASSUME DeviceAssumption == Default \in Device \cup {NoDevice}

ASSUME AsksAssumption == MaxAsks \in Nat

VARIABLES
    focus,
    approval, token, issued, stage, confirming, confirms, crashes, prs, sealed, late, lost,
    redisUp, status, queue, api, pushing, held, client, worker, job, outages,
    circuit, circuitFailures, sinceFirst, sinceOpened, calling, serviceUp, streak,
    registered, daemonState, stopping, daemonFailures, loopAt, daemonCaller, told, overlapped,
    byCode, byToken, guest, idle, home, sockets, conns,
    deps, step, workflow, schedulerAt, ready, completed, undo, undone,
    mode, place, phase, crew, todo, said, ending, cancelled, row, bar, container, stop, untold,
    guard, current, task, runAt, shown, known, missed,
    memory, audit, begun, editor,
    owned, versions, saver,
    answering, queued, processed, memories, batch, hostFaults,
    extracted, entities, extraction,
    delivery, tasks, approvals, sent,
    asks, parked, handoffs,
    down, busUp, webhook, cooldown, bus, subscriber, poll, sinceRepair, quiet, faults

publishVars == <<approval, token, issued, stage, confirming, confirms, crashes, prs,
                 sealed, late, lost>>
mediaVars == <<redisUp, status, queue, api, pushing, held, client, worker, job, outages>>
breakerVars == <<circuit, circuitFailures, sinceFirst, sinceOpened, calling, serviceUp, streak>>
daemonVars == <<registered, daemonState, stopping, daemonFailures, loopAt, daemonCaller, told,
                overlapped>>
pairingVars == <<byCode, byToken, guest, idle, home, sockets, conns>>
workflowVars == <<deps, step, workflow, schedulerAt, ready, completed, undo, undone>>
coordinationVars == <<mode, place, phase, crew, todo, said, ending, cancelled, row, untold, bar,
                      container, stop>>
trainingVars == <<guard, current, task, runAt, shown, known, missed>>

editsVars == <<memory, audit, begun, editor>>
snapshotsVars == <<owned, versions, saver>>
pendingVars == <<answering, queued, processed, memories, batch, hostFaults>>
entitiesVars == <<extracted, entities, extraction>>
brainVars == <<delivery, tasks, approvals, sent>>
clarifyVars == <<asks, parked, handoffs>>
maintenanceVars == <<down, busUp, webhook, cooldown, bus, subscriber, poll, sinceRepair,
                     quiet, faults>>

runtimeVars == <<publishVars, mediaVars, breakerVars, daemonVars, pairingVars, workflowVars,
                 coordinationVars, trainingVars>>
satelliteVars == <<editsVars, snapshotsVars, pendingVars, entitiesVars, brainVars,
                   clarifyVars, maintenanceVars>>
vars == <<focus, runtimeVars, satelliteVars>>

Push == INSTANCE Publish

Jobs == INSTANCE MediaJobs WITH up <- redisUp

Breaker == INSTANCE CircuitBreaker WITH
    Caller <- Thread, state <- circuit, failures <- circuitFailures, up <- serviceUp

Daemon == INSTANCE DaemonRegistry WITH
    Caller <- Thread, Loop <- Thread, MaxFailures <- 2,
    state <- daemonState, failures <- daemonFailures, at <- loopAt, caller <- daemonCaller

Pairing == INSTANCE PairingRelay

Workflow == INSTANCE WorkflowEngine WITH
    Order <- <<"fetch", "process", "deploy">>, HasRollback <- {"fetch", "process"},
    MaxParallel <- 2, at <- schedulerAt

Coord == INSTANCE Coordination WITH at <- place

Train == INSTANCE TrainingRuns WITH Training <- Thread

Edits == INSTANCE MemoryEdits WITH Request <- Thread

Snapshots == INSTANCE SnapshotStore

Pending == INSTANCE PendingExtraction WITH
    Batch <- Thread, MaxOutages <- MaxHostFaults, outages <- hostFaults

Entities == INSTANCE EntityExtraction WITH
    Call <- Thread, table <- entities, call <- extraction

Brain == INSTANCE HomeBrain

Clarify == INSTANCE SwarmClarify

Repairs == INSTANCE Maintenance WITH
    Webhook <- Thread, Cooldown <- 1, RepairCooldown <- 2, MaxBus <- 2, MaxFaults <- 1,
    redisUp <- busUp

\* Bound: each switch of a coordination is seen on and off, not every combination.
Init ==
    /\ focus \in Focus
    /\ Push!Init /\ Jobs!Init /\ Breaker!Init /\ Daemon!Init /\ Pairing!Init /\ Workflow!Init
    /\ Coord!Init /\ Train!Init
    /\ Edits!Init /\ Snapshots!Init /\ Pending!Init /\ Entities!Init
    /\ Brain!Init /\ Clarify!Init /\ Repairs!Init
    /\ focus # "snapshots" => owned
    /\ focus # "workflow" => deps = [s \in Workflow!Step |-> {}]
    /\ mode \in {{"gauntlet"}, {"sandbox", "harness", "chat"}}
    /\ focus # "coordination" => mode = {"gauntlet"} /\ row = "none"

Only(service) == focus = service /\ UNCHANGED focus

PublishOnly ==
    /\ Only("publish")
    /\ UNCHANGED <<mediaVars, breakerVars, daemonVars, pairingVars,
                   workflowVars, coordinationVars, trainingVars, satelliteVars>>
MediaOnly ==
    /\ Only("media")
    /\ UNCHANGED <<publishVars, breakerVars, daemonVars, pairingVars,
                   workflowVars, coordinationVars, trainingVars, satelliteVars>>
BreakerOnly ==
    /\ Only("breaker")
    /\ UNCHANGED <<publishVars, mediaVars, daemonVars, pairingVars,
                   workflowVars, coordinationVars, trainingVars, satelliteVars>>
DaemonOnly ==
    /\ Only("daemon")
    /\ UNCHANGED <<publishVars, mediaVars, breakerVars, pairingVars,
                   workflowVars, coordinationVars, trainingVars, satelliteVars>>
PairingOnly ==
    /\ Only("pairing")
    /\ UNCHANGED <<publishVars, mediaVars, breakerVars, daemonVars,
                   workflowVars, coordinationVars, trainingVars, satelliteVars>>
WorkflowOnly ==
    /\ Only("workflow")
    /\ UNCHANGED <<publishVars, mediaVars, breakerVars, daemonVars,
                   pairingVars, coordinationVars, trainingVars, satelliteVars>>
CoordinationOnly ==
    /\ Only("coordination")
    /\ UNCHANGED <<publishVars, mediaVars, breakerVars, daemonVars,
                   pairingVars, workflowVars, trainingVars, satelliteVars>>
TrainingOnly ==
    /\ Only("training")
    /\ UNCHANGED <<publishVars, mediaVars, breakerVars, daemonVars,
                   pairingVars, workflowVars, coordinationVars, satelliteVars>>
EditsOnly ==
    /\ Only("edits")
    /\ UNCHANGED <<runtimeVars, snapshotsVars, pendingVars, entitiesVars, brainVars, clarifyVars,
                   maintenanceVars>>
SnapshotsOnly ==
    /\ Only("snapshots")
    /\ UNCHANGED <<runtimeVars, editsVars, pendingVars, entitiesVars, brainVars, clarifyVars,
                   maintenanceVars>>
PendingOnly ==
    /\ Only("pending")
    /\ UNCHANGED <<runtimeVars, editsVars, snapshotsVars, entitiesVars, brainVars, clarifyVars,
                   maintenanceVars>>
EntitiesOnly ==
    /\ Only("entities")
    /\ UNCHANGED <<runtimeVars, editsVars, snapshotsVars, pendingVars, brainVars, clarifyVars,
                   maintenanceVars>>
BrainOnly ==
    /\ Only("brain")
    /\ UNCHANGED <<runtimeVars, editsVars, snapshotsVars, pendingVars, entitiesVars, clarifyVars,
                   maintenanceVars>>
ClarifyOnly ==
    /\ Only("clarify")
    /\ UNCHANGED <<runtimeVars, editsVars, snapshotsVars, pendingVars, entitiesVars, brainVars,
                   maintenanceVars>>
MaintenanceOnly ==
    /\ Only("maintenance")
    /\ UNCHANGED <<runtimeVars, editsVars, snapshotsVars, pendingVars, entitiesVars, brainVars,
                   clarifyVars>>

Next ==
    \/ PublishOnly /\ Push!Next
    \/ MediaOnly /\ Jobs!Next
    \/ BreakerOnly /\ Breaker!Next
    \/ DaemonOnly /\ Daemon!Next
    \/ PairingOnly /\ Pairing!Next
    \/ WorkflowOnly /\ Workflow!Next
    \/ CoordinationOnly /\ Coord!Next
    \/ TrainingOnly /\ Train!Next
    \/ EditsOnly /\ Edits!Next
    \/ SnapshotsOnly /\ Snapshots!Next
    \/ PendingOnly /\ Pending!Next
    \/ EntitiesOnly /\ Entities!Next
    \/ BrainOnly /\ Brain!Next
    \/ ClarifyOnly /\ Clarify!Next
    \/ MaintenanceOnly /\ Repairs!Next

\* Threads are scheduled, calls and handlers return, the worker's container is started again; the
\* callers of the circuit keep calling, and time passes; a worker's agent returns; a training run
\* ends within its time budget; the batch of the memory service is called every night, and its
\* calls proceed; the steps of a delivery end, by a timeout if need be; the daemon's polling thread
\* runs, and time passes.
Fairness ==
    /\ WF_mediaVars(focus = "media" /\ Jobs!WorkerStep)
    /\ WF_mediaVars(focus = "media" /\ Jobs!Push)
    /\ WF_breakerVars(focus = "breaker" /\ Breaker!Tick)
    /\ WF_workflowVars(focus = "workflow" /\ Workflow!Scheduler)
    /\ WF_coordinationVars(focus = "coordination" /\ (Coord!Coordinator \/ Coord!Restart))
    /\ WF_coordinationVars(focus = "coordination" /\ \E i \in DOMAIN crew : Coord!Worker(i))
    /\ \A c \in Conversion : WF_trainingVars(focus = "training" /\ Train!Converts(c))
    /\ WF_maintenanceVars(focus = "maintenance" /\ (Repairs!PollCheck \/ Repairs!PolledRepair))
    /\ WF_maintenanceVars(focus = "maintenance" /\ Repairs!Tick)
    /\ \A t \in 1..MaxTasks :
        WF_brainVars(focus = "brain" /\ t \in DOMAIN tasks /\ Brain!TaskStep(t))
    /\ \A c \in Thread :
        /\ WF_pendingVars(focus = "pending" /\ (Pending!Select(c) \/ Pending!Call(c)))
        /\ WF_breakerVars(focus = "breaker" /\ Breaker!Allow(c))
        /\ WF_breakerVars(focus = "breaker" /\ Breaker!Ends(c))
        /\ WF_daemonVars(focus = "daemon" /\ Daemon!LoopStep(c))
        /\ WF_trainingVars(focus = "training" /\ Train!Proceeds(c))
    /\ \A s \in Workflow!Step :
        WF_workflowVars(focus = "workflow" /\ (Workflow!Begin(s) \/ Workflow!End(s)))

FairSpec == Init /\ [][Next]_vars /\ Fairness

-----------------------------------------------------------------------------
(* The properties of the services, by the names of their modules.            *)

\* Every service keeps to its types.  Services.cfg and Satellites.cfg leave it out; it holds there.
TypeOK ==
    /\ Push!TypeOK /\ Jobs!TypeOK /\ Breaker!TypeOK /\ Daemon!TypeOK /\ Pairing!TypeOK
    /\ Workflow!TypeOK /\ Coord!TypeOK /\ Train!TypeOK
    /\ Edits!TypeOK /\ Snapshots!TypeOK /\ Pending!TypeOK /\ Entities!TypeOK
    /\ Brain!TypeOK /\ Clarify!TypeOK /\ Repairs!TypeOK

\* Once a push has succeeded nothing from before it publishes again; what does is a new preview that
\* did not see the success.
NothingAfterSuccess == Push!NothingAfterSuccess

\* A run in the training queue has a record that says so, until the record expires.
QueuedIsStored == Jobs!QueuedIsStored

\* An accepted training run ends with a status, while nothing breaks down, or its record expires.
EveryRunEnds == Jobs!EveryRunEnds

\* The circuit opens only on a streak of failures within the window.
OpensOnlyOnStreak == Breaker!OpensOnlyOnStreak

\* The circuit closes for good when the service is up for good.
Recovers == Breaker!Recovers

\* A daemon that is said to be stopped comes to rest, unless two of its loops have run at once.
StopEndsLoops == Daemon!StopEndsLoops

\* The two tables of the pairing relay agree.
TablesAgree == Pairing!TablesAgree

\* A workflow ends, whatever its dependencies.
WorkflowEnds == focus = "workflow" ~> schedulerAt = "over"

\* The container of a coordination outlives the workers in it.
WorkersHaveContainer == Coord!WorkersHaveContainer

\* A run that was stopped or is over is shown so, unless it asked or answered, or the database lost
\* the write.
RowTrue == Coord!RowTrue

\* A coordination ends, unless it talks to a chat that nobody reads any more.
CoordinationEnds == focus = "coordination" ~> place \in {"over", "stalled"}

\* A guard that refuses new training runs belongs to a run that will reset it.
GuardHasOwner == Train!GuardHasOwner

\* The rows of the training runs are settled, unless the database lost a write.
RowsSettle == Train!RowsSettle

\* The memory service accounts for what it keeps: the audit trail for the text of a memory, but for
\* requests that overlapped, the versions for the snapshots, and the rows for the entities that a
\* call believes in.
MemoryAccounted == Edits!EditsAudited /\ Snapshots!SnapshotsKept /\ Entities!CacheIsTrue

\* A queued conversation is processed.
PendingDrained == Pending!PendingDrained

\* The voice assistant sends no image that was found not to match, a close match only when it is
\* approved, and hands an ask to the swarm once.
SentAsAgreed == Brain!WeakNeverSent /\ Clarify!HandedOnce

\* A promised delivery ends, and not silently.
DeliveryEnds == Brain!DeliveryEnds

\* A container that stays down is repaired again and again.
DownIsRepaired == Repairs!DownIsRepaired
-----------------------------------------------------------------------------
(* What the code or its documentation says and a run refutes: each of these  *)
(* is violated when it is the INVARIANT or PROPERTY of the cfg of its        *)
(* service.                                                                  *)

\* Three failures in a row open the circuit.
StreakOpens == Breaker!StreakOpens

\* A circuit on probation lets one call through at a time.
OneProbe == Breaker!OneProbe

\* A room has at most two participants.
TwoParticipants == Pairing!TwoParticipants

\* The peer's messages reach a participant with an open websocket.
ReachableWhileConnected == Pairing!ReachableWhileConnected

\* A daemon that is said to be stopped comes to rest, also after two of its loops have run at once.
StopAlwaysEndsLoops == Daemon!StopAlwaysEndsLoops

\* A daemon has one loop.
OneLoop == Daemon!OneLoop

\* After a failure everything that completed has been undone.
RollbackComplete == Workflow!RollbackComplete

\* A queued training run ends with a status whatever breaks down.
NoRunForgotten == Jobs!NoRunForgotten

\* A critic that says PASS does not send the run back to the user.
PassIsHeard == Coord!PassIsHeard

\* Workers that have returned are shown as ended.
WorkersSettled == Coord!WorkersSettled

\* A worker of a cancelled session commits no output.
CancelledCommitsNothing == Coord!CancelledCommitsNothing

\* A run that asked a question is not shown running.
AskedIsShown == Coord!AskedIsShown

\* One training run at a time.
OneTraining == Train!OneTraining

\* A cancelled training run stays failed.
CancelHolds == Train!CancelHolds

\* No row of a training run stays "running".
NoRowStuck == Train!NoRowStuck

\* The newest entry about the content of a memory has its text.
TrailShowsContent == Edits!TrailShowsContent

\* The newest entry of a memory's trail has its text.
TrailShowsText == Edits!TrailShowsText

\* The entries of a trail continue each other.
TrailIsChain == Edits!TrailIsChain

\* Snapshots have versions of their own.
OneRowPerVersion == Snapshots!OneRowPerVersion

\* A conversation is stored once.
StoredOnce == Pending!StoredOnce

\* A conversation that could not be extracted stays pending.
FailedStaysPending == Pending!FailedStaysPending

\* A call of the entity extraction believes only in rows, whatever failed.
CacheIsAlwaysTrue == Entities!CacheIsAlwaysTrue

\* An image from the Internet is sent only when its match was checked.
CheckedBeforeSent == Brain!CheckedBeforeSent

\* The device hears of each delivery.
DeviceHears == Brain!DeviceHears

\* An image goes to the device that it was made for.
SentWhereAsked == Brain!SentWhereAsked

\* A parked ask stays parked until it is answered or declined.
ParkedIsKept == Clarify!ParkedIsKept

\* The repairs of a container are spaced.
RepairsSpaced == Repairs!RepairsSpaced

\* One action is on the list for an outage.
OneAction == Repairs!OneAction
=============================================================================
