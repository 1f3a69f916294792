------------------------------ MODULE GpuMutex ------------------------------
(***************************************************************************)
(* request_lock (agents/utils/gpu_queue.py): the GPU mutex with its three   *)
(* tiers.  Tier 1 is a Redis key with a TTL and a zone switch under the     *)
(* in-process semaphore; Tier 2, when the first ping fails, is the lease    *)
(* of the lock server (agents/utils/peer_lock.py, agents/api/gpu_lock.py);  *)
(* Tier 3 is the semaphore alone.  One action is one call to Redis, to the  *)
(* lock server or to a GPU backend, or one semaphore operation.             *)
(*                                                                         *)
(* A workload may itself call request_lock (handlers/media.py around        *)
(* specialized/image_gen.py): such an inner request has a Parent.           *)
(*                                                                         *)
(* Two others touch VRAM without any of the locks: a coordination that      *)
(* prepares the zone for text (coordination/orchestrator.py), and the 3D    *)
(* routes of agents/main.py, which send ComfyUI a workflow.  Ollama is left *)
(* out of VRAM: most of its callers take no lock.                           *)
(***************************************************************************)
EXTENDS Naturals

CONSTANTS
    Req,          \* calls of request_lock
    NoReq,        \* no request
    Coord,        \* coordinations
    Host,         \* agent_runtime processes
    HostOf,       \* the process of a request or coordination
    ServerHost,   \* the process that hosts the lock server
    ContextOf,    \* the context a request asks for
    Parent,       \* the request whose workload makes the call, or NoReq
    MaxCrashes,   \* bound: restarts of a process
    Outages,      \* whether Redis and the lock server may become unreachable
    Unlocked      \* bound: whether the 3D routes are used

Context == {"text", "image", "image_fast", "training"}
Backend == {"comfyui", "klein"}

ASSUME RequestAssumption ==
    /\ NoReq \notin Req
    /\ HostOf \in [Req \cup Coord -> Host]
    /\ ServerHost \in Host
    /\ ContextOf \in [Req -> Context]
    /\ Parent \in [Req -> Req \cup {NoReq}]

ASSUME LimitAssumption == MaxCrashes \in Nat /\ Outages \in BOOLEAN /\ Unlocked \in BOOLEAN

VARIABLES
    redisUp,    \* Redis answers
    key,        \* Redis: LOCK_KEY, the request whose lock_id it holds
    zone,       \* Redis: ZONE_KEY, "none" before the first switch
    serverUp,   \* the lock server answers
    lease,      \* lock server: _state.lock_id
    expired,    \* lock server: _state is past its ttl
    permits,    \* memory of each process: _INPROC_GPU_LOCK
    loaded,     \* image backends with their models in VRAM
    pc,         \* the next step of a request
    prep,       \* the next step of the zone preparation of a coordination
    crashes,    \* restarts so far
    overrun,    \* history: LOCK_KEY expired under a request that still relied on it
    revoked,    \* history: the lease was lost under a request that still relied on it
    spoiled     \* history: the zone key stopped telling what VRAM holds

redisVars == <<redisUp, key, zone>>
serverVars == <<serverUp, lease, expired>>
historyVars == <<overrun, revoked, spoiled>>
vars == <<redisVars, serverVars, permits, loaded, pc, prep, crashes, historyVars>>

\* Between the SET of LOCK_KEY and the end of the workload.
KeyPC == {"sem", "zone", "evict", "warm", "set_zone", "yield", "work"}
\* Holding the in-process semaphore.
SwitchPC == {"zone", "evict", "warm", "set_zone"}
DegradedPC == {"peer_work", "local_work"}
\* Told by the lock server that the lease is theirs.
LeasePC == {"peer_sem", "peer_work", "peer_rel"}
WorkPC == {"work", "peer_work", "local_work"}
PC == {"idle", "spin", "rel_get", "rel_del", "peer_first", "peer", "local", "done"}
        \cup KeyPC \cup LeasePC \cup DegradedPC

Init ==
    /\ redisUp = TRUE /\ key = NoReq /\ zone = "none"
    /\ serverUp = TRUE /\ lease = NoReq /\ expired = FALSE
    /\ permits = [h \in Host |-> 1]
    /\ loaded = {}
    /\ pc = [r \in Req |-> "idle"]
    /\ prep = [c \in Coord |-> "idle"]
    /\ crashes = 0
    /\ overrun = FALSE /\ revoked = FALSE /\ spoiled = FALSE

Goto(r, label) == pc' = [pc EXCEPT ![r] = label]

\* Mutation of TakePermit: acquire(blocking=False), with its answer ignored.
TakePermitNonblocking(r) ==
    permits' = [permits EXCEPT ![HostOf[r]] = IF @ > 0 THEN @ - 1 ELSE 0]

\* Semaphore(1).acquire and release, around the step that enters and the step that leaves.
TakePermit(r) ==
    /\ permits[HostOf[r]] > 0
    /\ permits' = [permits EXCEPT ![HostOf[r]] = @ - 1]

GivePermit(r) == permits' = [permits EXCEPT ![HostOf[r]] = @ + 1]

\* _run_zone_switch: what it evicts, what it warms up, and what a workload then loads.
Evicts(context) ==
    CASE context \in {"text", "training"} -> Backend
      [] context = "image" -> {"comfyui"}
      [] context = "image_fast" -> {"klein"}
Uses(context) ==
    CASE context \in {"text", "training"} -> {}
      [] context = "image" -> Backend
      [] context = "image_fast" -> {"comfyui"}

\* Evictions are best effort: a backend that is unreachable, slow or behind an open
\* circuit keeps its models.
MayKeep(context) == SUBSET (loaded \cap Evicts(context))

\* A workload loads some of its backends.
Load(r) == \E used \in SUBSET Uses(ContextOf[r]) : loaded' = loaded \cup used

----------------------------------------------------------------------------
(* request_lock: the ping that chooses the tier.                            *)

Start(r) ==
    /\ pc[r] = "idle"
    /\ Parent[r] # NoReq => pc[Parent[r]] \in WorkPC
    /\ Goto(r, IF redisUp THEN "spin" ELSE "peer_first")
    /\ UNCHANGED <<redisVars, serverVars, permits, loaded, prep, crashes, historyVars>>

(* Tier 1.                                                                  *)

\* Mutation of TryKey: SET without NX.
TryKeyAlways(r) ==
    /\ pc[r] = "spin"
    /\ IF redisUp THEN key' = r /\ Goto(r, "sem") ELSE Goto(r, "done") /\ UNCHANGED key
    /\ UNCHANGED <<redisUp, zone, serverVars, permits, loaded, prep, crashes, historyVars>>

\* SET key id NX EX ttl, until it succeeds; a Redis error ends the request.
TryKey(r) ==
    /\ pc[r] = "spin"
    /\ redisUp => key = NoReq
    /\ IF redisUp THEN key' = r /\ Goto(r, "sem") ELSE Goto(r, "done") /\ UNCHANGED key
    /\ UNCHANGED <<redisUp, zone, serverVars, permits, loaded, prep, crashes, historyVars>>

\* Redis sets the key and the answer is lost: the request fails without a release.
TryKeyLost(r) ==
    /\ Outages /\ pc[r] = "spin" /\ redisUp /\ key = NoReq
    /\ key' = r
    /\ Goto(r, "done")
    /\ UNCHANGED <<redisUp, zone, serverVars, permits, loaded, prep, crashes, historyVars>>

\* TimeoutError.
SpinTimeout(r) ==
    /\ pc[r] = "spin"
    /\ Goto(r, "done")
    /\ UNCHANGED <<redisVars, serverVars, permits, loaded, prep, crashes, historyVars>>

EnterSwitch(r) ==
    /\ pc[r] = "sem"
    /\ TakePermit(r)
    /\ Goto(r, "zone")
    /\ spoiled' = (spoiled \/ \E c \in Coord : prep[c] = "set")
    /\ UNCHANGED <<redisVars, serverVars, loaded, prep, crashes, overrun, revoked>>

\* Mutation of ReadZone: any recorded zone passes for the one that is asked for.
ReadAnyZone(r) ==
    /\ pc[r] = "zone"
    /\ IF redisUp
       THEN Goto(r, IF zone # "none" THEN "set_zone" ELSE "evict") /\ UNCHANGED permits
       ELSE Goto(r, "rel_get") /\ GivePermit(r)
    /\ UNCHANGED <<redisVars, serverVars, loaded, prep, crashes, historyVars>>

\* GET ZONE_KEY; a Redis error leaves through the release.
ReadZone(r) ==
    /\ pc[r] = "zone"
    /\ IF redisUp
       THEN /\ Goto(r, IF zone = ContextOf[r] THEN "set_zone" ELSE "evict")
            /\ UNCHANGED permits
       ELSE Goto(r, "rel_get") /\ GivePermit(r)
    /\ UNCHANGED <<redisVars, serverVars, loaded, prep, crashes, historyVars>>

Evict(r) ==
    /\ pc[r] = "evict"
    /\ \E kept \in MayKeep(ContextOf[r]) :
          /\ loaded' = (loaded \ Evicts(ContextOf[r])) \cup kept
          /\ spoiled' = (spoiled \/ kept # {})
    /\ Goto(r, IF ContextOf[r] = "image" THEN "warm" ELSE "set_zone")
    /\ UNCHANGED <<redisVars, serverVars, permits, prep, crashes, overrun, revoked>>

\* warmup_klein succeeds or gives up after its retry.
Warm(r) ==
    /\ pc[r] = "warm"
    /\ loaded' \in {loaded, loaded \cup {"klein"}}
    /\ Goto(r, "set_zone")
    /\ UNCHANGED <<redisVars, serverVars, permits, prep, crashes, historyVars>>

\* The zone key no longer covers a Klein that was warmed up for a switch that does not finish.
Unfinished(r) == pc[r] = "set_zone" /\ ContextOf[r] = "image" /\ zone # "image"

\* Mutation of SetZone: the semaphore is not released before the workload.
SetZoneKeepsPermit(r) ==
    /\ pc[r] = "set_zone"
    /\ zone' = IF redisUp THEN ContextOf[r] ELSE zone
    /\ Goto(r, IF redisUp THEN "yield" ELSE "rel_get")
    /\ spoiled' = (spoiled \/ (~redisUp /\ Unfinished(r)))
    /\ UNCHANGED <<redisUp, key, serverVars, permits, loaded, prep, crashes, overrun, revoked>>

\* SET ZONE_KEY and leave the semaphore; a Redis error leaves the zone as it was.
SetZone(r) ==
    /\ pc[r] = "set_zone"
    /\ zone' = IF redisUp THEN ContextOf[r] ELSE zone
    /\ Goto(r, IF redisUp THEN "yield" ELSE "rel_get")
    /\ GivePermit(r)
    /\ spoiled' = (spoiled \/ (~redisUp /\ Unfinished(r)))
    /\ UNCHANGED <<redisUp, key, serverVars, loaded, prep, crashes, overrun, revoked>>

BeginWork(r) ==
    /\ pc[r] = "yield"
    /\ Load(r)
    /\ Goto(r, "work")
    /\ UNCHANGED <<redisVars, serverVars, permits, prep, crashes, historyVars>>

\* The calls the workload makes itself are over.
ChildrenOver(r) == \A c \in Req : Parent[c] = r => pc[c] \in {"idle", "done"}

EndWork(r) ==
    /\ pc[r] = "work" /\ ChildrenOver(r)
    /\ Goto(r, "rel_get")
    /\ UNCHANGED <<redisVars, serverVars, permits, loaded, prep, crashes, historyVars>>

\* GET LOCK_KEY; an error or another holder leaves the key alone.
ReleaseRead(r) ==
    /\ pc[r] = "rel_get"
    /\ Goto(r, IF redisUp /\ key = r THEN "rel_del" ELSE "done")
    /\ UNCHANGED <<redisVars, serverVars, permits, loaded, prep, crashes, historyVars>>

\* DELETE LOCK_KEY, whoever holds it by then.
ReleaseDelete(r) ==
    /\ pc[r] = "rel_del"
    /\ key' = IF redisUp THEN NoReq ELSE key
    /\ Goto(r, "done")
    /\ UNCHANGED <<redisUp, zone, serverVars, permits, loaded, prep, crashes, historyVars>>

KeyStep(r) ==
    \/ TryKey(r) \/ EnterSwitch(r) \/ ReadZone(r) \/ Evict(r) \/ Warm(r) \/ SetZone(r)
    \/ BeginWork(r) \/ ReleaseRead(r) \/ ReleaseDelete(r)

----------------------------------------------------------------------------
(* Tier 2.                                                                  *)

LeaseFree == lease = NoReq \/ expired

\* POST /acquire, at the server.
GrantLease(r) == lease' = r /\ expired' = FALSE

\* Mutation of PeerAcquire: the server grants a lease that is held.
PeerAcquireAlways(r) ==
    /\ pc[r] \in {"peer_first", "peer"}
    /\ IF ~serverUp THEN Goto(r, "local") /\ UNCHANGED <<lease, expired>>
       ELSE Goto(r, "peer_sem") /\ GrantLease(r)
    /\ UNCHANGED <<redisVars, serverUp, permits, loaded, prep, crashes, historyVars>>

\* Granted, held by another request (poll again), or unreachable.
PeerAcquire(r) ==
    /\ pc[r] \in {"peer_first", "peer"}
    /\ IF ~serverUp THEN Goto(r, "local") /\ UNCHANGED <<lease, expired>>
       ELSE IF LeaseFree THEN Goto(r, "peer_sem") /\ GrantLease(r)
       ELSE pc[r] = "peer_first" /\ Goto(r, "peer") /\ UNCHANGED <<lease, expired>>
    /\ UNCHANGED <<redisVars, serverUp, permits, loaded, prep, crashes, historyVars>>

\* The server grants the lease and the answer is lost (a read timeout): the first call
\* falls back to Tier 3, a later one fails the request.  The lease stays until its ttl.
PeerAnswerLost(r) ==
    /\ Outages /\ serverUp /\ LeaseFree
    /\ pc[r] \in {"peer_first", "peer"}
    /\ GrantLease(r)
    /\ Goto(r, IF pc[r] = "peer_first" THEN "local" ELSE "done")
    /\ UNCHANGED <<redisVars, serverUp, permits, loaded, prep, crashes, historyVars>>

\* PeerLockTimeoutError: Tier 3.
PeerTimeout(r) ==
    /\ pc[r] = "peer"
    /\ Goto(r, "local")
    /\ UNCHANGED <<redisVars, serverVars, permits, loaded, prep, crashes, historyVars>>

\* Tiers 2 and 3 run the workload under the semaphore and without a zone switch.
EnterDegraded(r) ==
    /\ pc[r] \in {"peer_sem", "local"}
    /\ TakePermit(r)
    /\ Load(r)
    /\ Goto(r, IF pc[r] = "peer_sem" THEN "peer_work" ELSE "local_work")
    /\ spoiled' = TRUE
    /\ UNCHANGED <<redisVars, serverVars, prep, crashes, overrun, revoked>>

EndDegraded(r) ==
    /\ pc[r] \in DegradedPC /\ ChildrenOver(r)
    /\ GivePermit(r)
    /\ Goto(r, IF pc[r] = "peer_work" THEN "peer_rel" ELSE "done")
    /\ UNCHANGED <<redisVars, serverVars, loaded, prep, crashes, historyVars>>

\* Mutation of ReleaseAccepted: the server does not compare the lock_id.
ReleaseAlwaysAccepted(r) == TRUE

\* POST /release: refused to all but the holder of a running lease.
ReleaseAccepted(r) == LeaseFree \/ lease = r

PeerRelease(r) ==
    /\ pc[r] = "peer_rel"
    /\ IF serverUp /\ ReleaseAccepted(r)
       THEN lease' = NoReq /\ expired' = FALSE
       ELSE UNCHANGED <<lease, expired>>
    /\ Goto(r, "done")
    /\ UNCHANGED <<redisVars, serverUp, permits, loaded, prep, crashes, historyVars>>

PeerStep(r) == PeerAcquire(r) \/ EnterDegraded(r) \/ PeerRelease(r)

----------------------------------------------------------------------------
(* Without a lock.                                                          *)

\* A Tier 1 request is switching the zone or working in it.
ZoneInUse == \E r \in Req : pc[r] \in SwitchPC \cup {"yield", "work"}

PrepGoto(c, label) == prep' = [prep EXCEPT ![c] = label]

\* GET ZONE_KEY; there is nothing to do in the text zone, and an error skips the preparation.
PrepRead(c) ==
    /\ prep[c] = "idle"
    /\ PrepGoto(c, IF redisUp /\ zone \notin {"none", "text"} THEN "evict" ELSE "done")
    /\ UNCHANGED <<redisVars, serverVars, permits, loaded, pc, crashes, historyVars>>

PrepEvict(c) ==
    /\ prep[c] = "evict"
    /\ loaded' \in MayKeep("text")
    /\ spoiled' = (spoiled \/ loaded' # {} \/ ZoneInUse)
    /\ PrepGoto(c, "set")
    /\ UNCHANGED <<redisVars, serverVars, permits, pc, crashes, overrun, revoked>>

\* SET ZONE_KEY, whatever it says by now.
PrepSet(c) ==
    /\ prep[c] = "set"
    /\ zone' = IF redisUp THEN "text" ELSE zone
    /\ PrepGoto(c, "done")
    /\ UNCHANGED <<redisUp, key, serverVars, permits, loaded, pc, crashes, historyVars>>

Prepare(c) == PrepRead(c) \/ PrepEvict(c) \/ PrepSet(c)

\* generate_3d_model, called by the routes: ComfyUI loads what the workflow names.
UnlockedLoad ==
    /\ Unlocked
    /\ loaded' = loaded \cup {"comfyui"}
    /\ spoiled' = TRUE
    /\ UNCHANGED <<redisVars, serverVars, permits, pc, prep, crashes, overrun, revoked>>

----------------------------------------------------------------------------
(* Surroundings.                                                            *)

\* Mutation of KeyExpires: SET without EX.
KeyNeverExpires == FALSE /\ UNCHANGED vars

\* The EX of LOCK_KEY runs out; it matters if its holder still relies on it.
KeyExpires ==
    /\ key # NoReq
    /\ key' = NoReq
    /\ overrun' = (overrun \/ pc[key] \in KeyPC \cup {"rel_del"})
    /\ UNCHANGED <<redisUp, zone, serverVars, permits, loaded, pc, prep, crashes>>
    /\ UNCHANGED <<revoked, spoiled>>

\* The ttl of the lease runs out: the server evicts it at the next request.
LeaseExpires ==
    /\ lease # NoReq /\ ~expired
    /\ expired' = TRUE
    /\ revoked' = (revoked \/ pc[lease] \in LeasePC)
    /\ UNCHANGED <<redisVars, serverUp, lease, permits, loaded, pc, prep, crashes>>
    /\ UNCHANGED <<overrun, spoiled>>

\* POST /clear, by an operator.
LeaseCleared ==
    /\ serverUp /\ lease # NoReq
    /\ lease' = NoReq /\ expired' = FALSE
    /\ revoked' = (revoked \/ (~expired /\ pc[lease] \in LeasePC))
    /\ UNCHANGED <<redisVars, serverUp, permits, loaded, pc, prep, crashes, overrun, spoiled>>

RedisToggles ==
    /\ Outages
    /\ redisUp' = ~redisUp
    /\ UNCHANGED <<key, zone, serverVars, permits, loaded, pc, prep, crashes, historyVars>>

ServerToggles ==
    /\ Outages
    /\ serverUp' = ~serverUp
    /\ UNCHANGED <<redisVars, lease, expired, permits, loaded, pc, prep, crashes, historyVars>>

\* A process restarts: its requests, its coordinations and its semaphore are gone, and the
\* lease with them if it is the lock server's process.
Crash(h) ==
    /\ crashes < MaxCrashes
    /\ crashes' = crashes + 1
    /\ pc' = [r \in Req |-> IF HostOf[r] = h /\ pc[r] # "idle" THEN "done" ELSE pc[r]]
    /\ prep' = [c \in Coord |-> IF HostOf[c] = h /\ prep[c] # "idle" THEN "done" ELSE prep[c]]
    /\ permits' = [permits EXCEPT ![h] = 1]
    /\ IF h = ServerHost
       THEN /\ lease' = NoReq /\ expired' = FALSE
            /\ revoked' = (revoked \/ (lease # NoReq /\ ~expired /\ pc'[lease] \in LeasePC))
       ELSE UNCHANGED <<lease, expired, revoked>>
    /\ spoiled' = (spoiled \/ \E r \in Req : HostOf[r] = h /\ Unfinished(r))
    /\ UNCHANGED <<redisVars, serverUp, loaded, overrun>>

Next ==
    \/ \E r \in Req :
          \/ Start(r) \/ KeyStep(r) \/ TryKeyLost(r) \/ SpinTimeout(r) \/ EndWork(r)
          \/ PeerStep(r) \/ PeerAnswerLost(r) \/ PeerTimeout(r) \/ EndDegraded(r)
    \/ \E c \in Coord : Prepare(c)
    \/ UnlockedLoad
    \/ KeyExpires \/ LeaseExpires \/ LeaseCleared
    \/ RedisToggles \/ ServerToggles
    \/ \E h \in Host : Crash(h)

Spec == Init /\ [][Next]_vars

\* A request that can go on does, and locks expire.  A workload may never return.
Fairness ==
    /\ \A r \in Req : WF_vars(KeyStep(r) \/ PeerStep(r))
    /\ WF_vars(KeyExpires) /\ WF_vars(LeaseExpires)

FairSpec == Spec /\ Fairness

\* Every workload returns once the requests it makes itself have returned.
WorkEnds == \A r \in Req : WF_vars(EndWork(r) \/ EndDegraded(r))

----------------------------------------------------------------------------
(* Properties.                                                              *)

\* Every variable has its type.
TypeOK ==
    /\ redisUp \in BOOLEAN /\ serverUp \in BOOLEAN /\ expired \in BOOLEAN
    /\ key \in Req \cup {NoReq} /\ lease \in Req \cup {NoReq}
    /\ zone \in Context \cup {"none"}
    /\ permits \in [Host -> 0..1]
    /\ loaded \subseteq Backend
    /\ pc \in [Req -> PC]
    /\ prep \in [Coord -> {"idle", "evict", "set", "done"}]
    /\ crashes \in 0..MaxCrashes
    /\ overrun \in BOOLEAN /\ revoked \in BOOLEAN /\ spoiled \in BOOLEAN

\* Unless LOCK_KEY expired under a request that still relied on it, at most one Tier 1
\* request of all processes is between its SET and the end of its workload: outages of
\* Redis, lost answers, restarts and nested requests do not break the cluster mutex.
OneKeyHolder ==
    ~overrun => \A q, r \in Req : pc[q] \in KeyPC /\ pc[r] \in KeyPC => q = r

\* request_lock: the semaphore "guarantees a single agent_runtime process never runs two
\* zone-switches concurrently - even when Redis is unavailable", and no two degraded
\* workloads, nor one beside a switch, even after a lock expired under its holder.
OneSwitchPerProcess ==
    \A q, r \in Req :
        /\ HostOf[q] = HostOf[r]
        /\ pc[q] \in SwitchPC \cup DegradedPC
        /\ pc[r] \in SwitchPC \cup DegradedPC
        => q = r

\* The cached zone is never stale: a Tier 1 workload never runs beside the image models of
\* another zone, however requests and the preparations of coordinations, which write the zone
\* without a lock, follow each other.  Left out are an eviction that failed, a warm-up cut off
\* before the zone was recorded, a workload without a switch (degraded, or a 3D route), a lock
\* that expired in use, and a preparation that overlapped a switch or its workload.
ZoneIsTrue ==
    ~overrun /\ ~spoiled =>
        \A r \in Req : pc[r] = "work" => loaded \subseteq Uses(ContextOf[r])

\* gpu_queue.py, on ZONE_KEY: "Track whether VRAM is currently dedicated to "text", "image", or
\* "training"", as the requests that hold LOCK_KEY may believe.
ZoneOfHolder == ~overrun => \A r \in Req : pc[r] = "work" => zone = ContextOf[r]

\* gpu_queue.py, on _INPROC_GPU_LOCK: "a single agent_runtime process must not run two GPU-heavy
\* workloads concurrently ... The semaphore guarantees at most one zone-switch + workload runs
\* at a time per process".
OneWorkloadPerProcess ==
    \A q, r \in Req :
        HostOf[q] = HostOf[r] /\ pc[q] \in WorkPC /\ pc[r] \in WorkPC => q = r

\* The lock server implements the lease, as the requests that use it see it.
PeerLease ==
    INSTANCE GpuLease WITH
        Client <- Req, NoClient <- NoReq,
        holder <- IF expired THEN NoReq ELSE lease,
        users <- {r \in Req : pc[r] \in LeasePC},
        failures <- crashes
LeaseSpec == PeerLease!Spec

\* As long as no lease was lost in use, at most one request of all processes works under
\* it, lost answers, late releases and unreachable servers notwithstanding.
LeaseExclusive == PeerLease!Exclusive

\* A workload that never returns wedges no zone switch: a request waits for the semaphore
\* forever only behind a degraded workload of its own process.
SwitchNotWedged ==
    \A r \in Req :
        pc[r] = "sem" ~>
            \/ pc[r] # "sem"
            \/ \E q \in Req : HostOf[q] = HostOf[r] /\ pc[q] \in DegradedPC

\* Nor does it block the mutex: a request that spins on LOCK_KEY or polls the lock
\* server gets on, at the latest when the lock of the stalled holder expires.
WaiterGetsOn ==
    \A r \in Req : pc[r] \in {"spin", "peer"} ~> pc[r] \notin {"spin", "peer"}

\* image_gen.py, on the lock of generate_image: "When Redis is down it's a no-op
\* (fail-open)".  So a request in Tier 3 goes on once the other workloads have ended.
FailsOpen ==
    WorkEnds => \A r \in Req : pc[r] = "local" ~> pc[r] # "local"
=============================================================================
