-------------------------- MODULE GpuMutexProofs --------------------------
(***************************************************************************)
(* Theorems about GpuMutex, for any requests, processes, nesting of         *)
(* requests, contexts and bounds: its type, mutual exclusion on the Redis   *)
(* key and on the in-process semaphore, the refinement of GpuLease by the   *)
(* lock server, and the truth of the zone key.                              *)
(***************************************************************************)
EXTENDS GpuMutex, TLAPS

(***************************************************************************)
(* Lemmas on the helpers.                                                   *)
(***************************************************************************)

\* The semaphore has one permit: taking it leaves none for the process,
LEMMA Taken ==
    ASSUME permits \in [Host -> 0..1], NEW r \in Req, TakePermit(r)
    PROVE  /\ permits' \in [Host -> 0..1]
           /\ permits[HostOf[r]] = 1 /\ permits'[HostOf[r]] = 0
           /\ \A h \in Host : h # HostOf[r] => permits'[h] = permits[h]
BY RequestAssumption DEF TakePermit

\* and giving it back when it is taken leaves one.
LEMMA Given ==
    ASSUME permits \in [Host -> 0..1], NEW r \in Req, permits[HostOf[r]] = 0, GivePermit(r)
    PROVE  /\ permits' \in [Host -> 0..1]
           /\ permits'[HostOf[r]] = 1
           /\ \A h \in Host : h # HostOf[r] => permits'[h] = permits[h]
BY RequestAssumption DEF GivePermit

\* A workload loads backends.
LEMMA LoadType ==
    ASSUME loaded \subseteq Backend, NEW r \in Req, Load(r)
    PROVE  loaded' \subseteq Backend
<1>1. Uses(ContextOf[r]) \subseteq Backend
  <2>1. ContextOf[r] \in Context  BY RequestAssumption
  <2>. QED  BY <2>1 DEF Uses, Context, Backend
<1>2. PICK used \in SUBSET Uses(ContextOf[r]) : loaded' = loaded \cup used  BY DEF Load
<1>. QED  BY <1>1, <1>2

----------------------------------------------------------------------------
(* The inductive invariant.                                                 *)

\* At most one request of a process holds the semaphore, and then no permit is left.
\* Nothing in it depends on Redis, the lock server or the locks they keep.
Semaphore ==
    /\ \A q \in Req : pc[q] \in SwitchPC \cup DegradedPC => permits[HostOf[q]] = 0
    /\ OneSwitchPerProcess

\* A Tier 1 request between its SET and its DELETE owns the key.
KeyOwned ==
    ~overrun => \A q \in Req : pc[q] \in KeyPC \cup {"rel_del"} => key = q

IInv == TypeOK /\ Semaphore /\ KeyOwned

\* The invariant gives mutual exclusion on the key.
LEMMA KeyOwnedExcludes == KeyOwned => OneKeyHolder
BY DEF KeyOwned, OneKeyHolder

\* The steps of Tier 1.
LEMMA TierOneKeeps ==
    ASSUME IInv, NEW r \in Req,
           KeyStep(r) \/ TryKeyLost(r) \/ SpinTimeout(r) \/ EndWork(r)
    PROVE  IInv'
<1> USE RequestAssumption DEF IInv, TypeOK, Goto, PC, KeyPC, SwitchPC, DegradedPC, LeasePC,
        redisVars, serverVars, historyVars
<1>1. CASE TryKey(r)
  <2>1. TypeOK'  BY <1>1 DEF TryKey, TypeOK
  <2>2. Semaphore'  BY <1>1 DEF TryKey, Semaphore, OneSwitchPerProcess
  <2>3. KeyOwned'  BY <1>1 DEF TryKey, KeyOwned
  <2>. QED  BY <2>1, <2>2, <2>3
<1>2. CASE TryKeyLost(r)
  <2>1. TypeOK'  BY <1>2 DEF TryKeyLost, TypeOK
  <2>2. Semaphore'  BY <1>2 DEF TryKeyLost, Semaphore, OneSwitchPerProcess
  <2>3. KeyOwned'  BY <1>2 DEF TryKeyLost, KeyOwned
  <2>. QED  BY <2>1, <2>2, <2>3
<1>3. CASE SpinTimeout(r)
  <2>1. TypeOK'  BY <1>3 DEF SpinTimeout, TypeOK
  <2>2. Semaphore'  BY <1>3 DEF SpinTimeout, Semaphore, OneSwitchPerProcess
  <2>3. KeyOwned'  BY <1>3 DEF SpinTimeout, KeyOwned
  <2>. QED  BY <2>1, <2>2, <2>3
<1>4. CASE EnterSwitch(r)
  <2>0. TakePermit(r)  BY <1>4 DEF EnterSwitch
  <2>1. TypeOK'  BY <1>4, <2>0, Taken DEF EnterSwitch, TypeOK
  <2>2. Semaphore'  BY <1>4, <2>0, Taken DEF EnterSwitch, Semaphore, OneSwitchPerProcess
  <2>3. KeyOwned'  BY <1>4 DEF EnterSwitch, KeyOwned
  <2>. QED  BY <2>1, <2>2, <2>3
<1>5. CASE ReadZone(r)
  <2>0. permits[HostOf[r]] = 0 /\ (GivePermit(r) \/ UNCHANGED permits)  BY <1>5 DEF ReadZone, Semaphore
  <2>1. TypeOK'  BY <1>5, <2>0, Given DEF ReadZone, TypeOK
  <2>2. Semaphore'  BY <1>5, <2>0, Given DEF ReadZone, Semaphore, OneSwitchPerProcess
  <2>3. KeyOwned'  BY <1>5 DEF ReadZone, KeyOwned
  <2>. QED  BY <2>1, <2>2, <2>3
<1>6. CASE Evict(r)
  <2>1. TypeOK'
    <3>1. loaded' \subseteq Backend  BY <1>6 DEF Evict, MayKeep
    <3>. QED  BY <1>6, <3>1 DEF Evict, TypeOK
  <2>2. Semaphore'  BY <1>6 DEF Evict, Semaphore, OneSwitchPerProcess
  <2>3. KeyOwned'  BY <1>6 DEF Evict, KeyOwned
  <2>. QED  BY <2>1, <2>2, <2>3
<1>7. CASE Warm(r)
  <2>1. TypeOK'  BY <1>7 DEF Warm, Backend, TypeOK
  <2>2. Semaphore'  BY <1>7 DEF Warm, Semaphore, OneSwitchPerProcess
  <2>3. KeyOwned'  BY <1>7 DEF Warm, KeyOwned
  <2>. QED  BY <2>1, <2>2, <2>3
<1>8. CASE SetZone(r)
  <2>0. permits[HostOf[r]] = 0 /\ GivePermit(r)  BY <1>8 DEF SetZone, Semaphore
  <2>1. TypeOK'  BY <1>8, <2>0, Given DEF SetZone, Context, TypeOK
  <2>2. Semaphore'  BY <1>8, <2>0, Given DEF SetZone, Semaphore, OneSwitchPerProcess
  <2>3. KeyOwned'  BY <1>8 DEF SetZone, KeyOwned
  <2>. QED  BY <2>1, <2>2, <2>3
<1>9. CASE BeginWork(r)
  <2>1. TypeOK'  BY <1>9, LoadType DEF BeginWork, TypeOK
  <2>2. Semaphore'  BY <1>9, LoadType DEF BeginWork, Semaphore, OneSwitchPerProcess
  <2>3. KeyOwned'  BY <1>9 DEF BeginWork, KeyOwned
  <2>. QED  BY <2>1, <2>2, <2>3
<1>10. CASE EndWork(r)
  <2>1. TypeOK'  BY <1>10 DEF EndWork, TypeOK
  <2>2. Semaphore'  BY <1>10 DEF EndWork, Semaphore, OneSwitchPerProcess
  <2>3. KeyOwned'  BY <1>10 DEF EndWork, KeyOwned
  <2>. QED  BY <2>1, <2>2, <2>3
<1>11. CASE ReleaseRead(r)
  <2>1. TypeOK'  BY <1>11 DEF ReleaseRead, TypeOK
  <2>2. Semaphore'  BY <1>11 DEF ReleaseRead, Semaphore, OneSwitchPerProcess
  <2>3. KeyOwned'  BY <1>11 DEF ReleaseRead, KeyOwned
  <2>. QED  BY <2>1, <2>2, <2>3
<1>12. CASE ReleaseDelete(r)
  <2>1. TypeOK'  BY <1>12 DEF ReleaseDelete, TypeOK
  <2>2. Semaphore'  BY <1>12 DEF ReleaseDelete, Semaphore, OneSwitchPerProcess
  <2>3. KeyOwned'  BY <1>12 DEF ReleaseDelete, KeyOwned
  <2>. QED  BY <2>1, <2>2, <2>3
<1>. QED  BY <1>1, <1>2, <1>3, <1>4, <1>5, <1>6, <1>7, <1>8, <1>9, <1>10, <1>11, <1>12 DEF KeyStep

\* The ping and the steps of Tiers 2 and 3.
LEMMA DegradedKeeps ==
    ASSUME IInv, NEW r \in Req,
           Start(r) \/ PeerStep(r) \/ PeerAnswerLost(r) \/ PeerTimeout(r) \/ EndDegraded(r)
    PROVE  IInv'
<1> USE RequestAssumption DEF IInv, TypeOK, Goto, PC, KeyPC, SwitchPC, DegradedPC, LeasePC,
        redisVars, serverVars, historyVars
<1>1. CASE Start(r)
  <2>1. TypeOK'  BY <1>1 DEF Start, TypeOK
  <2>2. Semaphore'  BY <1>1 DEF Start, Semaphore, OneSwitchPerProcess
  <2>3. KeyOwned'  BY <1>1 DEF Start, KeyOwned
  <2>. QED  BY <2>1, <2>2, <2>3
<1>2. CASE PeerAcquire(r)
  <2>0. /\ pc' \in [Req -> PC]
        /\ lease' \in Req \cup {NoReq} /\ expired' \in BOOLEAN
        /\ UNCHANGED <<redisVars, serverUp, permits, loaded, prep, crashes, historyVars>>
    BY <1>2 DEF PeerAcquire, GrantLease
  <2>1. TypeOK'  BY <2>0 DEF TypeOK
  <2>2. Semaphore'  BY <1>2 DEF PeerAcquire, Semaphore, OneSwitchPerProcess
  <2>3. KeyOwned'  BY <1>2 DEF PeerAcquire, KeyOwned
  <2>. QED  BY <2>1, <2>2, <2>3
<1>3. CASE PeerAnswerLost(r)
  <2>1. TypeOK'  BY <1>3 DEF PeerAnswerLost, GrantLease, TypeOK
  <2>2. Semaphore'  BY <1>3 DEF PeerAnswerLost, Semaphore, OneSwitchPerProcess
  <2>3. KeyOwned'  BY <1>3 DEF PeerAnswerLost, KeyOwned
  <2>. QED  BY <2>1, <2>2, <2>3
<1>4. CASE PeerTimeout(r)
  <2>1. TypeOK'  BY <1>4 DEF PeerTimeout, TypeOK
  <2>2. Semaphore'  BY <1>4 DEF PeerTimeout, Semaphore, OneSwitchPerProcess
  <2>3. KeyOwned'  BY <1>4 DEF PeerTimeout, KeyOwned
  <2>. QED  BY <2>1, <2>2, <2>3
<1>5. CASE EnterDegraded(r)
  <2>0. TakePermit(r)  BY <1>5 DEF EnterDegraded
  <2>1. TypeOK'  BY <1>5, <2>0, Taken, LoadType DEF EnterDegraded, TypeOK
  <2>2. Semaphore'  BY <1>5, <2>0, Taken, LoadType DEF EnterDegraded, Semaphore, OneSwitchPerProcess
  <2>3. KeyOwned'  BY <1>5 DEF EnterDegraded, KeyOwned
  <2>. QED  BY <2>1, <2>2, <2>3
<1>6. CASE EndDegraded(r)
  <2>0. permits[HostOf[r]] = 0 /\ GivePermit(r)  BY <1>6 DEF EndDegraded, Semaphore
  <2>1. TypeOK'  BY <1>6, <2>0, Given DEF EndDegraded, TypeOK
  <2>2. Semaphore'  BY <1>6, <2>0, Given DEF EndDegraded, Semaphore, OneSwitchPerProcess
  <2>3. KeyOwned'  BY <1>6 DEF EndDegraded, KeyOwned
  <2>. QED  BY <2>1, <2>2, <2>3
<1>7. CASE PeerRelease(r)
  <2>1. TypeOK'  BY <1>7 DEF PeerRelease, TypeOK
  <2>2. Semaphore'  BY <1>7 DEF PeerRelease, Semaphore, OneSwitchPerProcess
  <2>3. KeyOwned'  BY <1>7 DEF PeerRelease, KeyOwned
  <2>. QED  BY <2>1, <2>2, <2>3
<1>. QED  BY <1>1, <1>2, <1>3, <1>4, <1>5, <1>6, <1>7 DEF PeerStep

\* Expiry, the operator and outages.
LEMMA SurroundingsKeep ==
    ASSUME IInv,
           KeyExpires \/ LeaseExpires \/ LeaseCleared \/ RedisToggles \/ ServerToggles
    PROVE  IInv'
<1> USE RequestAssumption DEF IInv, TypeOK, Goto, PC, KeyPC, SwitchPC, DegradedPC, LeasePC,
        redisVars, serverVars, historyVars
<1>1. CASE KeyExpires
  <2>1. TypeOK'  BY <1>1 DEF KeyExpires, TypeOK
  <2>2. Semaphore'  BY <1>1 DEF KeyExpires, Semaphore, OneSwitchPerProcess
  <2>3. KeyOwned'  BY <1>1 DEF KeyExpires, KeyOwned
  <2>. QED  BY <2>1, <2>2, <2>3
<1>2. CASE LeaseExpires
  <2>1. TypeOK'  BY <1>2 DEF LeaseExpires, TypeOK
  <2>2. Semaphore'  BY <1>2 DEF LeaseExpires, Semaphore, OneSwitchPerProcess
  <2>3. KeyOwned'  BY <1>2 DEF LeaseExpires, KeyOwned
  <2>. QED  BY <2>1, <2>2, <2>3
<1>3. CASE LeaseCleared
  <2>1. TypeOK'  BY <1>3 DEF LeaseCleared, TypeOK
  <2>2. Semaphore'  BY <1>3 DEF LeaseCleared, Semaphore, OneSwitchPerProcess
  <2>3. KeyOwned'  BY <1>3 DEF LeaseCleared, KeyOwned
  <2>. QED  BY <2>1, <2>2, <2>3
<1>4. CASE RedisToggles
  <2>1. TypeOK'  BY <1>4 DEF RedisToggles, TypeOK
  <2>2. Semaphore'  BY <1>4 DEF RedisToggles, Semaphore, OneSwitchPerProcess
  <2>3. KeyOwned'  BY <1>4 DEF RedisToggles, KeyOwned
  <2>. QED  BY <2>1, <2>2, <2>3
<1>5. CASE ServerToggles
  <2>1. TypeOK'  BY <1>5 DEF ServerToggles, TypeOK
  <2>2. Semaphore'  BY <1>5 DEF ServerToggles, Semaphore, OneSwitchPerProcess
  <2>3. KeyOwned'  BY <1>5 DEF ServerToggles, KeyOwned
  <2>. QED  BY <2>1, <2>2, <2>3
<1>. QED  BY <1>1, <1>2, <1>3, <1>4, <1>5

\* A restart takes the requests of its process with it, and the permit comes back.
LEMMA CrashKeeps ==
    ASSUME IInv, NEW h \in Host, Crash(h)
    PROVE  IInv'
<1> USE RequestAssumption, LimitAssumption
        DEF IInv, TypeOK, PC, KeyPC, SwitchPC, DegradedPC, LeasePC, redisVars, serverVars
<1>0. \A q \in Req : pc'[q] \in {"idle", "done", pc[q]} /\ (HostOf[q] = h => pc'[q] \in {"idle", "done"})
  BY DEF Crash
<1>1. TypeOK'
  <2>1. pc' \in [Req -> PC]  BY DEF Crash
  <2>2. permits' \in [Host -> 0..1]  BY DEF Crash
  <2>3. crashes' \in 0..MaxCrashes  BY DEF Crash
  <2>4. prep' \in [Coord -> {"idle", "evict", "set", "done"}]  BY DEF Crash
  <2>. QED  BY <2>1, <2>2, <2>3, <2>4 DEF Crash
<1>2. Semaphore'
  <2>1. \A g \in Host : g # h => permits'[g] = permits[g]  BY DEF Crash
  <2>. QED  BY <1>0, <2>1 DEF Semaphore, OneSwitchPerProcess
<1>3. KeyOwned'
  BY <1>0 DEF Crash, KeyOwned
<1>. QED  BY <1>1, <1>2, <1>3

\* What takes no lock changes none.
LEMMA UnlockedKeeps ==
    ASSUME IInv, UnlockedLoad \/ \E c \in Coord : Prepare(c)
    PROVE  IInv'
<1> USE DEF IInv, serverVars, historyVars
<1>1. UNCHANGED <<redisUp, key, serverVars, permits, pc, crashes, overrun, revoked>>
  BY DEF UnlockedLoad, Prepare, PrepRead, PrepEvict, PrepSet, redisVars
<1>2. loaded' \subseteq Backend /\ zone' \in Context \cup {"none"} /\ spoiled' \in BOOLEAN
  BY DEF UnlockedLoad, Prepare, PrepRead, PrepEvict, PrepSet, redisVars, MayKeep, TypeOK,
         Backend, Context
<1>3. prep' \in [Coord -> {"idle", "evict", "set", "done"}]
  BY DEF UnlockedLoad, Prepare, PrepRead, PrepEvict, PrepSet, PrepGoto, TypeOK
<1>4. TypeOK'  BY <1>1, <1>2, <1>3 DEF TypeOK
<1>5. Semaphore' /\ KeyOwned'  BY <1>1 DEF Semaphore, OneSwitchPerProcess, KeyOwned
<1>. QED  BY <1>4, <1>5

----------------------------------------------------------------------------
(* The theorems.                                                            *)

LEMMA IInvInit == Init => IInv
<1>. SUFFICES ASSUME Init PROVE IInv  OBVIOUS
<1>. USE RequestAssumption, LimitAssumption DEF Init
<1>1. \A q \in Req : pc[q] = "idle"  OBVIOUS
<1>2. TypeOK
  <2>1. crashes \in 0..MaxCrashes  BY DEF LimitAssumption
  <2>2. pc \in [Req -> PC] /\ permits \in [Host -> 0..1]  BY DEF PC
  <2>3. loaded \subseteq Backend /\ zone \in Context \cup {"none"}  OBVIOUS
  <2>. QED  BY <2>1, <2>2, <2>3 DEF TypeOK
<1>3. Semaphore  BY <1>1 DEF Semaphore, OneSwitchPerProcess, SwitchPC, DegradedPC
<1>4. KeyOwned  BY <1>1 DEF KeyOwned, KeyPC
<1>. QED  BY <1>2, <1>3, <1>4 DEF IInv

LEMMA IInvStep == IInv /\ [Next]_vars => IInv'
<1>. SUFFICES ASSUME IInv, [Next]_vars PROVE IInv'
  OBVIOUS
<1>1. CASE UNCHANGED vars
  BY <1>1 DEF IInv, TypeOK, Semaphore, OneSwitchPerProcess, KeyOwned,
              vars, redisVars, serverVars, historyVars
<1>2. ASSUME NEW r \in Req,
             \/ Start(r) \/ KeyStep(r) \/ TryKeyLost(r) \/ SpinTimeout(r) \/ EndWork(r)
             \/ PeerStep(r) \/ PeerAnswerLost(r) \/ PeerTimeout(r) \/ EndDegraded(r)
      PROVE  IInv'
  BY <1>2, TierOneKeeps, DegradedKeeps
<1>3. CASE KeyExpires \/ LeaseExpires \/ LeaseCleared \/ RedisToggles \/ ServerToggles
  BY <1>3, SurroundingsKeep
<1>4. ASSUME NEW h \in Host, Crash(h) PROVE IInv'
  BY <1>4, CrashKeeps
<1>5. CASE UnlockedLoad \/ \E c \in Coord : Prepare(c)
  BY <1>5, UnlockedKeeps
<1>. QED  BY <1>1, <1>2, <1>3, <1>4, <1>5 DEF Next

LEMMA IInvCorrect == Spec => []IInv
BY IInvInit, IInvStep, PTL DEF Spec

\* Every variable has its type, in every reachable state.
THEOREM TypeCorrect == Spec => []TypeOK
<1>1. IInv => TypeOK  BY DEF IInv
<1>. QED  BY <1>1, IInvCorrect, PTL

\* Unless LOCK_KEY expired in use, at most one Tier 1 request of the cluster is between
\* its SET and the end of its workload.
THEOREM ClusterMutex == Spec => []OneKeyHolder
<1>1. IInv => OneKeyHolder  BY KeyOwnedExcludes DEF IInv
<1>. QED  BY <1>1, IInvCorrect, PTL

\* A process never runs two zone switches or degraded workloads at a time, whatever
\* becomes of Redis, the lock server and their locks.
THEOREM SwitchMutex == Spec => []OneSwitchPerProcess
<1>1. IInv => OneSwitchPerProcess  BY DEF IInv, Semaphore
<1>. QED  BY <1>1, IInvCorrect, PTL

----------------------------------------------------------------------------
(* The lock server and its clients implement GpuLease.                      *)

Users == {r \in Req : pc[r] \in LeasePC}
Holder == IF expired THEN NoReq ELSE lease

LEMMA LeaseInit == Init => PeerLease!Init
BY DEF Init, PeerLease!Init, LeasePC

\* A step that changes neither the lease nor its users is a stutter.
LEMMA LeaseStutter ==
    ASSUME UNCHANGED <<lease, expired, revoked, crashes>>, Users' = Users
    PROVE  UNCHANGED PeerLease!vars
BY DEF PeerLease!vars, Users

\* No step of Tier 1 touches either.
LEMMA TierOneStutters ==
    ASSUME TypeOK, NEW r \in Req,
           KeyStep(r) \/ TryKeyLost(r) \/ SpinTimeout(r) \/ EndWork(r) \/ Start(r)
    PROVE  UNCHANGED PeerLease!vars
<1>1. UNCHANGED <<lease, expired, revoked, crashes>>
  BY DEF KeyStep, TryKey, TryKeyLost, SpinTimeout, EnterSwitch, ReadZone, Evict, Warm, SetZone,
         BeginWork, EndWork, ReleaseRead, ReleaseDelete, Start, serverVars, historyVars
<1>2. \E label \in PC \ LeasePC : Goto(r, label) /\ pc[r] \notin LeasePC
  BY DEF KeyStep, TryKey, TryKeyLost, SpinTimeout, EnterSwitch, ReadZone, Evict, Warm, SetZone,
         BeginWork, EndWork, ReleaseRead, ReleaseDelete, Start, PC, KeyPC, LeasePC
<1>3. Users' = Users
  BY <1>2 DEF Goto, Users, TypeOK
<1>. QED  BY <1>1, <1>3, LeaseStutter

\* A step of a request that leaves its place among the users alone leaves the users alone.
LEMMA GotoUsers ==
    ASSUME TypeOK, NEW r \in Req, NEW label \in PC, Goto(r, label)
    PROVE  Users' = IF label \in LeasePC THEN Users \cup {r} ELSE Users \ {r}
BY DEF Goto, Users, TypeOK

\* Asking the lock server grants a free lease, with or without the client's knowledge.
LEMMA AcquireGrants ==
    ASSUME TypeOK, NEW r \in Req, PeerAcquire(r) \/ PeerAnswerLost(r)
    PROVE  PeerLease!Grant(r) \/ UNCHANGED PeerLease!vars
<1> USE RequestAssumption DEF TypeOK, historyVars
<1>0. r \notin Users  BY DEF PeerAcquire, PeerAnswerLost, Users, LeasePC
<1>1. CASE UNCHANGED <<lease, expired>>
  <2>1. \E label \in {"local", "peer"} : Goto(r, label)
    <3>1. ~(LeaseFree /\ GrantLease(r))
      BY <1>1 DEF GrantLease, LeaseFree
    <3>. QED  BY <3>1 DEF PeerAcquire, PeerAnswerLost
  <2>2. Users' = Users
    <3>1. {"local", "peer"} \subseteq PC \ LeasePC  BY DEF LeasePC, PC
    <3>2. PICK label \in {"local", "peer"} : Goto(r, label)  BY <2>1
    <3>3. Users' = IF label \in LeasePC THEN Users \cup {r} ELSE Users \ {r}
      BY <3>1, <3>2, GotoUsers
    <3>. QED  BY <1>0, <3>1, <3>2, <3>3
  <2>3. UNCHANGED <<revoked, crashes>>  BY DEF PeerAcquire, PeerAnswerLost
  <2>. QED  BY <1>1, <2>2, <2>3, LeaseStutter
<1>2. CASE GrantLease(r) /\ LeaseFree
  <2>1. Holder = NoReq /\ Holder' = r  BY <1>2 DEF GrantLease, LeaseFree, Holder
  <2>2. Goto(r, "peer_sem") \/ Goto(r, "local") \/ Goto(r, "done")
    <3>1. CASE PeerAcquire(r)  BY <1>2, <3>1 DEF PeerAcquire
    <3>2. CASE PeerAnswerLost(r)  BY <3>2 DEF PeerAnswerLost
    <3>. QED  BY <3>1, <3>2
  <2>3. Users' \in {Users, Users \cup {r}}
    <3>1. CASE Goto(r, "peer_sem")  BY <3>1, GotoUsers DEF LeasePC, PC
    <3>2. Users \ {r} = Users  BY <1>0
    <3>3. CASE Goto(r, "local")
      <4>1. Users' = Users \ {r}  BY <3>3, GotoUsers DEF LeasePC, PC
      <4>. QED  BY <3>2, <4>1
    <3>4. CASE Goto(r, "done")
      <4>1. Users' = Users \ {r}  BY <3>4, GotoUsers DEF LeasePC, PC
      <4>. QED  BY <3>2, <4>1
    <3>. QED  BY <2>2, <3>1, <3>3, <3>4
  <2>4. UNCHANGED <<revoked, crashes>>  BY DEF PeerAcquire, PeerAnswerLost
  <2>. QED  BY <2>1, <2>3, <2>4 DEF PeerLease!Grant, Holder, Users
<1>. QED  BY <1>1, <1>2 DEF PeerAcquire, PeerAnswerLost

\* Entering and ending a degraded workload changes no lease.
LEMMA DegradedStutters ==
    ASSUME TypeOK, NEW r \in Req, EnterDegraded(r) \/ EndDegraded(r) \/ PeerTimeout(r)
    PROVE  UNCHANGED PeerLease!vars
<1>1. UNCHANGED <<lease, expired, revoked, crashes>>
  BY DEF EnterDegraded, EndDegraded, PeerTimeout, serverVars, historyVars
<1>2. \E label \in PC : Goto(r, label) /\ (label \in LeasePC <=> r \in Users)
  BY DEF EnterDegraded, EndDegraded, PeerTimeout, Users, PC, LeasePC, DegradedPC
<1>3. Users' = Users  BY <1>2, GotoUsers
<1>. QED  BY <1>1, <1>3, LeaseStutter

\* A release frees the lease of the caller and of no one else.
LEMMA ReleaseFrees ==
    ASSUME TypeOK, NEW r \in Req, PeerRelease(r)
    PROVE  PeerLease!Release(r) \/ PeerLease!Quit(r)
<1> USE RequestAssumption DEF TypeOK, historyVars
<1>1. r \in Users /\ UNCHANGED <<revoked, crashes>>  BY DEF PeerRelease, Users, LeasePC
<1>2. Users' = Users \ {r}  BY GotoUsers DEF PeerRelease, PC, LeasePC
<1>3. Holder' = Holder \/ (Holder = r /\ Holder' = NoReq)
  BY DEF PeerRelease, ReleaseAccepted, LeaseFree, Holder
<1>. QED  BY <1>1, <1>2, <1>3 DEF PeerLease!Release, PeerLease!Quit, Users, Holder

\* The TTL and the operator revoke the lease.
LEMMA LossRevokes ==
    ASSUME TypeOK, LeaseExpires \/ LeaseCleared
    PROVE  PeerLease!Revoke \/ UNCHANGED PeerLease!vars
<1> USE RequestAssumption DEF TypeOK
<1>0. Users' = Users /\ crashes' = crashes  BY DEF LeaseExpires, LeaseCleared, Users
<1>1. CASE expired
  BY <1>0, <1>1 DEF LeaseExpires, LeaseCleared, PeerLease!vars, Users
<1>2. CASE ~expired
  <2>1. lease # NoReq /\ lease \in Req  BY DEF LeaseExpires, LeaseCleared
  <2>2. Holder = lease /\ Holder' = NoReq  BY <1>2 DEF LeaseExpires, LeaseCleared, Holder
  <2>3. revoked' = (revoked \/ lease \in Users)
    BY <1>2, <2>1 DEF LeaseExpires, LeaseCleared, Users
  <2>. QED  BY <1>0, <2>1, <2>2, <2>3 DEF PeerLease!Revoke, Holder, Users
<1>. QED  BY <1>1, <1>2

LEMMA OthersStutter ==
    ASSUME \/ KeyExpires \/ RedisToggles \/ ServerToggles
           \/ UnlockedLoad \/ \E c \in Coord : Prepare(c)
    PROVE  UNCHANGED PeerLease!vars
BY DEF KeyExpires, RedisToggles, ServerToggles, UnlockedLoad, Prepare, PrepRead, PrepEvict,
       PrepSet, PeerLease!vars, serverVars, historyVars

\* A restart takes some users with it, and the lease if the server restarts.
LEMMA CrashFails ==
    ASSUME TypeOK, NEW h \in Host, Crash(h)
    PROVE  PeerLease!HostFails({q \in Req : HostOf[q] = h})
<1> USE RequestAssumption DEF TypeOK
<1> DEFINE gone == {q \in Req : HostOf[q] = h}
<1>1. Users' = Users \ gone  BY DEF Crash, Users, LeasePC
<1>2. Holder' \in {Holder, NoReq}  BY DEF Crash, Holder
<1>3. revoked' = (revoked \/ (Holder # Holder' /\ Holder \in Users'))
  <2>1. CASE h = ServerHost
    <3>1. Holder' = NoReq  BY <2>1 DEF Crash, Holder
    <3>2. NoReq \notin Users'  BY DEF Users
    <3>3. Holder \in Users' <=> ~expired /\ lease # NoReq /\ pc'[lease] \in LeasePC
      BY <3>2 DEF Holder, Users
    <3>4. revoked' = (revoked \/ (lease # NoReq /\ ~expired /\ pc'[lease] \in LeasePC))
      BY <2>1 DEF Crash
    <3>. QED  BY <3>1, <3>2, <3>3, <3>4
  <2>2. CASE h # ServerHost
    BY <2>2 DEF Crash, Holder
  <2>. QED  BY <2>1, <2>2
<1>4. crashes' = crashes + 1  BY DEF Crash
<1>. QED  BY <1>1, <1>2, <1>3, <1>4 DEF PeerLease!HostFails, Users, Holder

\* The lock server and the requests that use it implement the abstract lease: a lease is
\* granted only when free, released only by its holder, and otherwise lost only to the
\* TTL, the operator or a restart.
THEOREM LeaseImplemented == Spec => LeaseSpec
<1>1. TypeOK /\ [Next]_vars => [PeerLease!Next]_PeerLease!vars
  <2>. SUFFICES ASSUME TypeOK, [Next]_vars
                PROVE  PeerLease!Next \/ UNCHANGED PeerLease!vars
    OBVIOUS
  <2>1. CASE UNCHANGED vars
    BY <2>1 DEF vars, serverVars, historyVars, PeerLease!vars
  <2>2. ASSUME NEW r \in Req,
               KeyStep(r) \/ TryKeyLost(r) \/ SpinTimeout(r) \/ EndWork(r) \/ Start(r)
        PROVE  UNCHANGED PeerLease!vars
    BY <2>2, TierOneStutters
  <2>3. ASSUME NEW r \in Req,
               PeerStep(r) \/ PeerAnswerLost(r) \/ PeerTimeout(r) \/ EndDegraded(r)
        PROVE  PeerLease!Next \/ UNCHANGED PeerLease!vars
    BY <2>3, AcquireGrants, DegradedStutters, ReleaseFrees DEF PeerStep, PeerLease!Next
  <2>4. CASE KeyExpires \/ LeaseExpires \/ LeaseCleared \/ RedisToggles \/ ServerToggles
    BY <2>4, LossRevokes, OthersStutter DEF PeerLease!Next
  <2>5. ASSUME NEW h \in Host, Crash(h) PROVE PeerLease!Next
    BY <2>5, CrashFails DEF PeerLease!Next
  <2>6. CASE UnlockedLoad \/ \E c \in Coord : Prepare(c)
    BY <2>6, OthersStutter
  <2>. QED  BY <2>1, <2>2, <2>3, <2>4, <2>5, <2>6 DEF Next
<1>. QED  BY <1>1, LeaseInit, TypeCorrect, PTL DEF Spec, LeaseSpec, PeerLease!Spec

LEMMA LeaseStepExcludes ==
    ASSUME PeerLease!Exclusive, [PeerLease!Next]_PeerLease!vars
    PROVE  PeerLease!Exclusive'
<1> USE RequestAssumption DEF PeerLease!Exclusive
<1>1. CASE UNCHANGED PeerLease!vars  BY <1>1 DEF PeerLease!vars
<1>2. ASSUME NEW r \in Req, PeerLease!Grant(r) PROVE PeerLease!Exclusive'
  BY <1>2 DEF PeerLease!Grant
<1>3. ASSUME NEW r \in Req, PeerLease!Release(r) \/ PeerLease!Quit(r) PROVE PeerLease!Exclusive'
  BY <1>3 DEF PeerLease!Release, PeerLease!Quit
<1>4. CASE PeerLease!Revoke
  <2>1. SUFFICES ASSUME ~revoked' PROVE Users' = {}  BY DEF Users
  <2>2. ~revoked /\ Holder \notin Users  BY <1>4, <2>1 DEF PeerLease!Revoke, Users, Holder
  <2>3. Users \subseteq {Holder}  BY <2>2 DEF Users, Holder
  <2>. QED  BY <1>4, <2>2, <2>3 DEF PeerLease!Revoke, Users
<1>5. ASSUME NEW gone \in SUBSET Req, PeerLease!HostFails(gone) PROVE PeerLease!Exclusive'
  <2>1. SUFFICES ASSUME ~revoked' PROVE Users' \subseteq {Holder'} \ {NoReq}
    BY DEF Users, Holder
  <2>2. Users \subseteq {Holder} \ {NoReq} /\ Users' \subseteq Users
    BY <1>5, <2>1 DEF PeerLease!HostFails, Users, Holder
  <2>3. Holder' = Holder \/ Holder \notin Users'
    BY <1>5, <2>1 DEF PeerLease!HostFails, Users, Holder
  <2>. QED  BY <2>2, <2>3
<1>. QED  BY <1>1, <1>2, <1>3, <1>4, <1>5 DEF PeerLease!Next

\* As long as no lease was lost in use, at most one request works under it: what the
\* abstract lease guarantees, carried over by the refinement.
THEOREM LeaseMutex == Spec => []LeaseExclusive
<1>1. PeerLease!Init => PeerLease!Exclusive  BY DEF PeerLease!Init, PeerLease!Exclusive
<1>2. PeerLease!Spec => []PeerLease!Exclusive
  BY <1>1, LeaseStepExcludes, PTL DEF PeerLease!Spec
<1>. QED  BY <1>2, LeaseImplemented DEF LeaseSpec, LeaseExclusive
----------------------------------------------------------------------------
(* The recorded zone tells what VRAM holds.                                 *)

\* What may be in VRAM under a recorded zone; nothing before the first switch.
Covered == IF zone = "none" THEN {} ELSE Uses(zone)

\* While no lock was lost in use and nothing spoiled the record, VRAM holds at most what
\* the recorded zone uses, but for a warm-up that is about to be recorded; a request past
\* its evictions finds only what its own context uses, and one past SET ZONE_KEY works
\* in the recorded zone.
ZoneInv ==
    /\ \A r \in Req : pc[r] = "warm" => ContextOf[r] = "image"
    /\ ~overrun /\ ~spoiled =>
          /\ loaded \subseteq Covered \/ \E r \in Req : Unfinished(r)
          /\ \A r \in Req : pc[r] \in {"warm", "set_zone"} => loaded \subseteq Uses(ContextOf[r])
          /\ \A r \in Req : pc[r] \in {"yield", "work"} => zone = ContextOf[r]

\* While nothing spoiled the record, a preparation that has evicted and not yet written the
\* zone finds VRAM empty and nobody in it: whoever comes in meanwhile spoils the record.
PrepInv ==
    ~spoiled => \A c \in Coord : prep[c] = "set" => loaded = {} /\ ~ZoneInUse

InUsePC == SwitchPC \cup {"yield", "work"}

\* What a switch does not evict, its context uses.
LEMMA EvictedFits ==
    ASSUME NEW context \in Context
    PROVE  Backend \ Evicts(context) \subseteq Uses(context)
BY DEF Context, Backend, Evicts, Uses

\* While no lock is lost in use, a request inside the key excludes every other.
LEMMA KeyAlone ==
    ASSUME IInv, ~overrun, NEW r \in Req, NEW q \in Req, pc[r] \in KeyPC, pc[q] \in KeyPC
    PROVE  q = r
BY KeyOwnedExcludes DEF IInv, OneKeyHolder

\* A step that leaves VRAM, the zone and every request in the critical part of Tier 1 alone.
LEMMA ZoneFrame ==
    ASSUME ZoneInv, UNCHANGED <<loaded, zone>>, overrun => overrun', spoiled => spoiled',
           \A q \in Req : pc'[q] \in {"warm", "set_zone", "yield", "work"} => pc'[q] = pc[q],
           \A q \in Req : Unfinished(q) => pc'[q] = pc[q] \/ spoiled'
    PROVE  ZoneInv'
<1>1. ASSUME ~spoiled' PROVE \A q \in Req : Unfinished(q) => Unfinished(q)'
  BY <1>1 DEF Unfinished
<1>2. ASSUME ~overrun', ~spoiled' PROVE loaded' \subseteq Covered' \/ \E q \in Req : Unfinished(q)'
  BY <1>1, <1>2 DEF ZoneInv, Covered
<1>. QED  BY <1>2 DEF ZoneInv

LEMMA SwitchKeepsZone ==
    ASSUME IInv, ZoneInv, NEW r \in Req,
           ReadZone(r) \/ Evict(r) \/ Warm(r) \/ SetZone(r) \/ BeginWork(r)
    PROVE  ZoneInv'
<1> USE RequestAssumption DEF redisVars, serverVars, historyVars, Goto
<1>0. /\ pc \in [Req -> PC] /\ loaded \subseteq Backend /\ ContextOf[r] \in Context
      /\ pc[r] \in KeyPC
  BY DEF IInv, TypeOK, ReadZone, Evict, Warm, SetZone, BeginWork, KeyPC
<1>1. \A q \in Req \ {r} : pc'[q] = pc[q]
  BY <1>0 DEF ReadZone, Evict, Warm, SetZone, BeginWork
<1>2. overrun' = overrun /\ (spoiled => spoiled')
  BY DEF ReadZone, Evict, Warm, SetZone, BeginWork, IInv, TypeOK
<1>3. ASSUME ~overrun PROVE \A q \in Req \ {r} : ~Unfinished(q)
                              /\ pc'[q] \notin {"warm", "set_zone", "yield", "work"}
  <2>1. \A q \in Req \ {r} : pc[q] \notin KeyPC  BY <1>0, <1>3, KeyAlone
  <2>. QED  BY <1>1, <2>1 DEF Unfinished, KeyPC
<1>4. pc'[r] = "warm" => ContextOf[r] = "image"
  BY <1>0 DEF ReadZone, Evict, Warm, SetZone, BeginWork, ZoneInv
<1>5. \A q \in Req : pc'[q] = "warm" => ContextOf[q] = "image"
  BY <1>1, <1>4 DEF ZoneInv
<1>6. SUFFICES ASSUME ~overrun, ~spoiled, ~spoiled'
               PROVE  /\ loaded' \subseteq Covered' \/ Unfinished(r)'
                      /\ pc'[r] \in {"warm", "set_zone"} => loaded' \subseteq Uses(ContextOf[r])
                      /\ pc'[r] \in {"yield", "work"} => zone' = ContextOf[r]
  BY <1>2, <1>3, <1>5 DEF ZoneInv
<1>7. /\ loaded \subseteq Covered \/ Unfinished(r)
      /\ pc[r] \in {"warm", "set_zone"} => loaded \subseteq Uses(ContextOf[r])
      /\ pc[r] \in {"yield", "work"} => zone = ContextOf[r]
      /\ pc[r] = "warm" => ContextOf[r] = "image"
  BY <1>3, <1>6 DEF ZoneInv
<1>8. CASE ReadZone(r)
  BY <1>0, <1>7, <1>8 DEF ReadZone, Unfinished, Covered, Context
<1>9. CASE Evict(r)
  <2>1. loaded' = loaded \ Evicts(ContextOf[r]) /\ pc'[r] \in {"warm", "set_zone"} /\ zone' = zone
    BY <1>0, <1>6, <1>9 DEF Evict
  <2>2. loaded' \subseteq Uses(ContextOf[r])  BY <1>0, <2>1, EvictedFits
  <2>3. loaded \subseteq Covered  BY <1>7, <1>9 DEF Evict, Unfinished
  <2>. QED  BY <2>1, <2>2, <2>3 DEF Covered
<1>10. CASE Warm(r)
  <2>1. /\ ContextOf[r] = "image" /\ pc'[r] = "set_zone" /\ zone' = zone
        /\ loaded' \subseteq loaded \cup {"klein"} /\ loaded \subseteq Uses("image")
    BY <1>0, <1>7, <1>10 DEF Warm
  <2>2. loaded' \subseteq Uses("image")  BY <2>1 DEF Uses, Backend
  <2>3. zone = "image" => loaded' \subseteq Covered'  BY <2>1, <2>2 DEF Covered
  <2>4. zone # "image" => Unfinished(r)'  BY <2>1 DEF Unfinished
  <2>. QED  BY <2>1, <2>2, <2>3, <2>4
<1>11. CASE SetZone(r)
  <2>1. CASE redisUp
    <3>1. zone' = ContextOf[r] /\ pc'[r] = "yield" /\ loaded' = loaded
      BY <1>0, <1>11, <2>1 DEF SetZone
    <3>2. zone' # "none"  BY <1>0, <3>1 DEF Context
    <3>3. loaded \subseteq Uses(ContextOf[r])  BY <1>7, <1>11 DEF SetZone
    <3>. QED  BY <3>1, <3>2, <3>3 DEF Covered
  <2>2. CASE ~redisUp
    <3>1. zone' = zone /\ pc'[r] = "rel_get" /\ loaded' = loaded /\ ~Unfinished(r)
      BY <1>0, <1>6, <1>11, <2>2 DEF SetZone
    <3>. QED  BY <1>7, <3>1 DEF Covered
  <2>. QED  BY <2>1, <2>2
<1>12. CASE BeginWork(r)
  <2>1. PICK used \in SUBSET Uses(ContextOf[r]) : loaded' = loaded \cup used
    BY <1>12 DEF BeginWork, Load
  <2>2. zone' = zone /\ zone = ContextOf[r] /\ pc'[r] = "work" /\ loaded \subseteq Covered
    BY <1>0, <1>7, <1>12 DEF BeginWork, Unfinished
  <2>. QED  BY <1>0, <2>1, <2>2 DEF Covered, Context
<1>. QED  BY <1>8, <1>9, <1>10, <1>11, <1>12

LEMMA ZoneInit == Init => ZoneInv /\ PrepInv
BY DEF Init, ZoneInv, Covered, PrepInv

\* A step that starts no preparation and lets nobody in.
LEMMA PrepFrame ==
    ASSUME PrepInv, spoiled => spoiled',
           \A c \in Coord : prep'[c] = "set" => prep[c] = "set" /\ loaded' = loaded,
           \A q \in Req : pc'[q] \in InUsePC => pc[q] \in InUsePC
    PROVE  PrepInv'
BY DEF PrepInv, ZoneInUse, InUsePC

LEMMA PrepStep ==
    ASSUME IInv, PrepInv, [Next]_vars
    PROVE  PrepInv'
<1> USE RequestAssumption DEF redisVars, serverVars, historyVars, Goto
<1>0. pc \in [Req -> PC] /\ spoiled \in BOOLEAN /\ overrun \in BOOLEAN
      /\ prep \in [Coord -> {"idle", "evict", "set", "done"}]
  BY DEF IInv, TypeOK
<1>1. CASE UNCHANGED vars
  BY <1>1 DEF vars, PrepInv, ZoneInUse
<1>2. ASSUME NEW r \in Req, ReadZone(r) \/ Evict(r) \/ Warm(r) \/ SetZone(r) \/ BeginWork(r)
      PROVE  PrepInv'
  <2>1. ZoneInUse /\ prep' = prep /\ (spoiled => spoiled')
    BY <1>0, <1>2 DEF ReadZone, Evict, Warm, SetZone, BeginWork, ZoneInUse, SwitchPC
  <2>. QED  BY <2>1 DEF PrepInv
<1>3. ASSUME NEW r \in Req, EnterSwitch(r) PROVE PrepInv'
  BY <1>0, <1>3 DEF EnterSwitch, PrepInv
<1>4. ASSUME NEW r \in Req, UNCHANGED <<loaded, prep>>, spoiled => spoiled',
             \E label \in PC \ InUsePC : Goto(r, label)
      PROVE  PrepInv'
  BY <1>0, <1>4, PrepFrame
<1>5. ASSUME NEW r \in Req,
             \/ Start(r) \/ TryKey(r) \/ ReleaseRead(r) \/ ReleaseDelete(r)
             \/ TryKeyLost(r) \/ SpinTimeout(r) \/ EndWork(r)
      PROVE  PrepInv'
  BY <1>4, <1>5 DEF Start, TryKey, ReleaseRead, ReleaseDelete,
                    TryKeyLost, SpinTimeout, EndWork, PC, KeyPC, InUsePC, SwitchPC
<1>6. ASSUME NEW r \in Req,
             \/ PeerAcquire(r) \/ PeerRelease(r) \/ PeerAnswerLost(r) \/ PeerTimeout(r)
             \/ EndDegraded(r)
      PROVE  PrepInv'
  BY <1>4, <1>6 DEF PeerAcquire, PeerRelease, PeerAnswerLost, PeerTimeout, EndDegraded,
                    PC, LeasePC, DegradedPC, InUsePC, SwitchPC
<1>7. CASE UnlockedLoad \/ \E r \in Req : EnterDegraded(r)
  BY <1>7 DEF UnlockedLoad, EnterDegraded, PrepInv
<1>8. CASE KeyExpires \/ LeaseExpires \/ LeaseCleared \/ RedisToggles \/ ServerToggles
  <2>1. UNCHANGED <<loaded, prep, pc, spoiled>>
    BY <1>8 DEF KeyExpires, LeaseExpires, LeaseCleared, RedisToggles, ServerToggles
  <2>. QED  BY <2>1 DEF PrepInv, ZoneInUse
<1>9. ASSUME NEW h \in Host, Crash(h) PROVE PrepInv'
  <2>1. loaded' = loaded /\ (spoiled => spoiled')  BY <1>0, <1>9 DEF Crash
  <2>2. \A q \in Req : pc'[q] \in {pc[q], "done"}  BY <1>9 DEF Crash
  <2>3. \A c \in Coord : prep'[c] \in {prep[c], "done"}  BY <1>9 DEF Crash
  <2>. QED  BY <2>1, <2>2, <2>3, PrepFrame DEF InUsePC, SwitchPC
<1>10. ASSUME NEW c \in Coord, PrepEvict(c) PROVE PrepInv'
  BY <1>0, <1>10 DEF PrepEvict, PrepInv, ZoneInUse
<1>11. ASSUME NEW c \in Coord, PrepRead(c) \/ PrepSet(c) PROVE PrepInv'
  <2>1. UNCHANGED <<loaded, pc, spoiled>>  BY <1>11 DEF PrepRead, PrepSet
  <2>2. \A d \in Coord : prep'[d] = "set" => prep[d] = "set"
    BY <1>0, <1>11 DEF PrepRead, PrepSet, PrepGoto
  <2>. QED  BY <2>1, <2>2, PrepFrame
<1>. QED  BY <1>1, <1>2, <1>3, <1>5, <1>6, <1>7, <1>8, <1>9, <1>10, <1>11
          DEF Next, KeyStep, PeerStep, Prepare

\* The preparation of a coordination keeps the record true unless it spoils it.
LEMMA PrepareKeepsZone ==
    ASSUME IInv, ZoneInv, PrepInv, NEW c \in Coord, Prepare(c)
    PROVE  ZoneInv'
<1> USE DEF redisVars, historyVars
<1>0. pc' = pc /\ overrun' = overrun /\ (spoiled => spoiled')
  BY DEF Prepare, PrepRead, PrepEvict, PrepSet, IInv, TypeOK
<1>1. CASE PrepRead(c)
  BY <1>0, <1>1, ZoneFrame DEF PrepRead
<1>2. CASE PrepEvict(c)
  <2>1. ~spoiled' => loaded' = {}  BY <1>2 DEF PrepEvict
  <2>2. ~spoiled' => \A r \in Req : pc[r] \notin {"yield", "work"}
    BY <1>2 DEF PrepEvict, ZoneInUse
  <2>. QED  BY <1>0, <2>1, <2>2 DEF ZoneInv
<1>3. CASE PrepSet(c)
  <2>1. ~spoiled' => loaded' = {} /\ ~ZoneInUse
    BY <1>3 DEF PrepSet, PrepInv
  <2>. QED  BY <1>0, <2>1 DEF ZoneInv, ZoneInUse
<1>. QED  BY <1>1, <1>2, <1>3 DEF Prepare

LEMMA ZoneStep ==
    ASSUME IInv, ZoneInv, PrepInv, [Next]_vars
    PROVE  ZoneInv'
<1> USE RequestAssumption DEF redisVars, serverVars, historyVars, Goto
<1>0. pc \in [Req -> PC]  BY DEF IInv, TypeOK
<1>1. CASE UNCHANGED vars
  BY <1>1 DEF vars, ZoneInv, Covered, Unfinished
<1>2. ASSUME NEW r \in Req, ReadZone(r) \/ Evict(r) \/ Warm(r) \/ SetZone(r) \/ BeginWork(r)
      PROVE  ZoneInv'
  BY <1>2, SwitchKeepsZone
<1>3. ASSUME NEW r \in Req,
             UNCHANGED <<loaded, zone, overrun>>, spoiled => spoiled',
             \E label \in PC \ {"warm", "set_zone", "yield", "work"} : Goto(r, label),
             pc[r] # "set_zone"
      PROVE  ZoneInv'
  BY <1>0, <1>3, ZoneFrame DEF Unfinished
<1>4. ASSUME NEW r \in Req,
             \/ Start(r) \/ TryKey(r) \/ EnterSwitch(r) \/ ReleaseRead(r) \/ ReleaseDelete(r)
             \/ TryKeyLost(r) \/ SpinTimeout(r) \/ EndWork(r)
      PROVE  ZoneInv'
  <2>1. CASE EnterSwitch(r)
    <3>1. Goto(r, "zone") /\ "zone" \in PC \ {"warm", "set_zone", "yield", "work"}
      BY <2>1 DEF EnterSwitch, PC, KeyPC
    <3>2. pc[r] # "set_zone" /\ UNCHANGED <<loaded, zone, overrun>>
      BY <2>1 DEF EnterSwitch
    <3>3. spoiled => spoiled'  BY <2>1 DEF EnterSwitch
    <3>. QED  BY <1>3, <3>1, <3>2, <3>3
  <2>2. CASE ~EnterSwitch(r)
    BY <1>3, <1>4, <2>2 DEF Start, TryKey, ReleaseRead, ReleaseDelete,
                            TryKeyLost, SpinTimeout, EndWork, PC, KeyPC
  <2>. QED  BY <2>1, <2>2
<1>5. ASSUME NEW r \in Req,
             \/ PeerAcquire(r) \/ PeerRelease(r) \/ PeerAnswerLost(r) \/ PeerTimeout(r)
             \/ EndDegraded(r)
      PROVE  ZoneInv'
  BY <1>3, <1>5 DEF PeerAcquire, PeerRelease, PeerAnswerLost, PeerTimeout, EndDegraded,
                    PC, LeasePC, DegradedPC
<1>6. ASSUME NEW r \in Req, EnterDegraded(r) PROVE ZoneInv'
  <2>1. spoiled'  BY <1>6 DEF EnterDegraded
  <2>2. \A q \in Req : pc'[q] = "warm" => pc[q] = "warm"
    BY <1>0, <1>6 DEF EnterDegraded
  <2>. QED  BY <2>1, <2>2 DEF ZoneInv
<1>7. CASE KeyExpires \/ LeaseExpires \/ LeaseCleared \/ RedisToggles \/ ServerToggles
  <2>1. UNCHANGED <<loaded, zone, pc, spoiled>> /\ (overrun => overrun')
    BY <1>7 DEF KeyExpires, LeaseExpires, LeaseCleared, RedisToggles, ServerToggles, IInv, TypeOK
  <2>. QED  BY <2>1, ZoneFrame
<1>8. ASSUME NEW h \in Host, Crash(h) PROVE ZoneInv'
  <2>1. UNCHANGED <<loaded, zone, overrun>> /\ (spoiled => spoiled')
    BY <1>8 DEF Crash, IInv, TypeOK
  <2>2. \A q \in Req : pc'[q] = pc[q] \/ (pc'[q] = "done" /\ HostOf[q] = h)
    BY <1>8 DEF Crash
  <2>3. \A q \in Req : HostOf[q] = h /\ Unfinished(q) => spoiled'
    BY <1>8 DEF Crash
  <2>. QED  BY <2>1, <2>2, <2>3, ZoneFrame
<1>9. CASE UnlockedLoad
  BY <1>9 DEF UnlockedLoad, ZoneInv
<1>. QED  BY <1>1, <1>2, <1>4, <1>5, <1>6, <1>7, <1>8, <1>9, PrepareKeepsZone
          DEF Next, KeyStep, PeerStep

\* The cached zone is never stale: however the requests of all processes and the unlocked
\* preparations of coordinations interleave with restarts and outages, a Tier 1 workload never
\* runs beside the models of another zone, unless one of the events ZoneIsTrue names came
\* first: an eviction that failed, a warm-up cut off, a workload without a switch, a key that
\* expired in use, or a preparation that overlapped a switch or its workload.
THEOREM ZoneNeverStale == Spec => []ZoneIsTrue
<1>1. ASSUME IInv, ZoneInv PROVE ZoneIsTrue
  <2>. SUFFICES ASSUME ~overrun, ~spoiled, NEW r \in Req, pc[r] = "work"
                PROVE  loaded \subseteq Uses(ContextOf[r])
    BY DEF ZoneIsTrue
  <2>1. \A q \in Req : ~Unfinished(q)  BY <1>1, KeyAlone DEF Unfinished, KeyPC
  <2>2. zone = ContextOf[r] /\ zone # "none"
    BY <1>1, RequestAssumption DEF ZoneInv, Context
  <2>. QED  BY <1>1, <2>1, <2>2 DEF ZoneInv, Covered
<1>2. Spec => []ZoneInv
  <2>1. IInv /\ ZoneInv /\ PrepInv /\ [Next]_vars => ZoneInv' /\ PrepInv'
    BY ZoneStep, PrepStep
  <2>. QED  BY <2>1, ZoneInit, IInvCorrect, PTL DEF Spec
<1>. QED  BY <1>1, <1>2, IInvCorrect, PTL
=============================================================================
