---------------------------- MODULE MCGpuMutex ----------------------------
(* Small instances of GpuMutex.  m and n are processes; m hosts the lock    *)
(* server; c is a coordination.                                             *)
EXTENDS GpuMutex, TLC

CONSTANTS p, q, r, c, m, n

\* p and q share a process; r and c run in the other one.
TwoHosts == p :> m @@ q :> m @@ r :> n @@ c :> n
Zones == p :> "image" @@ q :> "text" @@ r :> "image"
\* p and q share a process and nothing else runs.
OneHost == [x \in Req \cup Coord |-> m]
PairZones == p :> "image" @@ q :> "text"
Flat == [x \in Req |-> NoReq]

\* q is a request that the workload of p makes.
Nested == p :> NoReq @@ q :> p
SameZone == [x \in Req |-> "image"]

\* Bound: a behaviour goes on after a restart, a lock lost under its holder or a preparation, and
\* not after a second lock lost, nor after a lock lost together with one of the others.
OneFault ==
    /\ ~(overrun /\ revoked)
    /\ crashes > 0 \/ (\E x \in Coord : prep[x] # "idle") => ~overrun /\ ~revoked
=============================================================================
