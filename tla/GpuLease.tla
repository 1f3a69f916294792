------------------------------ MODULE GpuLease ------------------------------
(***************************************************************************)
(* What the cross-host GPU lock server (agents/api/gpu_lock.py) promises:   *)
(* "FREE -> LOCKED -> (ttl expires OR explicit release) -> FREE", as seen   *)
(* by the clients that were told they hold the lease.                       *)
(***************************************************************************)
EXTENDS Naturals

CONSTANTS
    Client,
    NoClient   \* no client

VARIABLES
    holder,   \* the client the lease belongs to
    users,    \* clients that were told they hold it and have not given it up
    revoked,  \* history: a lease was taken from a client that was still using it
    failures  \* restarts of a host so far

vars == <<holder, users, revoked, failures>>

Init == holder = NoClient /\ users = {} /\ revoked = FALSE /\ failures = 0

\* A free lease is granted; the answer may be lost, and the client never learns of it.
Grant(c) ==
    /\ holder = NoClient
    /\ holder' = c
    /\ users' \in {users, users \cup {c}}
    /\ UNCHANGED <<revoked, failures>>

\* A client gives the lease up; another client's lease is not touched.
Release(c) ==
    /\ c \in users
    /\ users' = users \ {c}
    /\ holder' = IF holder = c THEN NoClient ELSE holder
    /\ UNCHANGED <<revoked, failures>>

\* A client stops without the server hearing of it.
Quit(c) ==
    /\ c \in users
    /\ users' = users \ {c}
    /\ UNCHANGED <<holder, revoked, failures>>

\* The TTL runs out, or an operator clears the lease.
Revoke ==
    /\ holder # NoClient
    /\ holder' = NoClient
    /\ revoked' = (revoked \/ holder \in users)
    /\ UNCHANGED <<users, failures>>

\* A host restarts with its clients; the server's lease goes if it was the server's host.
HostFails(gone) ==
    /\ failures' = failures + 1
    /\ users' = users \ gone
    /\ holder' \in {holder, NoClient}
    /\ revoked' = (revoked \/ (holder # holder' /\ holder \in users'))

Next ==
    \/ \E c \in Client : Grant(c) \/ Release(c) \/ Quit(c)
    \/ Revoke
    \/ \E gone \in SUBSET Client : HostFails(gone)

Spec == Init /\ [][Next]_vars

----------------------------------------------------------------------------
\* As long as no lease was taken from a client that was using it, at most one client
\* believes it holds the lease, and it does.
Exclusive == ~revoked => users \subseteq {holder} \ {NoClient}
=============================================================================
