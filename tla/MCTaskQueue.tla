---------------------------- MODULE MCTaskQueue ----------------------------
(* Small instances of TaskQueue.  a and b are composer runs, c is an         *)
(* isolated run, x is a chat run; live is a live_repo project, legacy the   *)
(* default scope.                                                           *)
EXTENDS TaskQueue, TLC

CONSTANTS a, b, c, x, live, legacy

AllLive == [r \in Run |-> live]
AllLegacy == [r \in Run |-> legacy]

\* Bound: the search does not go on from a state in which a working run lost its lock
\* or Redis failed.
Unfaulted == ~faulted

\* Bound: of a chat run and an isolated run one takes part in a behaviour.
ChatOrIsolated ==
    \A r \in Chat, s \in Isolated : pc[r] = "idle" \/ (pc[s] = "idle" /\ status[s] = "none")
=============================================================================
