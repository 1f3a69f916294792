---------------------------- MODULE SwarmClarify ----------------------------
(* The ask for the swarm that the voice assistant parks in _pending_clarify  *)
(* while it waits for the answer to a question (services/friday_brain/       *)
(* main.py, _answer).  Turns of several rooms interleave where they wait.    *)
EXTENDS Naturals

CONSTANTS MaxAsks      \* bound: asks for the swarm

VARIABLES
    asks,          \* number of asks so far
    parked,        \* the ask in _pending_clarify, 0 for none
    handoffs       \* where the turn of each ask is, and how often it was handed to the swarm

vars == <<asks, parked, handoffs>>

Ask == 1..MaxAsks

TypeOK ==
    /\ asks \in 0..MaxAsks /\ parked \in 0..MaxAsks
    /\ handoffs \in [Ask -> [at : {"none", "assess", "parked", "fold", "over"}, times : 0..1]]

Init ==
    /\ asks = 0 /\ parked = 0
    /\ handoffs = [a \in Ask |-> [at |-> "none", times |-> 0]]

HandOff(a) == [handoffs EXCEPT ![a] = [at |-> "over", times |-> handoffs[a].times + 1]]

\* The turn waits for the place and for the question, if any, that the task needs.
AskSwarm ==
    /\ asks < MaxAsks /\ asks' = asks + 1
    /\ handoffs' = [handoffs EXCEPT ![asks + 1].at = "assess"]
    /\ UNCHANGED parked

\* Too vague: the ask is parked in place of another; else it goes to the swarm.
Assessed(a) ==
    /\ handoffs[a].at = "assess"
    /\ \/ parked' = a /\ handoffs' = [handoffs EXCEPT ![a].at = "parked"]
       \/ parked' = 0 /\ handoffs' = HandOff(a)
    /\ UNCHANGED asks

\* The next utterance is the answer; it is folded in after another wait.
AnswerClarify ==
    /\ parked # 0
    /\ handoffs' = [handoffs EXCEPT ![parked].at = "fold"]
    /\ parked' = 0
    /\ UNCHANGED asks

Folded(a) ==
    /\ handoffs[a].at = "fold"
    /\ handoffs' = HandOff(a)
    /\ UNCHANGED <<asks, parked>>

\* The user declines, or the question is too old to be answered.
DropClarify ==
    /\ parked # 0
    /\ parked' = 0
    /\ UNCHANGED <<asks, handoffs>>

Next ==
    \/ AskSwarm \/ AnswerClarify \/ DropClarify
    \/ \E a \in Ask : Assessed(a) \/ Folded(a)

-----------------------------------------------------------------------------

\* An ask is handed to the swarm at most once, however the turns of several rooms interleave.
HandedOnce == \A a \in Ask : handoffs[a].times <= 1

\* An ask that waits for an answer is not forgotten before it is answered or declined.  Refuted:
\* the next ask, of whichever room, replaces it.
ParkedIsKept == \A a \in Ask : handoffs[a].at = "parked" /\ parked # 0 => parked = a
=============================================================================
