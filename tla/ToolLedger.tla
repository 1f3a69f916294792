----------------------------- MODULE ToolLedger -----------------------------
(* What the dev harness promises of tool calls: a call is executed at most   *)
(* as often as somebody allowed it.  DevHarness implements this.             *)
EXTENDS Naturals

CONSTANT Call

VARIABLES granted, ran     \* how often a call was allowed, how often it was executed

vars == <<granted, ran>>

Init ==
    /\ granted = [c \in Call |-> 0]
    /\ ran = [c \in Call |-> 0]

\* The owner approves a call, the permission mode does, or a replay is confirmed.
Grant(c) ==
    /\ granted' = [granted EXCEPT ![c] = @ + 1]
    /\ UNCHANGED ran

\* An execution uses up one permission.
Execute(c) ==
    /\ ran[c] < granted[c]
    /\ ran' = [ran EXCEPT ![c] = @ + 1]
    /\ UNCHANGED granted

Next == \E c \in Call : Grant(c) \/ Execute(c)

Spec == Init /\ [][Next]_vars
=============================================================================
