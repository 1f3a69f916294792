------------------------ MODULE MCTriggerScheduler ------------------------
(* Small instances of TriggerScheduler: c is a cron trigger, o a one-shot   *)
(* trigger, i and j interval triggers.                                      *)
EXTENDS TriggerScheduler

CONSTANTS c, o, i, j

EveryMinute == [t \in Cron |-> AnyMinute]
Daily == [t \in Cron |-> 0]
=============================================================================
