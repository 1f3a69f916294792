---------------------------- MODULE TrainingRuns ----------------------------
(* Training and conversion runs of the agent runtime (main.py, section       *)
(* training, grpo_trainer.py, convert_gguf.py).  One dictionary in memory,   *)
(* _active_training, is the guard against a second run; every run also has a *)
(* row in swarm.training_runs.  A training run is a task of the event loop   *)
(* whose work is done by threads; a conversion holds the loop while it       *)
(* works.  A cancel resets the dictionary and stops neither task nor thread, *)
(* and a write to the database that fails is logged and forgotten.           *)
EXTENDS Naturals

CONSTANTS Training, Conversion, NoRun

VARIABLES
    guard,       \* _active_training["status"]
    current,     \* _active_training["run_id"]
    task,        \* _active_training["task"], as the run of the task
    runAt,       \* run -> where its task or thread is
    shown,       \* run -> the status of its row, "none" without one
    known,       \* the training runs whose task knows the id of their row
    missed       \* a write that would have changed a status was lost

trainingVars == <<guard, current, task, runAt, shown, known, missed>>

AnyRun == Training \union Conversion
Place == {"unused", "created", "dataset", "training", "recorded", "returned", "raised",
          "added", "converting", "over"}
Busy == {"dataset", "training", "recorded", "returned", "raised"}

TypeOK ==
    /\ guard \in {"idle", "running"}
    /\ current \in AnyRun \union {NoRun} /\ task \in Training \union {NoRun}
    /\ runAt \in [AnyRun -> Place]
    /\ shown \in [AnyRun -> {"none", "running", "completed", "failed"}]
    /\ known \subseteq Training
    /\ missed \in BOOLEAN

Init ==
    /\ guard = "idle" /\ current = NoRun /\ task = NoRun
    /\ runAt = [r \in AnyRun |-> "unused"]
    /\ shown = [r \in AnyRun |-> "none"]
    /\ known = {} /\ missed = FALSE

Go(r, place) == runAt' = [runAt EXCEPT ![r] = place]

\* A conversion is synchronous code on the event loop: nothing else runs there meanwhile.
LoopFree == \A c \in Conversion : runAt[c] # "converting"

\* The update is unconditional, and an error of the database is swallowed.  Bound: one write that
\* would change a status is lost.
Write(r, status) ==
    \/ shown' = [shown EXCEPT ![r] = status] /\ UNCHANGED missed
    \/ ~missed /\ shown[r] # status /\ missed' = TRUE /\ UNCHANGED shown

\* The task writes only when it knows the row.
WriteKnown(t, status) ==
    IF t \in known THEN Write(t, status) ELSE UNCHANGED <<shown, missed>>

-----------------------------------------------------------------------------
(* A training run.                                                           *)

\* The guard is read here and set by the task's first step, which is a later step of the loop.
Start(t) ==
    /\ LoopFree /\ runAt[t] = "unused" /\ guard = "idle"
    /\ task' = t /\ Go(t, "created")
    /\ UNCHANGED <<guard, current, shown, known, missed>>

Begin(t) ==
    /\ LoopFree /\ runAt[t] = "created"
    /\ guard' = "running"
    /\ \/ shown' = [shown EXCEPT ![t] = "running"] /\ known' = known \union {t}
          /\ current' = t /\ UNCHANGED missed
       \/ ~missed /\ missed' = TRUE /\ UNCHANGED <<shown, known, current>>
    /\ Go(t, "dataset")
    /\ UNCHANGED task

\* The thread that exports, downloads or generates the dataset is done, and the loop hands the
\* training to another one.  The first thread touches nothing modelled here.
Train(t) ==
    /\ LoopFree /\ runAt[t] = "dataset"
    /\ WriteKnown(t, "running")
    /\ Go(t, "training")
    /\ UNCHANGED <<guard, current, task, known>>

\* train_grpo uses the row it is given, or inserts one that nobody else knows.
Record(t) ==
    /\ runAt[t] = "training"
    /\ \/ Write(t, "running") /\ Go(t, "recorded")
       \/ Go(t, "raised") /\ UNCHANGED <<shown, missed>>
    /\ UNCHANGED <<guard, current, task, known>>

Heartbeat(t) ==
    /\ runAt[t] = "recorded" /\ shown[t] \notin {"none", "running"}
    /\ Write(t, "running")
    /\ UNCHANGED <<guard, current, task, runAt, known>>

TrainEnds(t) ==
    /\ runAt[t] = "recorded"
    /\ \E end \in {"completed", "failed"} :
        /\ IF shown[t] = "none" THEN UNCHANGED <<shown, missed>> ELSE Write(t, end)
        /\ Go(t, IF end = "completed" THEN "returned" ELSE "raised")
    /\ UNCHANGED <<guard, current, task, known>>

\* The `finally` clause, and the cancel.
Released == guard' = "idle" /\ current' = NoRun /\ task' = NoRun

\* An export is over with its dataset; it and a synthetic run write "completed", the others have
\* left that to train_grpo.  What was asked for shows here for the first time.  The guard is reset
\* whichever run holds it by now.
Returns(t) ==
    /\ LoopFree
    /\ \/ runAt[t] \in {"dataset", "returned"} /\ WriteKnown(t, "completed")
       \/ runAt[t] = "returned" /\ UNCHANGED <<shown, missed>>
    /\ Released /\ Go(t, "over") /\ known' = known \ {t}

\* Mutation of Raises: the failure is recorded, and the guard is reset only where a run returns.
RaisesHolding(t) ==
    /\ LoopFree /\ runAt[t] \in {"dataset", "raised"}
    /\ WriteKnown(t, "failed")
    /\ Go(t, "over") /\ known' = known \ {t}
    /\ UNCHANGED <<guard, current, task>>

Raises(t) ==
    /\ LoopFree /\ runAt[t] \in {"dataset", "raised"}
    /\ WriteKnown(t, "failed")
    /\ Released /\ Go(t, "over") /\ known' = known \ {t}

\* What a run does by itself once it was started.
Proceeds(t) ==
    Begin(t) \/ Train(t) \/ Record(t) \/ TrainEnds(t) \/ Returns(t) \/ Raises(t)

\* The id of a conversion, "convert-N", is no key of the table: its row is not marked.
Cancel ==
    /\ LoopFree /\ <<guard, current, task>> # <<"idle", NoRun, NoRun>>
    /\ IF current \in Training THEN Write(current, "failed") ELSE UNCHANGED <<shown, missed>>
    /\ Released
    /\ UNCHANGED <<runAt, known>>

\* What the watchdog looks for once a minute: a task that ended and did not reset the guard.
WatchdogFinds == task # NoRun /\ runAt[task] = "over"

-----------------------------------------------------------------------------
(* A conversion, and the process.                                            *)

StartConversion(c) ==
    /\ LoopFree /\ runAt[c] = "unused" /\ guard = "idle"
    /\ Go(c, "added")
    /\ UNCHANGED <<guard, current, task, shown, known, missed>>

\* run_convert inserts a row of its own, unless the source run cannot be used.
ConversionBegins(c) ==
    /\ LoopFree /\ runAt[c] = "added"
    /\ current' = c
    /\ \/ guard' = "running" /\ Write(c, "running") /\ Go(c, "converting")
       \/ guard' = "idle" /\ Go(c, "over") /\ UNCHANGED <<shown, missed>>
    /\ UNCHANGED <<task, known>>

\* The run_id stays behind.
ConversionEnds(c) ==
    /\ runAt[c] = "converting"
    /\ \E end \in {"completed", "failed"} :
        IF shown[c] = "none" THEN UNCHANGED <<shown, missed>> ELSE Write(c, end)
    /\ guard' = "idle" /\ Go(c, "over")
    /\ UNCHANGED <<current, task, known>>

Converts(c) == ConversionBegins(c) \/ ConversionEnds(c)

\* Mutation of Cleanup: the startup leaves the rows as they are.
CleanupNothing == UNCHANGED <<shown, missed>>

\* The startup marks the rows of the runs that were cut off, unless the database fails it.
Cleanup ==
    LET stale == {r \in AnyRun : shown[r] = "running"} IN
    \/ /\ shown' = [r \in AnyRun |-> IF r \in stale THEN "failed" ELSE shown[r]]
       /\ UNCHANGED missed
    \/ ~missed /\ stale # {} /\ missed' = TRUE /\ UNCHANGED shown

Restart ==
    /\ \E r \in AnyRun : runAt[r] \notin {"unused", "over"} \/ shown[r] = "running"
    /\ runAt' = [r \in AnyRun |-> IF runAt[r] = "unused" THEN "unused" ELSE "over"]
    /\ Released /\ Cleanup /\ known' = {}

Next ==
    \/ \E t \in Training :
        Start(t) \/ Proceeds(t) \/ Heartbeat(t)
    \/ Cancel
    \/ \E c \in Conversion : StartConversion(c) \/ Converts(c)
    \/ Restart

-----------------------------------------------------------------------------
(* What the guard and the rows promise, across cancels, overlapping runs and *)
(* restarts.                                                                 *)

\* A guard that refuses every start belongs to a run that will reset it, and a task that ended is
\* not found by the watchdog: no way out of a run leaves the runtime refusing to train.
GuardHasOwner ==
    /\ guard = "running" =>
        \/ \E t \in Training : runAt[t] \in Busy
        \/ \E c \in Conversion : runAt[c] = "converting"
    /\ ~WatchdogFinds

\* Every row that says "running" is settled for good, though a cancelled thread may write "running"
\* over "failed", unless the database lost a write.
RowsSettle == <>[](missed \/ \A r \in AnyRun : shown[r] # "running")

\* Refuted by a cancel, and by two starts before the first task's first step (main.py:4537): a
\* training run is refused while another one is in progress.
OneTraining ==
    \A t, u \in Training : t # u => runAt[t] \notin Busy \/ runAt[u] \notin Busy

\* Refuted: a row that was marked failed by a cancel stays failed (main.py:4841).
CancelHolds == [][\A t \in Training : shown[t] = "failed" => shown'[t] = "failed"]_trainingVars

\* Refuted by one lost write, which no watchdog repairs: no row stays "running" while the runtime is
\* up (main.py:3445-3451).
NoRowStuck == <>[](\A r \in AnyRun : shown[r] # "running")
=============================================================================
