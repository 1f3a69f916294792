--------------------------- MODULE WorkflowEngine ---------------------------
(* One run of a workflow (agents/workflow_engine.py run_workflow): the       *)
(* thread that schedules the steps and the pool of threads that runs them.   *)
EXTENDS Naturals, Sequences, SequencesExt, FiniteSets

CONSTANTS
    Order,         \* the steps, in the order in which the caller lists them
    HasRollback,   \* steps with a rollback_fn
    MaxParallel

VARIABLES
    deps,          \* depends_on of each step
    step,          \* state of each step
    workflow,      \* state of the workflow
    at,            \* where the scheduling thread is
    ready,         \* steps of the round
    completed,     \* completed_steps
    undo,          \* steps that _rollback has still to look at
    undone         \* history: steps whose rollback_fn was called, in order

vars == <<deps, step, workflow, at, ready, completed, undo, undone>>

Step == ToSet(Order)
Going == {s \in Step : step[s] = "running"}

TypeOK ==
    /\ deps \in [Step -> SUBSET Step]
    /\ step \in [Step -> {"pending", "running", "completed", "failed", "skipped"}]
    /\ workflow \in {"running", "completed", "failed", "rolled_back"}
    /\ at \in {"scan", "serial", "pool", "rollback", "drain", "over"}
    /\ ready \subseteq Step /\ completed \subseteq Step
    /\ undo \in Seq(Step) /\ undone \in Seq(Step)

Init ==
    /\ deps \in [Step -> SUBSET Step]
    /\ step = [s \in Step |-> "pending"]
    /\ workflow = "running"
    /\ at = "scan"
    /\ ready = {} /\ completed = {}
    /\ undo = <<>> /\ undone = <<>>

\* The steps that may run: all they depend on is in completed_steps.
Ready == {s \in Step \ completed : deps[s] \subseteq completed}

\* Mutation of Stuck: the loop goes on looking for a step.
StuckSpins ==
    /\ Ready = {}
    /\ step' = [s \in Step |-> IF s \notin completed THEN "skipped" ELSE step[s]]
    /\ UNCHANGED <<deps, workflow, at, ready, completed, undo, undone>>

\* No step can run: the others are skipped, and the workflow counts as completed.
Stuck ==
    /\ Ready = {}
    /\ step' = [s \in Step |-> IF s \notin completed THEN "skipped" ELSE step[s]]
    /\ workflow' = "completed"
    /\ at' = "over"
    /\ UNCHANGED <<deps, ready, completed, undo, undone>>

Scan ==
    /\ at = "scan"
    /\ \/ /\ Ready # {}
          /\ ready' = Ready
          /\ at' = IF Cardinality(Ready) = 1 THEN "serial" ELSE "pool"
          /\ UNCHANGED <<deps, step, workflow, completed, undo, undone>>
       \/ Stuck

\* _run_step begins, in the scheduling thread or in a thread of the pool: the condition may skip
\* the step.  The pool starts them in the order listed.
Begin(s) ==
    /\ at \in {"serial", "pool", "rollback", "drain"}
    /\ s \in ready /\ step[s] = "pending"
    /\ Cardinality(Going) < MaxParallel
    /\ \A i, j \in DOMAIN Order : Order[j] = s /\ i < j /\ Order[i] \in ready => step[Order[i]] # "pending"
    /\ \E next \in {"running", "skipped"} : step' = [step EXCEPT ![s] = next]
    /\ UNCHANGED <<deps, workflow, at, ready, completed, undo, undone>>

\* The handler returns or raises.
End(s) ==
    /\ step[s] = "running"
    /\ \E next \in {"completed", "failed"} : step' = [step EXCEPT ![s] = next]
    /\ UNCHANGED <<deps, workflow, at, ready, completed, undo, undone>>

\* A step has failed: what is in completed_steps is to be undone, the last listed first.
Fail(done, next) ==
    /\ workflow' = "failed"
    /\ undo' = Reverse(SelectSeq(Order, LAMBDA s : s \in done))
    /\ at' = next

\* The thread takes note of a step that is over; of several, in any order.
Harvest(s) ==
    /\ at \in {"serial", "pool"}
    /\ s \in ready \ completed /\ step[s] \notin {"pending", "running"}
    /\ completed' = completed \cup {s}
    /\ IF step[s] = "failed"
       THEN Fail(completed', "rollback")
       ELSE /\ at' = IF ready \subseteq completed' THEN "scan" ELSE at
            /\ UNCHANGED <<workflow, undo>>
    /\ UNCHANGED <<deps, step, ready, undone>>

\* _rollback calls the rollback_fn of one step; should it raise, that is only logged.
Undo ==
    /\ at = "rollback" /\ undo # <<>>
    /\ undo' = Tail(undo)
    /\ undone' = IF Head(undo) \in HasRollback /\ step[Head(undo)] = "completed"
                 THEN Append(undone, Head(undo)) ELSE undone
    /\ UNCHANGED <<deps, step, workflow, at, ready, completed>>

\* The rollback is over; it counts only what did not raise.  Leaving the pool then waits for every
\* step of the round.
Undone ==
    /\ at = "rollback" /\ undo = <<>>
    /\ workflow' \in {"failed"} \cup {"rolled_back" : s \in ToSet(undone)}
    /\ at' = "drain"
    /\ UNCHANGED <<deps, step, ready, completed, undo, undone>>

Return ==
    /\ at = "drain"
    /\ \A s \in ready : step[s] \notin {"pending", "running"}
    /\ at' = "over"
    /\ UNCHANGED <<deps, step, workflow, ready, completed, undo, undone>>

Scheduler == Scan \/ (\E s \in Step : Harvest(s)) \/ Undo \/ Undone \/ Return
Worker == \E s \in Step : Begin(s) \/ End(s)

Next == Scheduler \/ Worker

-----------------------------------------------------------------------------

\* A handler runs only after everything its step depends on has completed or was skipped by its
\* condition; never after a failure.
RunsAfterDeps == \A s \in Going : \A d \in deps[s] : step[d] \in {"completed", "skipped"}

Position(s) == CHOOSE i \in DOMAIN Order : Order[i] = s

\* When the steps are listed after what they depend on, a step is undone before what it depends on.
UndoneInOrder ==
    (\A s \in Step : \A d \in deps[s] : Position(d) < Position(s)) =>
        \A i, j \in DOMAIN undone : undone[j] \in deps[undone[i]] => i < j

\* Whatever the dependencies, cycles included, a run ends when the handlers do.
WorkflowEnds == <>(at = "over")

\* After a failure everything that completed has been undone.  (A step of the same round that ends
\* after the failure is not.)
RollbackComplete ==
    at = "over" /\ workflow \in {"failed", "rolled_back"} =>
        \A s \in HasRollback : step[s] = "completed" => s \in ToSet(undone)
=============================================================================
