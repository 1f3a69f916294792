---------------------------- MODULE Coordination ----------------------------
(* One coordination (agents/coordination/orchestrator.py coordinate_task):   *)
(* the thread that runs its phases, the worker agents of the phase, the      *)
(* container they work in, the row of the task board, the stop endpoint, and *)
(* what a restart makes of a run it interrupts.                              *)
EXTENDS Naturals, Sequences, FiniteSets

CONSTANTS
    PoolSize,      \* max_workers of the thread pool
    MaxResearch,   \* bound: workers of the research phase
    MaxImpl,       \* bound: tasks of the implementation phase
    DbFails        \* whether writes of the row may be lost

VARIABLES
    mode,          \* of "sandbox", "harness", "gauntlet", and "chat" for a client that may leave
    at,            \* where the thread of the coordination is
    phase,         \* the phase whose workers it waits for
    crew,          \* these workers: where each is and its row in swarm_workers
    todo,          \* implementation tasks still to run
    said,          \* the critic's last verdict
    ending,        \* why the phases were left early
    cancelled,     \* session.cancel_flag
    row,           \* status of the run in swarm_runs
    bar,           \* the row has a gauntlet_bar
    container,     \* the session container
    stop,          \* the stop request
    untold         \* history: a write that was to settle the row was lost

board == <<row, untold>>
vars == <<mode, at, phase, crew, todo, said, ending, cancelled, board, bar, container, stop>>

Pass == "VERDICT: PASS"
Fail == "VERDICT: FAIL"
Terminal == {"completed", "failed", "cancelled"}

\* Places where _ensure_not_cancelled is called first.
Boundary == {"prep", "decompose", "research", "synthesize", "implement", "verify", "finish"}
\* Places where a call may raise.
Working == {"deciding", "synthesizing", "building", "judging", "rejudging", "retrying", "finishing"}
\* Phases whose workers run in a thread pool; those of the others run one by one in the thread.
Pooled == {"research", "perspective"}
Phase == Pooled \cup {"implementation", "verification", "repair", "recheck", "retry"}

TypeOK ==
    /\ mode \subseteq {"sandbox", "harness", "gauntlet", "chat"}
    /\ at \in Boundary \cup Working \cup
              {"start", "ensure", "checkout", "await", "leaving", "release", "over", "down", "stalled"}
    /\ phase \in Phase \cup {"none"}
    /\ crew \in Seq([at : {"queued", "begun", "agent", "out"},
                     row : {"none", "running", "completed", "failed", "cancelled"}])
    /\ todo \in 0..MaxImpl
    /\ said \in {"none", Pass, Fail}
    /\ ending \in {"none", "asked", "cancelled", "failed"}
    /\ cancelled \in BOOLEAN /\ bar \in BOOLEAN /\ untold \in BOOLEAN
    /\ row \in Terminal \cup {"none", "running", "needs_input"}
    /\ container \in {"none", "up"}
    /\ stop \in {"none", "signal", "write", "ok", "refused", "lost"}

\* The first request, with or without a row made by the endpoint, or the answer to a question: then
\* the container of the first part may still be there, and the critic's bar in the row.
Init ==
    /\ mode \in SUBSET {"sandbox", "harness", "gauntlet", "chat"}
    /\ at = "start" /\ phase = "none" /\ crew = <<>> /\ todo = 0
    /\ said = "none" /\ ending = "none" /\ cancelled = FALSE
    /\ row \in {"none", "running", "needs_input"}
    /\ bar \in BOOLEAN /\ (bar => "gauntlet" \in mode /\ row = "needs_input")
    /\ container \in {"none", "up"} /\ (container = "up" => "sandbox" \in mode /\ row = "needs_input")
    /\ stop = "none"
    /\ untold = FALSE

-----------------------------------------------------------------------------
(* The row of the run: swarm_run_store, which logs a database error and goes  *)
(* on: the row stays as it was.                                              *)

RowLost == DbFails /\ UNCHANGED row

\* create_run, which leaves a row alone, then set_status, which leaves an ended run alone.
SetStatus(r, status) == IF r \in Terminal THEN r ELSE status

\* What a restart makes of a row.
Reconciled(r, b) == IF r # "running" THEN r ELSE IF b THEN "needs_input" ELSE "failed"

\* The row is settled, or the write is lost.
Settles(status) ==
    \/ row' = status /\ UNCHANGED untold
    \/ RowLost /\ untold' = TRUE

-----------------------------------------------------------------------------
(* The workers of a phase.                                                   *)

Out == {i \in DOMAIN crew : crew[i].at = "out"}
AllOut == Out = DOMAIN crew
InPool == {i \in DOMAIN crew : crew[i].at \in {"begun", "agent"}}

Move(i, place, status) == crew' = [crew EXCEPT ![i] = [at |-> place, row |-> status]]

\* Mutation of Turned: a worker of a cancelled session waits to be let in.
TurnedWait(i) == Move(i, "queued", "cancelled")

\* _run_worker finds the session cancelled.
Turned(i) == Move(i, "out", "cancelled")

\* _run_worker begins, in the order of submission, when a thread of the pool is free.
Begin(i) ==
    /\ crew[i].at = "queued"
    /\ \A j \in 1..(i - 1) : crew[j].at # "queued"
    /\ Cardinality(InPool) < PoolSize
    /\ IF cancelled THEN Turned(i) ELSE Move(i, "begun", "running")

\* The second look at the flag, after the row was set to running: it is left so.
Recheck(i) ==
    /\ crew[i].at = "begun"
    /\ IF cancelled THEN Move(i, "out", crew[i].row) ELSE Move(i, "agent", crew[i].row)

\* The agent returns or raises.  A plain agent's output is dropped when the session is cancelled; a
\* DevHarness worker commits its own.
AgentEnds(i) ==
    /\ crew[i].at = "agent"
    /\ \/ IF cancelled /\ "harness" \notin mode
          THEN Move(i, "out", "cancelled")
          ELSE Move(i, "out", "completed")
       \/ Move(i, "out", "failed")

Worker(i) ==
    /\ Begin(i) \/ Recheck(i) \/ AgentEnds(i)
    /\ UNCHANGED <<mode, at, phase, todo, said, ending, cancelled, board, bar, container, stop>>

-----------------------------------------------------------------------------
(* The thread of the coordination.                                           *)

Hire(p, n) ==
    /\ phase' = p
    /\ crew' = [i \in 1..n |-> [at |-> "queued", row |-> "none"]]
    /\ at' = "await"

Go(place) == at' = place /\ UNCHANGED <<phase, crew>>

\* Workers that have all returned are forgotten.
Dismiss(place) == at' = place /\ phase' = "none" /\ crew' = IF AllOut THEN <<>> ELSE crew

\* finish_run, whatever the row says; there may be none.
Finish(status) == Settles(IF row = "none" THEN row ELSE status)

Start ==
    /\ at = "start"
    /\ row' = SetStatus(row, "running") \/ RowLost
    /\ Go(IF "sandbox" \in mode THEN "ensure" ELSE "prep")
    /\ UNCHANGED <<mode, todo, said, ending, cancelled, bar, container, stop, untold>>

\* Mutation of NoContainer: the row is left.
NoContainerSilent == Go("over") /\ container' \in {container, "up"} /\ UNCHANGED board

\* ensure_session_container raises, perhaps after Docker has made one: the run returns before the
\* try whose finally would remove it.
NoContainer == Go("over") /\ container' \in {container, "up"} /\ Finish("failed")

\* ensure_session_container makes the container or takes the one that is there.
Ensure ==
    /\ at = "ensure"
    /\ \/ Go("prep") /\ container' = "up" /\ UNCHANGED board
       \/ NoContainer
    /\ UNCHANGED <<mode, todo, said, ending, cancelled, bar, stop>>

\* _ensure_not_cancelled raises, at a boundary or while the thread waits for a pool.
Interrupt ==
    /\ at \in Boundary \/ (at = "await" /\ phase \in Pooled)
    /\ cancelled
    /\ Go("leaving")
    /\ ending' = "cancelled"
    /\ UNCHANGED <<mode, todo, said, cancelled, board, bar, container, stop>>

\* A call of the coordination raises.
Raise ==
    /\ at \in Working \/ (at = "await" /\ phase \in Pooled)
    /\ Go("leaving")
    /\ ending' = "failed"
    /\ UNCHANGED <<mode, todo, said, cancelled, board, bar, container, stop>>

\* Workspace prep and decomposition.
Prepare == at = "prep" /\ Go("checkout") /\ UNCHANGED todo
Decompose == at = "decompose" /\ Go("deciding") /\ UNCHANGED todo

\* The research workers, should the plan have any, are handed to a pool together.
Research ==
    /\ at = "research"
    /\ (\E n \in 1..MaxResearch : Hire("research", n)) \/ Go("synthesize")
    /\ UNCHANGED todo

\* The later phases; the plan says how many implementation tasks there are.
Findings == at = "synthesize" /\ Go("synthesizing") /\ UNCHANGED todo
Implement == at = "implement" /\ Go("building") /\ todo' \in 0..MaxImpl
Verify == at = "verify" /\ Hire("verification", 1) /\ UNCHANGED todo
Summarise == at = "finish" /\ Go("finishing") /\ UNCHANGED todo

\* The check at a boundary passes, and the phase begins.
Enter ==
    /\ ~cancelled
    /\ Prepare \/ Decompose \/ Research \/ Findings \/ Implement \/ Verify \/ Summarise
    /\ UNCHANGED <<mode, said, ending, cancelled, board, bar, container, stop>>

Checkout ==
    /\ at = "checkout"
    /\ \/ Go("decompose") /\ UNCHANGED board
       \/ Go("release") /\ Finish("failed")
    /\ UNCHANGED <<mode, todo, said, ending, cancelled, bar, container, stop>>

\* A clarification card is shown and the run returns; nothing is written to the row.
Ask == Go("release") /\ ending' = "asked" /\ UNCHANGED board

\* The project gate asks too, and says so in the row.
ProjectGate == Go("release") /\ Finish("needs_input") /\ UNCHANGED ending

\* The perspective branch hands its workers to a pool with no check in between.
Perspective == (\E n \in 1..MaxResearch : Hire("perspective", n)) /\ UNCHANGED <<ending, board>>

\* What the plan calls for.
Decide ==
    /\ at = "deciding"
    /\ Ask \/ ProjectGate \/ Perspective \/ (Go("research") /\ UNCHANGED <<ending, board>>)
    /\ UNCHANGED <<mode, todo, said, cancelled, bar, container, stop>>

\* Up to three passes over the findings: a plan or a question.
Synthesize ==
    /\ at = "synthesizing"
    /\ Ask \/ (Go("implement") /\ UNCHANGED <<ending, board>>)
    /\ UNCHANGED <<mode, todo, said, cancelled, bar, container, stop>>

\* The next task of the implementation, or of its repetition in execution mode.
NextTask ==
    /\ at \in {"building", "retrying"}
    /\ IF todo = 0
       THEN Go(IF at = "building" THEN "verify" ELSE "finish") /\ UNCHANGED todo
       ELSE Hire(IF at = "building" THEN "implementation" ELSE "retry", 1) /\ todo' = todo - 1
    /\ UNCHANGED <<mode, said, ending, cancelled, board, bar, container, stop>>

AfterPhase ==
    [research |-> "synthesize", perspective |-> "release", implementation |-> "building",
     verification |-> "judging", repair |-> "judging", recheck |-> "rejudging", retry |-> "retrying"]

\* All workers of the phase have returned, and their results are read.  The perspective branch then
\* answers and returns; the repair is followed by a second verifier.
Joined ==
    /\ at = "await" /\ AllOut
    /\ IF phase = "repair"
       THEN Hire("recheck", 1)
       ELSE Dismiss(AfterPhase[phase])
    /\ ending' = IF phase = "perspective" THEN "asked" ELSE ending
    /\ UNCHANGED <<mode, todo, said, cancelled, board, bar, container, stop>>

\* The texts that the pattern of the verdict finds: it is a raw string with doubled backslashes, so
\* it asks for backslashes in the text.
Recognised == {"VERDICT:\\PASS\\b", "VERDICT:\\sPASS\\b"}

\* The work stands: plan-only work may be done again in execution mode.
Accept ==
    \/ Go("finish") /\ UNCHANGED todo
    \/ Go("retrying") /\ todo' \in 0..MaxImpl

\* The verifier's report.  A critic that is not heard to say PASS makes a repair worker work.
Judge ==
    /\ at = "judging"
    /\ IF "gauntlet" \in mode
       THEN /\ said' \in {Pass, Fail}
            /\ bar' = TRUE \/ (DbFails /\ UNCHANGED bar)
            /\ IF said' \in Recognised THEN Accept ELSE (Hire("repair", 1) /\ UNCHANGED todo)
       ELSE Accept /\ UNCHANGED <<said, bar>>
    /\ UNCHANGED <<mode, ending, cancelled, board, container, stop>>

Rejudge ==
    /\ at = "rejudging"
    /\ said' \in {Pass, Fail}
    /\ IF said' \in Recognised
       THEN Accept /\ UNCHANGED board
       ELSE Go("release") /\ Finish("needs_input") /\ UNCHANGED todo
    /\ UNCHANGED <<mode, ending, cancelled, bar, container, stop>>

Complete ==
    /\ at = "finishing"
    /\ Finish("completed")
    /\ Go("release")
    /\ UNCHANGED <<mode, todo, said, ending, cancelled, bar, container, stop>>

\* Mutation of PoolLeft: the exception is handled while workers still run.
PoolLeftAtOnce == TRUE

\* An exception leaves the pool only when its threads have returned.
PoolLeft == AllOut

\* The handler of the exception.
Settle ==
    /\ at = "leaving" /\ PoolLeft
    /\ Finish(ending)
    /\ Dismiss("release")
    /\ UNCHANGED <<mode, todo, said, ending, cancelled, bar, container, stop>>

\* finally: release_session_container, which gives up when Docker does not answer.
Release ==
    /\ at = "release"
    /\ container' \in {"none", container}
    /\ Go("over")
    /\ UNCHANGED <<mode, todo, said, ending, cancelled, board, bar, stop>>

Coordinator ==
    \/ Start \/ Ensure \/ Interrupt \/ Enter \/ Checkout \/ Decide \/ Synthesize \/ NextTask
    \/ Joined \/ Judge \/ Rejudge \/ Complete \/ Settle \/ Release

\* A chat whose client is gone: the put into the full queue of its updates blocks forever, and the
\* generator is never left.
Stall ==
    /\ "chat" \in mode /\ at \notin {"start", "ensure", "over", "down", "stalled"}
    /\ at' = "stalled" /\ phase' = "none" /\ todo' = 0 /\ ending' = "none"
    /\ UNCHANGED <<mode, crew, said, cancelled, board, bar, container, stop>>

-----------------------------------------------------------------------------
(* POST /v1/tasks/{id}/stop, and a restart.                                  *)

StopRead ==
    /\ stop = "none" /\ at # "down"
    /\ stop' = IF row \in {"none", "completed", "failed"} THEN "refused"
               ELSE IF row = "cancelled" THEN "ok" ELSE "signal"
    /\ UNCHANGED <<mode, at, phase, crew, todo, said, ending, cancelled, board, bar, container>>

\* get_active_session finds a session that has begun and is not over.
StopSignal ==
    /\ stop = "signal" /\ at # "down"
    /\ cancelled' = (cancelled \/ at \notin {"start", "over"})
    /\ stop' = "write"
    /\ UNCHANGED <<mode, at, phase, crew, todo, said, ending, board, bar, container>>

\* cancel_run.
CancelRun == (row' = IF row = "none" THEN row ELSE SetStatus(row, "cancelled")) \/ RowLost

StopWrite ==
    /\ stop = "write" /\ at # "down"
    /\ CancelRun
    /\ stop' = IF row' = "cancelled" THEN "ok" ELSE "refused"
    /\ UNCHANGED <<mode, at, phase, crew, todo, said, ending, cancelled, bar, container, untold>>

Stop == StopRead \/ StopSignal \/ StopWrite

Crash ==
    /\ at \notin {"over", "down"}
    /\ at' = "down"
    /\ crew' = <<>> /\ todo' = 0 /\ ending' = "none" /\ cancelled' = FALSE /\ phase' = "none"
    /\ stop' = IF stop \in {"signal", "write"} THEN "lost" ELSE stop
    /\ UNCHANGED <<mode, said, board, bar, container>>

\* Startup: reconcile_stale_runs, then cleanup_orphans, which gives up when Docker does not answer.
Restart ==
    /\ at = "down"
    /\ Settles(Reconciled(row, bar))
    /\ container' \in {"none", container}
    /\ Go("over")
    /\ UNCHANGED <<mode, todo, said, ending, cancelled, bar, stop>>

Next == Coordinator \/ Raise \/ Stall \/ Stop \/ Crash \/ Restart \/ \E i \in DOMAIN crew : Worker(i)

-----------------------------------------------------------------------------

\* The finally of a run removes its container only when no worker can still be at work in it: not
\* after an exception or a stop in the middle of a parallel phase either.
WorkersHaveContainer ==
    "sandbox" \in mode /\ InPool # {} => container = "up"

\* Once the owner was told that the run is stopped, the board never shows it running, whether the
\* stop came before, during or after the work.
StopHolds == stop = "ok" => row # "running"

\* A run that is over is shown running only where it asked a question, or answered in the
\* perspective branch, or where the database lost the write that was to settle the row; not after
\* an error, an exception or a restart.
RowSettled == at = "over" /\ row = "running" => ending = "asked" \/ untold

\* What the board shows of a run is true in both respects.
RowTrue == StopHolds /\ RowSettled

\* A coordination ends, however its workers fare and whenever it is stopped; unless it talks to a
\* chat that nobody reads any more.
CoordinationEnds == at = "start" ~> at \in {"over", "stalled"}

\* A critic that says PASS does not send the run back to the user.
PassIsHeard == at = "release" /\ row = "needs_input" => said # Pass

\* Once its workers have returned they are shown as ended.
WorkersSettled == AllOut => \A i \in DOMAIN crew : crew[i].row # "running"

\* A worker whose session was cancelled commits nothing: "workers check it before committing output"
CancelledCommitsNothing ==
    [][\A i \in DOMAIN crew \cap DOMAIN crew' :
        cancelled /\ crew'[i].row = "completed" => crew[i].row = "completed"]_vars

\* A run that asked a question awaits the answer on the board.
AskedIsShown == at = "over" /\ ending = "asked" => row # "running"
=============================================================================
