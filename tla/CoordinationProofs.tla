------------------------- MODULE CoordinationProofs -------------------------
(***************************************************************************)
(* Proofs about a coordination: its container outlives its workers, and     *)
(* what the board shows of a run that was stopped or is over is true.  They *)
(* hold for any sizes of the pool and of the phases, with or without        *)
(* sandbox, harness and gauntlet, whatever raises and whenever the runtime  *)
(* restarts.                                                               *)
(***************************************************************************)
EXTENDS ServicesProofs

\* Places where the workers of a phase may still be at work.
Busy == {"await", "leaving", "stalled"}

\* Places where the run has no container yet, or has none any more.
Outside == {"start", "ensure", "over", "down"}

WorkerType == [at : {"queued", "begun", "agent", "out"},
               row : {"none", "running", "completed", "failed", "cancelled"}]

Idle(i) == crew[i].at = "out"

CrewType == crew \in [DOMAIN crew -> WorkerType]

\* The thread waits for a phase, or leaves for a reason.
Placed ==
    /\ place = "await" => phase \in Coord!Phase
    /\ place = "leaving" => ending \in {"cancelled", "failed"}

\* Elsewhere the workers have returned.
Gathered == place \notin Busy => \A i \in DOMAIN crew : Idle(i)

\* Inside, a sandboxed run has its container.
Contained == "sandbox" \in mode /\ place \notin Outside => container = "up"

\* A stop that was granted has ended the row, and a run that has not begun yet will not reopen it.
Stopped == stop = "ok" => row # "running" /\ (place = "start" => row \in Coord!Terminal)

\* A run that is about to end, or over, and still shown running has asked or answered, or the write
\* was lost.
Shown == place \in {"release", "over"} /\ row = "running" => ending = "asked" \/ untold

CoordInv == CrewType /\ Placed /\ Gathered /\ Contained /\ Stopped /\ Shown

LEMMA CoordInit == Coord!Init => CoordInv
  BY DEF Coord!Init, CoordInv, CrewType, Placed, Gathered, Contained, Stopped, Shown, Busy, Outside,
         Coord!Terminal

-----------------------------------------------------------------------------
(* The workers move, and nothing else does.                                  *)

LEMMA WorkerKeeps ==
  ASSUME CoordInv, NEW i \in DOMAIN crew, Coord!Worker(i)
  PROVE  CoordInv'
<1>1. ~Idle(i)
  BY DEF Coord!Worker, Coord!Begin, Coord!Recheck, Coord!AgentEnds, Idle
<1>2. place \in Busy
  BY <1>1 DEF CoordInv, Gathered
<1>3. \E p \in {"begun", "agent", "out"}, s \in {"running", "completed", "failed", "cancelled", crew[i].row} :
         crew' = [crew EXCEPT ![i] = [at |-> p, row |-> s]]
  BY DEF Coord!Worker, Coord!Begin, Coord!Turned, Coord!Recheck, Coord!AgentEnds, Coord!Move
<1>4. CrewType'
  BY <1>3 DEF CoordInv, CrewType, WorkerType
<1>5. UNCHANGED <<mode, place, phase, ending, row, untold, container, stop>>
  BY DEF Coord!Worker, Coord!board
<1> QED
  BY <1>2, <1>4, <1>5 DEF CoordInv, Placed, Gathered, Contained, Stopped, Shown

-----------------------------------------------------------------------------
(* The thread of the coordination.  A new phase begins inside and with a new  *)
(* crew; elsewhere the thread only goes from place to place.                 *)

LEMMA HireIs ==
  ASSUME NEW p \in Coord!Phase, NEW n, Coord!Hire(p, n)
  PROVE  place' = "await" /\ phase' = p /\ crew' \in [DOMAIN crew' -> WorkerType]
  BY DEF Coord!Hire, WorkerType

\* The thread hires the workers of a phase and waits for them.
Hires ==
    /\ place \notin Outside /\ place' = "await" /\ phase' \in Coord!Phase
    /\ crew' \in [DOMAIN crew' -> WorkerType]
    /\ UNCHANGED <<mode, row, untold, container, stop>>

LEMMA HiresKeeps == CoordInv /\ Hires => CoordInv'
  BY DEF CoordInv, Hires, CrewType, Placed, Gathered, Contained, Stopped, Shown, Busy, Outside

\* The thread goes on inside, from a place where its workers have returned, or leaves for a reason.
GoesOn ==
    /\ UNCHANGED <<mode, row, untold, container, stop>>
    /\ crew' = crew \/ (crew' = <<>> /\ place' # "leaving")
    /\ place \notin Outside /\ place' \notin Outside \cup {"await", "release"}
    /\ place' = "leaving" => ending' \in {"cancelled", "failed"}
    /\ place' # "leaving" => Coord!AllOut

\* What holds of the workers of a phase still holds of them, or there are none any more.
LEMMA CrewKept ==
  ASSUME CrewType, crew' \in {crew, <<>>}, Coord!AllOut
  PROVE  CrewType' /\ \A i \in DOMAIN crew' : Idle(i)'
<1>1. CASE crew' = crew
  BY <1>1 DEF CrewType, Idle, Coord!AllOut, Coord!Out
<1>2. CASE crew' = <<>>
  <2>1. DOMAIN crew' = {}
    BY <1>2
  <2> QED
    BY <1>2, <2>1 DEF CrewType, Idle
<1> QED
  BY <1>1, <1>2

LEMMA GoesOnKeeps == CoordInv /\ GoesOn => CoordInv'
<1> SUFFICES ASSUME CoordInv, GoesOn
             PROVE  CoordInv'
  OBVIOUS
<1>1. CASE place' = "leaving"
  BY <1>1 DEF CoordInv, GoesOn, CrewType, Placed, Gathered, Contained, Stopped, Shown, Busy, Outside
<1>2. CASE place' # "leaving"
  BY <1>2, CrewKept DEF CoordInv, GoesOn, Placed, Gathered, Contained, Stopped, Shown, Busy, Outside
<1> QED
  BY <1>1, <1>2

\* The thread ends its run: its workers have returned, and what the row says is not "running"
\* unless the run asked or answered.
EndsRun ==
    /\ UNCHANGED <<mode, container, stop>>
    /\ crew' \in {crew, <<>>}
    /\ place \notin Outside /\ place' = "release"
    /\ Coord!AllOut
    /\ ending' = "asked" \/ row' # "running" \/ untold'
    /\ row' # "running" \/ UNCHANGED row

LEMMA EndsRunKeeps == CoordInv /\ EndsRun => CoordInv'
  BY CrewKept DEF CoordInv, EndsRun, Placed, Gathered, Contained, Stopped, Shown, Busy, Outside

LEMMA OutsideIsGathered == CoordInv /\ place \notin Busy => Coord!AllOut
  BY DEF CoordInv, Gathered, Idle, Coord!AllOut, Coord!Out

\* The first step, and the container: of the run's own, or of its first part.
LEMMA BeginKeeps == CoordInv /\ (Coord!Start \/ Coord!Ensure) => CoordInv'
<1> SUFFICES ASSUME CoordInv, Coord!Start \/ Coord!Ensure
             PROVE  CoordInv'
  OBVIOUS
<1> USE DEF CoordInv, CrewType, Placed, Gathered, Contained, Stopped, Shown, Busy, Outside, Idle,
            Coord!Go, Coord!RowLost
<1>1. CASE Coord!Start
  BY <1>1 DEF Coord!Start, Coord!SetStatus, Coord!Terminal
<1>2. CASE Coord!Ensure
  BY <1>2 DEF Coord!Ensure, Coord!NoContainer, Coord!Finish, Coord!Settles, Coord!board
<1> QED
  BY <1>1, <1>2

\* Which of the three kinds each of the other steps is.
LEMMA InsideIs ==
  ASSUME CoordInv,
         \/ Coord!Interrupt \/ Coord!Enter \/ Coord!Checkout \/ Coord!Decide
         \/ Coord!Synthesize \/ Coord!NextTask \/ Coord!Joined \/ Coord!Judge \/ Coord!Rejudge
         \/ Coord!Complete \/ Coord!Settle \/ Coord!Raise
  PROVE  Hires \/ GoesOn \/ EndsRun
<1> USE OutsideIsGathered DEF Coord!Go, Coord!Phase, Coord!Pooled, Coord!board, Coord!RowLost,
                              Coord!Settles, Outside, Busy
<1>1. CASE Coord!Interrupt
  BY <1>1 DEF Coord!Interrupt, Coord!Boundary, GoesOn
<1>2. CASE Coord!Enter
  <2> USE <1>2 DEF Coord!Enter
  <2>1. CASE Coord!Prepare \/ Coord!Decompose \/ Coord!Findings \/ Coord!Implement \/ Coord!Summarise
    BY <2>1 DEF Coord!Prepare, Coord!Decompose, Coord!Findings, Coord!Implement, Coord!Summarise, GoesOn
  <2>2. CASE Coord!Research
    BY <2>2, HireIs DEF Coord!Research, Hires, GoesOn
  <2>3. CASE Coord!Verify
    BY <2>3, HireIs DEF Coord!Verify, Hires
  <2> QED
    BY <2>1, <2>2, <2>3
<1>3. CASE Coord!Checkout
  BY <1>3 DEF Coord!Checkout, Coord!Finish, GoesOn, EndsRun
<1>4. CASE Coord!Decide
  <2> USE <1>4 DEF Coord!Decide
  <2>1. CASE Coord!Ask \/ Coord!ProjectGate
    BY <2>1 DEF Coord!Ask, Coord!ProjectGate, Coord!Finish, EndsRun
  <2>2. CASE Coord!Perspective
    BY <2>2, HireIs DEF Coord!Perspective, Hires
  <2>3. CASE Coord!Go("research") /\ UNCHANGED <<ending, Coord!board>>
    BY <2>3 DEF GoesOn
  <2> QED
    BY <2>1, <2>2, <2>3
<1>5. CASE Coord!Synthesize
  BY <1>5 DEF Coord!Synthesize, Coord!Ask, GoesOn, EndsRun
<1>6. CASE Coord!NextTask
  BY <1>6, HireIs DEF Coord!NextTask, Hires, GoesOn
<1>7. CASE Coord!Joined
  <2> USE <1>7 DEF Coord!Joined
  <2>1. CASE phase = "repair"
    BY <2>1, HireIs DEF Hires
  <2>2. CASE phase = "perspective"
    BY <2>2 DEF Coord!Dismiss, Coord!AfterPhase, EndsRun
  <2>3. CASE phase \notin {"repair", "perspective"}
    <3>1. phase \in Coord!Phase
      BY DEF CoordInv, Placed
    <3>2. Coord!AfterPhase[phase] \in {"synthesize", "building", "judging", "rejudging", "retrying"}
      BY <2>3, <3>1 DEF Coord!AfterPhase
    <3> QED
      BY <2>3, <3>2 DEF Coord!Dismiss, GoesOn
  <2> QED
    BY <2>1, <2>2, <2>3
<1>8. CASE Coord!Judge
  BY <1>8, HireIs DEF Coord!Judge, Coord!Accept, Hires, GoesOn
<1>9. CASE Coord!Rejudge
  BY <1>9 DEF Coord!Rejudge, Coord!Accept, Coord!Finish, GoesOn, EndsRun
<1>10. CASE Coord!Complete
  BY <1>10 DEF Coord!Complete, Coord!Finish, EndsRun
<1>11. CASE Coord!Settle
  BY <1>11 DEF Coord!Settle, Coord!PoolLeft, Coord!Dismiss, Coord!Finish, EndsRun, CoordInv, Placed
<1>12. CASE Coord!Raise
  BY <1>12 DEF Coord!Raise, Coord!Working, GoesOn
<1> QED
  BY <1>1, <1>2, <1>3, <1>4, <1>5, <1>6, <1>7, <1>8, <1>9, <1>10, <1>11, <1>12

-----------------------------------------------------------------------------
(* The end of the run, the stop endpoint, and the process.                   *)

LEMMA OutsideKeeps ==
  ASSUME CoordInv, Coord!Release \/ Coord!Stall \/ Coord!Stop \/ Coord!Crash \/ Coord!Restart
  PROVE  CoordInv'
<1> USE DEF CoordInv, CrewType, Placed, Gathered, Contained, Stopped, Shown, Busy, Outside, Idle,
            Coord!Go, Coord!SetStatus, Coord!Terminal, Coord!board, Coord!RowLost, Coord!Settles
<1>1. CASE Coord!Release
  BY <1>1 DEF Coord!Release
<1>2. CASE Coord!Stall
  BY <1>2 DEF Coord!Stall
<1>3. CASE Coord!StopRead
  BY <1>3 DEF Coord!StopRead
<1>4. CASE Coord!StopSignal
  BY <1>4 DEF Coord!StopSignal
<1>5. CASE Coord!StopWrite
  BY <1>5 DEF Coord!StopWrite, Coord!CancelRun
<1>6. CASE Coord!Crash
  BY <1>6 DEF Coord!Crash
<1>7. CASE Coord!Restart
  BY <1>7 DEF Coord!Restart, Coord!Reconciled
<1> QED
  BY <1>1, <1>2, <1>3, <1>4, <1>5, <1>6, <1>7 DEF Coord!Stop

LEMMA CoordStep == CoordInv /\ [Coord!Next]_coordinationVars => CoordInv'
<1> SUFFICES ASSUME CoordInv, [Coord!Next]_coordinationVars
             PROVE  CoordInv'
  OBVIOUS
<1>1. CASE UNCHANGED coordinationVars
  BY <1>1 DEF coordinationVars, CoordInv, CrewType, Placed, Gathered, Contained, Stopped, Shown, Idle
<1> QED
  BY <1>1, WorkerKeeps, BeginKeeps, InsideIs, HiresKeeps, GoesOnKeeps, EndsRunKeeps, OutsideKeeps
     DEF Coord!Next, Coord!Coordinator

LEMMA CoordAlways == FairSpec => []CoordInv
<1>1. Init => CoordInv
  BY CoordInit DEF Init
<1>2. CoordInv /\ [Next]_vars => CoordInv'
  BY CoordStep, OneSteps
<1> QED
  BY <1>1, <1>2, PTL DEF FairSpec

-----------------------------------------------------------------------------

\* The container of a sandboxed coordination is there while a worker may be at work in it: after an
\* exception, a stop or a restart too.
THEOREM ContainerOutlivesWorkers == FairSpec => []WorkersHaveContainer
<1>1. CoordInv => WorkersHaveContainer
  BY DEF CoordInv, Gathered, Contained, Busy, Outside, Idle, WorkersHaveContainer,
         Coord!WorkersHaveContainer, Coord!InPool
<1> QED
  BY <1>1, CoordAlways, PTL

\* The board never shows a run running that its owner was told is stopped, nor one that is over,
\* unless it asked or answered, or the database lost the write that was to settle its row.
THEOREM BoardShowsTheEnd == FairSpec => []RowTrue
<1>1. CoordInv => RowTrue
  BY DEF CoordInv, Stopped, Shown, RowTrue, Coord!RowTrue, Coord!StopHolds, Coord!RowSettled
<1> QED
  BY <1>1, CoordAlways, PTL
=============================================================================
