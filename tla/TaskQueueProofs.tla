-------------------------- MODULE TaskQueueProofs --------------------------
(***************************************************************************)
(* Proofs about TaskQueue, for every set of runs and scopes, every number  *)
(* of phases and restarts, with or without Redis outages.                  *)
(***************************************************************************)
EXTENDS TaskQueue, SequenceTheorems, TLAPS

\* A thread that has popped a run has it in hand, and nothing runs during startup.
Shape ==
    /\ \A r \in Run : pc[r] \in AdvancePC \ {"pop"} => next[r] \in Run
    /\ loop.at # "idle" => loop.run \in Run
    /\ loop.at = "signal" => loop.seen \in {"queued", "running", "needs_input"}
    /\ boot # "up" => loop = Idle /\ \A r \in Run : pc[r] \in {"idle", "done"}

TypeInv == TypeOK /\ Shape

\* What TypeOK says of the variables other than pc and loop.
StateType ==
    /\ lock \in [Scope -> Run \cup {NoRun}]
    /\ queue \in [Scope -> Seq(Run)]
    /\ redisUp \in BOOLEAN
    /\ status \in [Run -> Status]
    /\ pending \subseteq Run /\ cancelled \subseteq Run
    /\ session \in [Run -> {"none", "live", "flagged"}]
    /\ phase \in [Run -> 0..Phases]
    /\ next \in [Run -> Run \cup {NoRun}]
    /\ boot \in {"up", "reconcile", "clear"}
    /\ crashes \in 0..MaxCrashes
    /\ faulted \in BOOLEAN /\ untold \subseteq Run

\* Runs that have been created; they stay created.
Started == {r \in Run : pc[r] # "idle"}

\* A handler that creates a run is the first to touch it, and only created runs wait
\* or are in a thread's hand: no hand-over can start a run its handler is still creating.
Fresh ==
    /\ queue \in [Scope -> Seq(Started)]
    /\ next \in [Run -> Started \cup {NoRun}]
    /\ loop.at \in {"run_row", "queue_row"} => loop.run \in Composer \ Started
    /\ loop.at \in {"queue_args", "enqueue"} => loop.run \in Started

\* While nothing went wrong with Redis or the TTL, whoever has been admitted to a scope,
\* and whoever is about to delete its key, is the owner of that key.
Ownership ==
    ~faulted =>
        /\ redisUp
        /\ \A r \in Run :
              \/ r \in Locked /\ Holding(r)
              \/ pc[r] \in {"rel_del", "drop_del"}
              => lock[ScopeOf[r]] = r

\* The inductive invariant.
IInv == TypeInv /\ Fresh /\ Ownership /\ LockHasOwner

----------------------------------------------------------------------------
(* The one operation on sequences the provers do not know.                  *)

\* Deleting a position of a wait list leaves a wait list.
LEMMA RemoveAtType ==
    ASSUME NEW S, NEW q \in Seq(S), NEW i \in 1..Len(q)
    PROVE  RemoveAt(q, i) \in Seq(S)
<1>1. SubSeq(q, 1, i - 1) \in Seq(S)
  BY SubSeqProperties
<1>2. SubSeq(q, i + 1, Len(q)) \in Seq(S)
  BY SubSeqProperties
<1>. QED
  BY <1>1, <1>2, ConcatProperties DEF RemoveAt

\* lrem keeps the wait lists well typed.
LEMMA RemoveQueuedType ==
    ASSUME NEW S, queue \in [Scope -> Seq(S)], NEW r \in Run, NEW s \in Scope,
           RemoveQueued(r, s)
    PROVE  queue' \in [Scope -> Seq(S)]
<1>1. CASE redisUp /\ Contains(queue[s], r)
  <2>. DEFINE i == CHOOSE i \in DOMAIN queue[s] : queue[s][i] = r
  <2>1. queue[s] \in Seq(S) /\ DOMAIN queue[s] = 1..Len(queue[s])
    OBVIOUS
  <2>2. i \in 1..Len(queue[s])
    BY <1>1, <2>1 DEF Contains
  <2>3. RemoveAt(queue[s], i) \in Seq(S)
    BY <2>1, <2>2, RemoveAtType
  <2>. QED
    BY <1>1, <2>3 DEF RemoveQueued
<1>2. CASE ~(redisUp /\ Contains(queue[s], r))
  BY <1>2 DEF RemoveQueued
<1>. QED
  BY <1>1, <1>2

----------------------------------------------------------------------------
(* Type correctness, one lemma per group of actions.                        *)

\* Shape survives a step of a thread that leaves the loop alone and gives no other
\* thread a run to advance.
LEMMA ShapeStep ==
    ASSUME Shape, NEW r \in Run, pc[r] \notin {"idle", "done"},
           boot' = boot, loop' = loop,
           pc'[r] \in AdvancePC \ {"pop"} => next'[r] \in Run,
           \A q \in Run \ {r} :
              pc'[q] \in AdvancePC \ {"pop"} => pc'[q] = pc[q] /\ next'[q] = next[q]
    PROVE  Shape'
<1>1. boot' = "up"
  BY DEF Shape
<1>2. ASSUME NEW q \in Run, pc'[q] \in AdvancePC \ {"pop"} PROVE next'[q] \in Run
  BY <1>2 DEF Shape
<1>. QED
  BY <1>1, <1>2 DEF Shape

LEMMA CreateType ==
    ASSUME TypeInv, NEW r \in Run
    PROVE  /\ CreateAdmitted(r) => TypeInv'
           /\ CreateWaits(r) => TypeInv'
           /\ CreateRunningRow(r) => TypeInv'
           /\ CreateQueuedRow(r) => TypeInv'
           /\ CreateArgs(r) => TypeInv'
           /\ CreateEnqueue(r) => TypeInv'
<1>. USE RunAssumption, ScopeAssumption, BoundAssumption
         DEF TypeInv, redisVars, memoryVars, threadVars, hostVars, historyVars
<1>1. ASSUME CreateAdmitted(r) PROVE TypeInv'
  <2>1. StateType'
    BY <1>1 DEF CreateAdmitted, Acquire, TypeOK, StateType, Status, Terminal
  <2>2. pc' \in [Run -> PC]
    BY <1>1 DEF CreateAdmitted, Acquire, TypeOK, PC, DispatchPC, CoordinatePC, AdvancePC
  <2>3. loop' \in LoopType
    BY <1>1 DEF CreateAdmitted, Acquire, TypeOK, LoopType, Idle, CreatePC, StopPC, Status
  <2>4. Shape'
    BY <1>1, <2>2 DEF CreateAdmitted, Acquire, TypeOK, Shape, Idle, AdvancePC
  <2>. QED
    BY <2>1, <2>2, <2>3, <2>4 DEF StateType, TypeOK
<1>2. ASSUME CreateWaits(r) PROVE TypeInv'
  <2>1. StateType'
    BY <1>2 DEF CreateWaits, TypeOK, StateType, Status, Terminal
  <2>2. pc' \in [Run -> PC]
    BY <1>2 DEF CreateWaits, TypeOK, PC, DispatchPC, CoordinatePC, AdvancePC
  <2>3. loop' \in LoopType
    BY <1>2 DEF CreateWaits, TypeOK, LoopType, Idle, CreatePC, StopPC, Status
  <2>4. Shape'
    BY <1>2, <2>2 DEF CreateWaits, TypeOK, Shape, Idle, AdvancePC
  <2>. QED
    BY <2>1, <2>2, <2>3, <2>4 DEF StateType, TypeOK
<1>3. ASSUME CreateRunningRow(r) PROVE TypeInv'
  <2>1. StateType'
    BY <1>3 DEF CreateRunningRow, CreateRun, RowLost, Goto, TypeOK, StateType, Status, Terminal
  <2>2. pc' \in [Run -> PC]
    BY <1>3 DEF CreateRunningRow, Goto, TypeOK, PC, DispatchPC, CoordinatePC, AdvancePC
  <2>3. loop' \in LoopType
    BY <1>3 DEF CreateRunningRow, Goto, TypeOK, LoopType, Idle, CreatePC, StopPC, Status
  <2>4. Shape'
    BY <1>3, <2>2 DEF CreateRunningRow, Goto, TypeOK, Shape, Idle, AdvancePC
  <2>. QED
    BY <2>1, <2>2, <2>3, <2>4 DEF StateType, TypeOK
<1>4. ASSUME CreateQueuedRow(r) PROVE TypeInv'
  <2>1. StateType'
    BY <1>4 DEF CreateQueuedRow, CreateRun, RowLost, Goto, TypeOK, StateType, Status, Terminal
  <2>2. pc' \in [Run -> PC]
    BY <1>4 DEF CreateQueuedRow, Goto, TypeOK, PC, DispatchPC, CoordinatePC, AdvancePC
  <2>3. loop' \in LoopType
    BY <1>4 DEF CreateQueuedRow, Goto, TypeOK, LoopType, Idle, CreatePC, StopPC, Status
  <2>4. Shape'
    BY <1>4, <2>2 DEF CreateQueuedRow, Goto, TypeOK, Shape, Idle, AdvancePC
  <2>. QED
    BY <2>1, <2>2, <2>3, <2>4 DEF StateType, TypeOK
<1>5. ASSUME CreateArgs(r) PROVE TypeInv'
  <2>1. StateType'
    BY <1>5 DEF CreateArgs, TypeOK, StateType, Status, Terminal
  <2>2. pc' \in [Run -> PC]
    BY <1>5 DEF CreateArgs, TypeOK, PC, DispatchPC, CoordinatePC, AdvancePC
  <2>3. loop' \in LoopType
    BY <1>5 DEF CreateArgs, TypeOK, LoopType, Idle, CreatePC, StopPC, Status
  <2>4. Shape'
    BY <1>5, <2>2 DEF CreateArgs, TypeOK, Shape, Idle, AdvancePC
  <2>. QED
    BY <2>1, <2>2, <2>3, <2>4 DEF StateType, TypeOK
<1>6. ASSUME CreateEnqueue(r) PROVE TypeInv'
  <2>1. StateType'
    BY <1>6 DEF CreateEnqueue, Enqueue, TypeOK, StateType, Status, Terminal
  <2>2. pc' \in [Run -> PC]
    BY <1>6 DEF CreateEnqueue, Enqueue, TypeOK, PC, DispatchPC, CoordinatePC, AdvancePC
  <2>3. loop' \in LoopType
    BY <1>6 DEF CreateEnqueue, Enqueue, TypeOK, LoopType, Idle, CreatePC, StopPC, Status
  <2>4. Shape'
    BY <1>6, <2>2 DEF CreateEnqueue, Enqueue, TypeOK, Shape, Idle, AdvancePC
  <2>. QED
    BY <2>1, <2>2, <2>3, <2>4 DEF StateType, TypeOK
<1>. QED
  BY <1>1, <1>2, <1>3, <1>4, <1>5, <1>6

LEMMA StopType ==
    ASSUME TypeInv, NEW r \in Run
    PROVE  /\ StopRead(r) => TypeInv'
           /\ StopSignal(r) => TypeInv'
           /\ StopMarkQueued(r) => TypeInv'
           /\ StopUnqueue(r) => TypeInv'
           /\ StopMarkRunning(r) => TypeInv'
           /\ StopCancelRow(r) => TypeInv'
<1>. USE RunAssumption, ScopeAssumption, BoundAssumption
         DEF TypeInv, redisVars, memoryVars, threadVars, hostVars, historyVars
<1>1. ASSUME StopRead(r) PROVE TypeInv'
  <2>1. StateType'
    BY <1>1 DEF StopRead, TypeOK, StateType, Status, Terminal
  <2>2. pc' \in [Run -> PC]
    BY <1>1 DEF StopRead, TypeOK, PC, DispatchPC, CoordinatePC, AdvancePC
  <2>3. loop' \in LoopType
    BY <1>1 DEF StopRead, TypeOK, LoopType, Idle, CreatePC, StopPC, Status
  <2>4. Shape'
    BY <1>1, <2>2 DEF StopRead, TypeOK, Shape, Idle, AdvancePC
  <2>. QED
    BY <2>1, <2>2, <2>3, <2>4 DEF StateType, TypeOK
<1>2. ASSUME StopSignal(r) PROVE TypeInv'
  <2>1. StateType'
    BY <1>2 DEF StopSignal, TypeOK, StateType, Status, Terminal
  <2>2. pc' \in [Run -> PC]
    BY <1>2 DEF StopSignal, TypeOK, PC, DispatchPC, CoordinatePC, AdvancePC
  <2>3. loop' \in LoopType
    <3>1. PICK label : loop' = [loop EXCEPT !.at = label] /\ label \in StopPC
      <4>1. loop.seen \in {"queued", "running", "needs_input"}
        BY <1>2 DEF StopSignal, Shape
      <4>. QED
        BY <1>2, <4>1 DEF StopSignal, StopPC
    <3>. QED
      BY <3>1 DEF TypeOK, LoopType
  <2>4. Shape'
    BY <1>2, <2>2 DEF StopSignal, TypeOK, Shape, Idle, AdvancePC
  <2>. QED
    BY <2>1, <2>2, <2>3, <2>4 DEF StateType, TypeOK
<1>3. ASSUME StopMarkQueued(r) PROVE TypeInv'
  <2>1. StateType'
    BY <1>3 DEF StopMarkQueued, TypeOK, StateType, Status, Terminal
  <2>2. pc' \in [Run -> PC]
    BY <1>3 DEF StopMarkQueued, TypeOK, PC, DispatchPC, CoordinatePC, AdvancePC
  <2>3. loop' \in LoopType
    BY <1>3 DEF StopMarkQueued, TypeOK, LoopType, Idle, CreatePC, StopPC, Status
  <2>4. Shape'
    BY <1>3, <2>2 DEF StopMarkQueued, TypeOK, Shape, Idle, AdvancePC
  <2>. QED
    BY <2>1, <2>2, <2>3, <2>4 DEF StateType, TypeOK
<1>4. ASSUME StopUnqueue(r) PROVE TypeInv'
  <2>1. StateType'
    <3>1. (IF loop.legacy THEN LegacyScope ELSE ScopeOf[r]) \in Scope
      OBVIOUS
    <3>2. queue' \in [Scope -> Seq(Run)]
      BY <1>4, <3>1, RemoveQueuedType DEF StopUnqueue, TypeOK
    <3>. QED
      BY <1>4, <3>2 DEF StopUnqueue, TypeOK, StateType
  <2>2. pc' \in [Run -> PC]
    BY <1>4 DEF StopUnqueue, TypeOK, PC, DispatchPC, CoordinatePC, AdvancePC
  <2>3. loop' \in LoopType
    BY <1>4 DEF StopUnqueue, TypeOK, LoopType, Idle, CreatePC, StopPC, Status
  <2>4. Shape'
    BY <1>4, <2>2 DEF StopUnqueue, TypeOK, Shape, Idle, AdvancePC
  <2>. QED
    BY <2>1, <2>2, <2>3, <2>4 DEF StateType, TypeOK
<1>5. ASSUME StopMarkRunning(r) PROVE TypeInv'
  <2>1. StateType'
    BY <1>5 DEF StopMarkRunning, TypeOK, StateType, Status, Terminal
  <2>2. pc' \in [Run -> PC]
    BY <1>5 DEF StopMarkRunning, TypeOK, PC, DispatchPC, CoordinatePC, AdvancePC
  <2>3. loop' \in LoopType
    BY <1>5 DEF StopMarkRunning, TypeOK, LoopType, Idle, CreatePC, StopPC, Status
  <2>4. Shape'
    BY <1>5, <2>2 DEF StopMarkRunning, TypeOK, Shape, Idle, AdvancePC
  <2>. QED
    BY <2>1, <2>2, <2>3, <2>4 DEF StateType, TypeOK
<1>6. ASSUME StopCancelRow(r) PROVE TypeInv'
  <2>1. StateType'
    BY <1>6 DEF StopCancelRow, CancelRun, Advanced, RowLost, Told, Untold, TypeOK, StateType, Status, Terminal
  <2>2. pc' \in [Run -> PC]
    BY <1>6 DEF StopCancelRow, TypeOK, PC, DispatchPC, CoordinatePC, AdvancePC
  <2>3. loop' \in LoopType
    BY <1>6 DEF StopCancelRow, TypeOK, LoopType, Idle, CreatePC, StopPC, Status
  <2>4. Shape'
    BY <1>6, <2>2 DEF StopCancelRow, TypeOK, Shape, Idle, AdvancePC
  <2>. QED
    BY <2>1, <2>2, <2>3, <2>4 DEF StateType, TypeOK
<1>. QED
  BY <1>1, <1>2, <1>3, <1>4, <1>5, <1>6

LEMMA DispatchType ==
    ASSUME TypeInv, NEW r \in Run
    PROVE  /\ DispatchCheck(r) => TypeInv'
           /\ DispatchDropRead(r) => TypeInv'
           /\ DispatchDropDelete(r) => TypeInv'
           /\ DispatchMark(r) => TypeInv'
<1>. USE RunAssumption, ScopeAssumption, BoundAssumption
         DEF TypeInv, redisVars, memoryVars, threadVars, hostVars, historyVars
<1>1. ASSUME DispatchCheck(r) PROVE TypeInv'
  <2>1. StateType'
    BY <1>1 DEF DispatchCheck, Goto, TypeOK, StateType, Status, Terminal
  <2>2. pc' \in [Run -> PC]
    BY <1>1 DEF DispatchCheck, Goto, TypeOK, PC, DispatchPC, CoordinatePC, AdvancePC
  <2>3. loop' \in LoopType
    BY <1>1 DEF DispatchCheck, Goto, TypeOK, LoopType, Idle, CreatePC, StopPC, Status
  <2>4. Shape'
    BY <1>1, <2>2 DEF DispatchCheck, Goto, TypeOK, Shape, Idle, AdvancePC
  <2>. QED
    BY <2>1, <2>2, <2>3, <2>4 DEF StateType, TypeOK
<1>2. ASSUME DispatchDropRead(r) PROVE TypeInv'
  <2>1. StateType'
    BY <1>2 DEF DispatchDropRead, Goto, LoopAfterDispatch, TypeOK, StateType, Status, Terminal
  <2>2. pc' \in [Run -> PC]
    BY <1>2 DEF DispatchDropRead, Goto, LoopAfterDispatch, TypeOK, PC, DispatchPC, CoordinatePC, AdvancePC
  <2>3. loop' \in LoopType
    <3>1. loop' = loop \/ loop' = Idle
      BY <1>2 DEF DispatchDropRead, LoopAfterDispatch
    <3>2. Idle \in LoopType
      BY DEF Idle, LoopType, Status
    <3>. QED
      BY <3>1, <3>2 DEF TypeOK
  <2>4. Shape'
    BY <1>2, <2>2 DEF DispatchDropRead, Goto, LoopAfterDispatch, TypeOK, Shape, Idle, AdvancePC
  <2>. QED
    BY <2>1, <2>2, <2>3, <2>4 DEF StateType, TypeOK
<1>3. ASSUME DispatchDropDelete(r) PROVE TypeInv'
  <2>1. StateType'
    BY <1>3 DEF DispatchDropDelete, DeleteLock, Goto, LoopAfterDispatch, TypeOK, StateType, Status, Terminal
  <2>2. pc' \in [Run -> PC]
    BY <1>3 DEF DispatchDropDelete, DeleteLock, Goto, LoopAfterDispatch, TypeOK, PC, DispatchPC, CoordinatePC, AdvancePC
  <2>3. loop' \in LoopType
    BY <1>3 DEF DispatchDropDelete, DeleteLock, Goto, LoopAfterDispatch, TypeOK, LoopType, Idle, CreatePC, StopPC, Status
  <2>4. Shape'
    BY <1>3, <2>2 DEF DispatchDropDelete, DeleteLock, Goto, LoopAfterDispatch, TypeOK, Shape, Idle, AdvancePC
  <2>. QED
    BY <2>1, <2>2, <2>3, <2>4 DEF StateType, TypeOK
<1>4. ASSUME DispatchMark(r) PROVE TypeInv'
  <2>1. StateType'
    BY <1>4 DEF DispatchMark, SetStatus, Advanced, RowLost, Goto, LoopAfterDispatch, TypeOK, StateType, Status, Terminal
  <2>2. pc' \in [Run -> PC]
    BY <1>4 DEF DispatchMark, Goto, LoopAfterDispatch, TypeOK, PC, DispatchPC, CoordinatePC, AdvancePC
  <2>3. loop' \in LoopType
    BY <1>4 DEF DispatchMark, Goto, LoopAfterDispatch, TypeOK, LoopType, Idle, CreatePC, StopPC, Status
  <2>4. Shape'
    BY <1>4, <2>2 DEF DispatchMark, Goto, LoopAfterDispatch, TypeOK, Shape, Idle, AdvancePC
  <2>. QED
    BY <2>1, <2>2, <2>3, <2>4 DEF StateType, TypeOK
<1>. QED
  BY <1>1, <1>2, <1>3, <1>4

LEMMA CoordinateType ==
    ASSUME TypeInv, NEW r \in Run
    PROVE  /\ ChatStart(r) => TypeInv'
           /\ ChatStall(r) => TypeInv'
           /\ CallRaises(r) => TypeInv'
           /\ EnterCoordination(r) => TypeInv'
           /\ RecordRunning(r) => TypeInv'
           /\ Boundary(r) => TypeInv'
           /\ PhaseEnds(r) => TypeInv'
           /\ LeavesUnfinished(r) => TypeInv'
           /\ Finish(r) => TypeInv'
<1>. USE RunAssumption, ScopeAssumption, BoundAssumption
         DEF TypeInv, redisVars, memoryVars, threadVars, hostVars, historyVars
<1>1. ASSUME ChatStart(r) PROVE TypeInv'
  <2>1. StateType'
    BY <1>1 DEF ChatStart, Acquire, Goto, TypeOK, StateType, Status, Terminal
  <2>2. pc' \in [Run -> PC]
    BY <1>1 DEF ChatStart, Acquire, Goto, TypeOK, PC, DispatchPC, CoordinatePC, AdvancePC
  <2>3. loop' \in LoopType
    BY <1>1 DEF ChatStart, Acquire, Goto, TypeOK, LoopType, Idle, CreatePC, StopPC, Status
  <2>4. Shape'
    BY <1>1, <2>2 DEF ChatStart, Acquire, Goto, TypeOK, Shape, Idle, AdvancePC
  <2>. QED
    BY <2>1, <2>2, <2>3, <2>4 DEF StateType, TypeOK
<1>2. ASSUME ChatStall(r) PROVE TypeInv'
  <2>1. StateType'
    BY <1>2 DEF ChatStall, Goto, TypeOK, StateType, Status, Terminal
  <2>2. pc' \in [Run -> PC]
    BY <1>2 DEF ChatStall, Goto, TypeOK, PC, DispatchPC, CoordinatePC, AdvancePC
  <2>3. loop' \in LoopType
    BY <1>2 DEF ChatStall, Goto, TypeOK, LoopType, Idle, CreatePC, StopPC, Status
  <2>4. Shape'
    BY <1>2, <2>2 DEF ChatStall, Goto, TypeOK, Shape, Idle, AdvancePC
  <2>. QED
    BY <2>1, <2>2, <2>3, <2>4 DEF StateType, TypeOK
<1>3. ASSUME EnterCoordination(r) PROVE TypeInv'
  <2>1. StateType'
    BY <1>3 DEF EnterCoordination, Goto, TypeOK, StateType, Status, Terminal
  <2>2. pc' \in [Run -> PC]
    BY <1>3 DEF EnterCoordination, Goto, TypeOK, PC, DispatchPC, CoordinatePC, AdvancePC
  <2>3. loop' \in LoopType
    BY <1>3 DEF EnterCoordination, Goto, TypeOK, LoopType, Idle, CreatePC, StopPC, Status
  <2>4. Shape'
    BY <1>3, <2>2 DEF EnterCoordination, Goto, TypeOK, Shape, Idle, AdvancePC
  <2>. QED
    BY <2>1, <2>2, <2>3, <2>4 DEF StateType, TypeOK
<1>4. ASSUME RecordRunning(r) PROVE TypeInv'
  <2>1. StateType'
    BY <1>4 DEF RecordRunning, RowLost, Goto, TypeOK, StateType, Status, Terminal
  <2>2. pc' \in [Run -> PC]
    BY <1>4 DEF RecordRunning, Goto, TypeOK, PC, DispatchPC, CoordinatePC, AdvancePC
  <2>3. loop' \in LoopType
    BY <1>4 DEF RecordRunning, Goto, TypeOK, LoopType, Idle, CreatePC, StopPC, Status
  <2>4. Shape'
    BY <1>4, <2>2 DEF RecordRunning, Goto, TypeOK, Shape, Idle, AdvancePC
  <2>. QED
    BY <2>1, <2>2, <2>3, <2>4 DEF StateType, TypeOK
<1>5. ASSUME Boundary(r) PROVE TypeInv'
  <2>1. StateType'
    <3>1. phase' = phase \/ (phase[r] # Phases /\ phase' = [phase EXCEPT ![r] = @ + 1])
      BY <1>5 DEF Boundary
    <3>2. phase \in [Run -> 0..Phases] /\ phase[r] \in 0..Phases
      BY DEF TypeOK
    <3>3. phase' \in [Run -> 0..Phases]
      BY <3>1, <3>2
    <3>. QED
      BY <1>5, <3>3 DEF Boundary, TypeOK, StateType
  <2>2. pc' \in [Run -> PC]
    <3>1. pc' = pc \/ \E to \in PC : pc' = [pc EXCEPT ![r] = to]
      BY <1>5, SMTT(30) DEF Boundary, Goto, PC, DispatchPC, CoordinatePC, AdvancePC
    <3>2. pc \in [Run -> PC]
      BY DEF TypeOK
    <3>. QED
      BY <3>1, <3>2
  <2>3. loop' \in LoopType
    BY <1>5 DEF Boundary, Goto, TypeOK, LoopType, Idle, CreatePC, StopPC, Status
  <2>4. Shape'
    <3>1. pc[r] \notin {"idle", "done"} /\ boot' = boot /\ loop' = loop
      BY <1>5 DEF Boundary
    <3>2. pc'[r] \in AdvancePC \ {"pop"} => next'[r] \in Run
      BY <1>5 DEF Boundary, Goto, TypeOK, AdvancePC
    <3>3. ASSUME NEW q \in Run \ {r}, pc'[q] \in AdvancePC \ {"pop"}
          PROVE  pc'[q] = pc[q] /\ next'[q] = next[q]
      BY <1>5, <3>3 DEF Boundary, Goto, TypeOK
    <3>. QED
      BY <3>1, <3>2, <3>3, ShapeStep
  <2>. QED
    BY <2>1, <2>2, <2>3, <2>4 DEF StateType, TypeOK
<1>6. ASSUME PhaseEnds(r) PROVE TypeInv'
  <2>1. StateType'
    BY <1>6 DEF PhaseEnds, Goto, TypeOK, StateType, Status, Terminal
  <2>2. pc' \in [Run -> PC]
    BY <1>6 DEF PhaseEnds, Goto, TypeOK, PC, DispatchPC, CoordinatePC, AdvancePC
  <2>3. loop' \in LoopType
    BY <1>6 DEF PhaseEnds, Goto, TypeOK, LoopType, Idle, CreatePC, StopPC, Status
  <2>4. Shape'
    BY <1>6, <2>2 DEF PhaseEnds, Goto, TypeOK, Shape, Idle, AdvancePC
  <2>. QED
    BY <2>1, <2>2, <2>3, <2>4 DEF StateType, TypeOK
<1>7. ASSUME LeavesUnfinished(r) PROVE TypeInv'
  <2>1. StateType'
    BY <1>7 DEF LeavesUnfinished, Untold, Goto, TypeOK, StateType, Status, Terminal
  <2>2. pc' \in [Run -> PC]
    BY <1>7 DEF LeavesUnfinished, Goto, TypeOK, PC, DispatchPC, CoordinatePC, AdvancePC
  <2>3. loop' \in LoopType
    BY <1>7 DEF LeavesUnfinished, Goto, TypeOK, LoopType, Idle, CreatePC, StopPC, Status
  <2>4. Shape'
    BY <1>7, <2>2 DEF LeavesUnfinished, Goto, TypeOK, Shape, Idle, AdvancePC
  <2>. QED
    BY <2>1, <2>2, <2>3, <2>4 DEF StateType, TypeOK
<1>8. ASSUME Finish(r) PROVE TypeInv'
  <2>1. StateType'
    <3>1. untold' \subseteq Run
      BY <1>8 DEF Finish, FinishRun, Told, Untold, TypeOK
    <3>2. pc[r] \in Status
      BY <1>8 DEF Finish, Status
    <3>3. status' = status \/ status' = [status EXCEPT ![r] = pc[r]]
      BY <1>8 DEF Finish, FinishRun, RowLost
    <3>4. status' \in [Run -> Status]
      BY <3>2, <3>3 DEF TypeOK
    <3>. QED
      BY <1>8, <3>1, <3>4 DEF Finish, TypeOK, StateType
  <2>2. pc' \in [Run -> PC]
    BY <1>8 DEF Finish, Goto, TypeOK, PC, DispatchPC, CoordinatePC, AdvancePC
  <2>3. loop' \in LoopType
    BY <1>8 DEF Finish, Goto, TypeOK, LoopType, Idle, CreatePC, StopPC, Status
  <2>4. Shape'
    BY <1>8, <2>2 DEF Finish, Goto, TypeOK, Shape, Idle, AdvancePC
  <2>. QED
    BY <2>1, <2>2, <2>3, <2>4 DEF StateType, TypeOK
<1>9. ASSUME CallRaises(r) PROVE TypeInv'
  <2>1. StateType'
    BY <1>9 DEF CallRaises, Untold, Goto, TypeOK, StateType, Status, Terminal
  <2>2. pc' \in [Run -> PC]
    BY <1>9 DEF CallRaises, Goto, TypeOK, PC, DispatchPC, CoordinatePC, AdvancePC
  <2>3. loop' \in LoopType
    BY <1>9 DEF CallRaises, Goto, TypeOK, LoopType, Idle, CreatePC, StopPC, Status
  <2>4. Shape'
    BY <1>9, <2>2 DEF CallRaises, Goto, TypeOK, Shape, Idle, AdvancePC
  <2>. QED
    BY <2>1, <2>2, <2>3, <2>4 DEF StateType, TypeOK
<1>. QED
  BY <1>1, <1>2, <1>3, <1>4, <1>5, <1>6, <1>7, <1>8, <1>9

LEMMA ReleaseType ==
    ASSUME TypeInv, NEW r \in Run
    PROVE  /\ ReleaseRead(r) => TypeInv'
           /\ ReleaseDelete(r) => TypeInv'
           /\ DiscardCancelled(r) => TypeInv'
           /\ PopNext(r) => TypeInv'
           /\ CheckNext(r) => TypeInv'
           /\ TakeNext(r) => TypeInv'
           /\ AcquireNext(r) => TypeInv'
           /\ RestoreArgs(r) => TypeInv'
           /\ Requeue(r) => TypeInv'
<1>. USE RunAssumption, ScopeAssumption, BoundAssumption
         DEF TypeInv, redisVars, memoryVars, threadVars, hostVars, historyVars
<1>1. ASSUME ReleaseRead(r) PROVE TypeInv'
  <2>1. StateType'
    BY <1>1 DEF ReleaseRead, AfterRelease, Goto, TypeOK, StateType, Status, Terminal
  <2>2. pc' \in [Run -> PC]
    BY <1>1 DEF ReleaseRead, AfterRelease, Goto, TypeOK, PC, DispatchPC, CoordinatePC, AdvancePC
  <2>3. loop' \in LoopType
    BY <1>1 DEF ReleaseRead, AfterRelease, Goto, TypeOK, LoopType, Idle, CreatePC, StopPC, Status
  <2>4. Shape'
    BY <1>1, <2>2 DEF ReleaseRead, AfterRelease, Goto, TypeOK, Shape, Idle, AdvancePC
  <2>. QED
    BY <2>1, <2>2, <2>3, <2>4 DEF StateType, TypeOK
<1>2. ASSUME ReleaseDelete(r) PROVE TypeInv'
  <2>1. StateType'
    BY <1>2 DEF ReleaseDelete, DeleteLock, AfterRelease, Goto, TypeOK, StateType, Status, Terminal
  <2>2. pc' \in [Run -> PC]
    BY <1>2 DEF ReleaseDelete, DeleteLock, AfterRelease, Goto, TypeOK, PC, DispatchPC, CoordinatePC, AdvancePC
  <2>3. loop' \in LoopType
    BY <1>2 DEF ReleaseDelete, DeleteLock, AfterRelease, Goto, TypeOK, LoopType, Idle, CreatePC, StopPC, Status
  <2>4. Shape'
    BY <1>2, <2>2 DEF ReleaseDelete, DeleteLock, AfterRelease, Goto, TypeOK, Shape, Idle, AdvancePC
  <2>. QED
    BY <2>1, <2>2, <2>3, <2>4 DEF StateType, TypeOK
<1>3. ASSUME DiscardCancelled(r) PROVE TypeInv'
  <2>1. StateType'
    BY <1>3 DEF DiscardCancelled, Goto, TypeOK, StateType, Status, Terminal
  <2>2. pc' \in [Run -> PC]
    BY <1>3 DEF DiscardCancelled, Goto, TypeOK, PC, DispatchPC, CoordinatePC, AdvancePC
  <2>3. loop' \in LoopType
    BY <1>3 DEF DiscardCancelled, Goto, TypeOK, LoopType, Idle, CreatePC, StopPC, Status
  <2>4. Shape'
    BY <1>3, <2>2 DEF DiscardCancelled, Goto, TypeOK, Shape, Idle, AdvancePC
  <2>. QED
    BY <2>1, <2>2, <2>3, <2>4 DEF StateType, TypeOK
<1>4. ASSUME PopNext(r) PROVE TypeInv'
  <2>1. StateType'
    <3>1. CASE redisUp /\ queue[ScopeOf[r]] # <<>>
      <4>1. queue[ScopeOf[r]] \in Seq(Run)
        BY DEF TypeOK
      <4>2. Head(queue[ScopeOf[r]]) \in Run /\ Tail(queue[ScopeOf[r]]) \in Seq(Run)
        BY <3>1, <4>1, HeadTailProperties
      <4>3. next' \in [Run -> Run \cup {NoRun}]
        <5>1. next' = [next EXCEPT ![r] = Head(queue[ScopeOf[r]])]
          BY <1>4, <3>1 DEF PopNext
        <5>2. next \in [Run -> Run \cup {NoRun}]
          BY DEF TypeOK
        <5>. QED
          BY <4>2, <5>1, <5>2
      <4>4. queue' = [queue EXCEPT ![ScopeOf[r]] = Tail(queue[ScopeOf[r]])]
        BY <1>4, <3>1 DEF PopNext
      <4>5. queue' \in [Scope -> Seq(Run)]
        <5>1. queue \in [Scope -> Seq(Run)]
          BY DEF TypeOK
        <5>. QED
          BY <4>2, <4>4, <5>1
      <4>. QED
        BY <1>4, <4>3, <4>5 DEF PopNext, TypeOK, StateType
    <3>2. CASE ~(redisUp /\ queue[ScopeOf[r]] # <<>>)
      BY <1>4, <3>2 DEF PopNext, TypeOK, StateType
    <3>. QED
      BY <3>1, <3>2
  <2>2. pc' \in [Run -> PC]
    BY <1>4 DEF PopNext, Goto, TypeOK, PC, DispatchPC, CoordinatePC, AdvancePC
  <2>3. loop' \in LoopType
    BY <1>4 DEF PopNext, Goto, TypeOK, LoopType, Idle, CreatePC, StopPC, Status
  <2>4. Shape'
    <3>1. pc[r] \notin {"idle", "done"} /\ boot' = boot /\ loop' = loop
      BY <1>4 DEF PopNext
    <3>2. CASE redisUp /\ queue[ScopeOf[r]] # <<>>
      <4>1. Head(queue[ScopeOf[r]]) \in Run
        <5>1. queue[ScopeOf[r]] \in Seq(Run)
          BY DEF TypeOK
        <5>. QED
          BY <3>2, <5>1, HeadTailProperties
      <4>2. /\ next' = [next EXCEPT ![r] = Head(queue[ScopeOf[r]])]
            /\ pc' = [pc EXCEPT ![r] = "check"]
        BY <1>4, <3>2 DEF PopNext, Goto
      <4>. QED
        BY <3>1, <4>1, <4>2, ShapeStep DEF TypeOK
    <3>3. CASE ~(redisUp /\ queue[ScopeOf[r]] # <<>>)
      <4>1. next' = next /\ pc' = [pc EXCEPT ![r] = "done"]
        BY <1>4, <3>3 DEF PopNext, Goto
      <4>. QED
        BY <3>1, <4>1, ShapeStep DEF TypeOK, AdvancePC
    <3>. QED
      BY <3>2, <3>3
  <2>. QED
    BY <2>1, <2>2, <2>3, <2>4 DEF StateType, TypeOK
<1>5. ASSUME CheckNext(r) PROVE TypeInv'
  <2>. next[r] \in Run
    BY <1>5 DEF CheckNext, Shape, AdvancePC
  <2>1. StateType'
    BY <1>5 DEF CheckNext, Skip, Goto, TypeOK, StateType, Status, Terminal
  <2>2. pc' \in [Run -> PC]
    <3>1. Skip(r) \/ Goto(r, "take")
      BY <1>5 DEF CheckNext
    <3>2. {"pop", "done", "take", "acquire"} \subseteq PC
      BY DEF PC, AdvancePC
    <3>3. pc \in [Run -> PC]
      BY DEF TypeOK
    <3>4. CASE Skip(r)
      <4>1. (IF pc[next[r]] = "queued" THEN "done" ELSE pc[next[r]]) \in PC
        BY <3>2, <3>3
      <4>. QED
        BY <3>2, <3>3, <3>4, <4>1 DEF Skip
    <3>5. CASE Goto(r, "take")
      BY <3>2, <3>3, <3>5 DEF Goto
    <3>. QED
      BY <3>1, <3>4, <3>5
  <2>3. loop' \in LoopType
    BY <1>5 DEF CheckNext, Skip, Goto, TypeOK, LoopType, Idle, CreatePC, StopPC, Status
  <2>4. Shape'
    <3>1. pc[r] \notin {"idle", "done"} /\ boot' = boot /\ loop' = loop /\ next' = next
      BY <1>5 DEF CheckNext
    <3>2. Skip(r) \/ Goto(r, "take")
      BY <1>5 DEF CheckNext
    <3>3. \A q \in Run \ {r} : pc'[q] \in AdvancePC => pc'[q] = pc[q]
      BY <3>2 DEF Skip, Goto, TypeOK, AdvancePC
    <3>. QED
      BY <3>1, <3>3, ShapeStep
  <2>. QED
    BY <2>1, <2>2, <2>3, <2>4 DEF StateType, TypeOK
<1>6. ASSUME TakeNext(r) PROVE TypeInv'
  <2>. next[r] \in Run
    BY <1>6 DEF TakeNext, Shape, AdvancePC
  <2>1. StateType'
    BY <1>6 DEF TakeNext, Skip, Goto, TypeOK, StateType, Status, Terminal
  <2>2. pc' \in [Run -> PC]
    <3>1. Skip(r) \/ Goto(r, "acquire")
      BY <1>6 DEF TakeNext
    <3>2. {"pop", "done", "take", "acquire"} \subseteq PC
      BY DEF PC, AdvancePC
    <3>3. pc \in [Run -> PC]
      BY DEF TypeOK
    <3>4. CASE Skip(r)
      <4>1. (IF pc[next[r]] = "queued" THEN "done" ELSE pc[next[r]]) \in PC
        BY <3>2, <3>3
      <4>. QED
        BY <3>2, <3>3, <3>4, <4>1 DEF Skip
    <3>5. CASE Goto(r, "acquire")
      BY <3>2, <3>3, <3>5 DEF Goto
    <3>. QED
      BY <3>1, <3>4, <3>5
  <2>3. loop' \in LoopType
    BY <1>6 DEF TakeNext, Skip, Goto, TypeOK, LoopType, Idle, CreatePC, StopPC, Status
  <2>4. Shape'
    <3>1. pc[r] \notin {"idle", "done"} /\ boot' = boot /\ loop' = loop /\ next' = next
      BY <1>6 DEF TakeNext
    <3>2. Skip(r) \/ Goto(r, "acquire")
      BY <1>6 DEF TakeNext
    <3>3. \A q \in Run \ {r} : pc'[q] \in AdvancePC => pc'[q] = pc[q]
      BY <3>2 DEF Skip, Goto, TypeOK, AdvancePC
    <3>. QED
      BY <3>1, <3>3, ShapeStep
  <2>. QED
    BY <2>1, <2>2, <2>3, <2>4 DEF StateType, TypeOK
<1>7. ASSUME AcquireNext(r) PROVE TypeInv'
  <2>. next[r] \in Run
    BY <1>7 DEF AcquireNext, Shape, AdvancePC
  <2>1. StateType'
    BY <1>7 DEF AcquireNext, Acquire, Goto, TypeOK, StateType, Status, Terminal
  <2>2. pc' \in [Run -> PC]
    BY <1>7 DEF AcquireNext, Acquire, Goto, TypeOK, PC, DispatchPC, CoordinatePC, AdvancePC
  <2>3. loop' \in LoopType
    BY <1>7 DEF AcquireNext, Acquire, Goto, TypeOK, LoopType, Idle, CreatePC, StopPC, Status
  <2>4. Shape'
    <3>1. pc[r] \notin {"idle", "done"} /\ boot' = boot /\ loop' = loop
      BY <1>7 DEF AcquireNext
    <3>2. CASE /\ pc' = [pc EXCEPT ![r] = "done", ![next[r]] = "dispatch"]
               /\ next' = [next EXCEPT ![r] = NoRun]
      <4>1. pc'[r] \in {"done", "dispatch"}
        BY <3>2 DEF TypeOK
      <4>2. \A q \in Run \ {r} : next'[q] = next[q] /\ pc'[q] \in {pc[q], "dispatch"}
        BY <3>2 DEF TypeOK
      <4>. QED
        BY <3>1, <4>1, <4>2, ShapeStep DEF AdvancePC
    <3>3. CASE pc' = [pc EXCEPT ![r] = "repend"] /\ next' = next
      BY <3>1, <3>3, ShapeStep DEF TypeOK
    <3>. QED
      BY <1>7, <3>2, <3>3 DEF AcquireNext, Goto
  <2>. QED
    BY <2>1, <2>2, <2>3, <2>4 DEF StateType, TypeOK
<1>8. ASSUME RestoreArgs(r) PROVE TypeInv'
  <2>. next[r] \in Run
    BY <1>8 DEF RestoreArgs, Shape, AdvancePC
  <2>1. StateType'
    BY <1>8 DEF RestoreArgs, Goto, TypeOK, StateType, Status, Terminal
  <2>2. pc' \in [Run -> PC]
    BY <1>8 DEF RestoreArgs, Goto, TypeOK, PC, DispatchPC, CoordinatePC, AdvancePC
  <2>3. loop' \in LoopType
    BY <1>8 DEF RestoreArgs, Goto, TypeOK, LoopType, Idle, CreatePC, StopPC, Status
  <2>4. Shape'
    BY <1>8, <2>2 DEF RestoreArgs, Goto, TypeOK, Shape, Idle, AdvancePC
  <2>. QED
    BY <2>1, <2>2, <2>3, <2>4 DEF StateType, TypeOK
<1>9. ASSUME Requeue(r) PROVE TypeInv'
  <2>. next[r] \in Run
    BY <1>9 DEF Requeue, Shape, AdvancePC
  <2>1. StateType'
    <3>1. Append(queue[ScopeOf[next[r]]], next[r]) \in Seq(Run)
      BY AppendProperties DEF TypeOK
    <3>2. queue' \in [Scope -> Seq(Run)]
      BY <1>9, <3>1 DEF Requeue, Enqueue, TypeOK
    <3>. QED
      BY <1>9, <3>2 DEF Requeue, TypeOK, StateType
  <2>2. pc' \in [Run -> PC]
    BY <1>9 DEF Requeue, Enqueue, Goto, TypeOK, PC, DispatchPC, CoordinatePC, AdvancePC
  <2>3. loop' \in LoopType
    BY <1>9 DEF Requeue, Enqueue, Goto, TypeOK, LoopType, Idle, CreatePC, StopPC, Status
  <2>4. Shape'
    BY <1>9, <2>2 DEF Requeue, Enqueue, Goto, TypeOK, Shape, Idle, AdvancePC
  <2>. QED
    BY <2>1, <2>2, <2>3, <2>4 DEF StateType, TypeOK
<1>. QED
  BY <1>1, <1>2, <1>3, <1>4, <1>5, <1>6, <1>7, <1>8, <1>9

LEMMA HostType ==
    ASSUME TypeInv
    PROVE  /\ Crash => TypeInv'
           /\ Reconcile => TypeInv'
           /\ ClearAll => TypeInv'
           /\ \A s \in Scope : LockExpires(s) => TypeInv'
           /\ RedisFails => TypeInv'
           /\ RedisRecovers => TypeInv'
<1>. USE RunAssumption, ScopeAssumption, BoundAssumption
         DEF TypeInv, redisVars, memoryVars, threadVars, hostVars, historyVars
<1>1. ASSUME Crash PROVE TypeInv'
  <2>1. Idle \in LoopType
    BY DEF Idle, LoopType, Status
  <2>2. {"idle", "done"} \subseteq PC
    BY DEF PC
  <2>3. TypeOK'
    BY <1>1, <2>1, <2>2 DEF Crash, TypeOK
  <2>4. Shape'
    BY <1>1 DEF Crash, Shape, Idle, AdvancePC
  <2>. QED
    BY <2>3, <2>4
<1>2. ASSUME Reconcile PROVE TypeInv'
  <2>1. \A r \in Run : Reconciled(r) \in Status
    BY DEF Reconciled, TypeOK, Status
  <2>2. TypeOK'
    BY <1>2, <2>1 DEF Reconcile, TypeOK
  <2>3. Shape'
    BY <1>2 DEF Reconcile, Shape, Idle
  <2>. QED
    BY <2>2, <2>3
<1>3. ASSUME ClearAll PROVE TypeInv'
  <2>1. <<>> \in Seq(Run)
    OBVIOUS
  <2>2. TypeOK'
    BY <1>3, <2>1 DEF ClearAll, TypeOK
  <2>3. Shape'
    BY <1>3 DEF ClearAll, Shape, Idle
  <2>. QED
    BY <2>2, <2>3
<1>4. ASSUME NEW s \in Scope, LockExpires(s) PROVE TypeInv'
  <2>1. Holding(lock[s]) \in BOOLEAN
    BY DEF Holding
  <2>2. TypeOK'
    BY <1>4, <2>1 DEF LockExpires, TypeOK
  <2>3. Shape'
    BY <1>4 DEF LockExpires, Shape
  <2>. QED
    BY <2>2, <2>3
<1>5. ASSUME RedisFails \/ RedisRecovers PROVE TypeInv'
  BY <1>5 DEF RedisFails, RedisRecovers, TypeOK, Shape
<1>. QED
  BY <1>1, <1>2, <1>3, <1>4, <1>5

\* Every step keeps the type invariant.
LEMMA TypeStep ==
    ASSUME TypeInv, [Next]_vars
    PROVE  TypeInv'
<1>1. ASSUME Request PROVE TypeInv'
  BY <1>1, CreateType, StopType, CoordinateType DEF Request
<1>2. ASSUME Handler PROVE TypeInv'
  BY <1>2, CreateType, StopType DEF Handler, CreateStep, StopStep
<1>3. ASSUME NEW r \in Run, Thread(r) \/ ChatStall(r) PROVE TypeInv'
  BY <1>3, DispatchType, CoordinateType, ReleaseType DEF Thread, Coordinate, Advance
<1>4. ASSUME UNCHANGED vars PROVE TypeInv'
  BY <1>4 DEF TypeInv, TypeOK, Shape, vars, redisVars, memoryVars, threadVars, hostVars, historyVars
<1>. QED
  BY <1>1, <1>2, <1>3, <1>4, HostType DEF Next, Startup

LEMMA TypeInit == Init => TypeInv
<1>. USE RunAssumption, ScopeAssumption, BoundAssumption
<1>1. ASSUME Init PROVE TypeOK
  <2>1. {"idle"} \subseteq PC /\ Idle \in LoopType /\ {"none", "needs_input"} \subseteq Status
    BY DEF PC, Idle, LoopType, Status
  <2>2. <<>> \in Seq(Run) /\ status \in [Run -> Status]
    BY <1>1, <2>1 DEF Init
  <2>3. /\ lock \in [Scope -> Run \cup {NoRun}] /\ queue \in [Scope -> Seq(Run)]
        /\ session \in [Run -> {"none", "live", "flagged"}]
        /\ pc \in [Run -> PC] /\ next \in [Run -> Run \cup {NoRun}]
    BY <1>1, <2>1, <2>2 DEF Init
  <2>4. phase \in [Run -> 0..Phases] /\ crashes \in 0..MaxCrashes
    BY <1>1 DEF Init
  <2>. QED
    BY <1>1, <2>1, <2>2, <2>3, <2>4 DEF Init, TypeOK
<1>2. ASSUME Init PROVE Shape
  BY <1>2 DEF Init, Shape, Idle, AdvancePC
<1>. QED
  BY <1>1, <1>2 DEF TypeInv

\* The task board is type correct, for every set of runs and scopes, every number of
\* phases and restarts, and with Redis outages (TypeOK of task_queue.py, main.py's
\* handlers and threads, and the rows of swarm_run_store.py).
THEOREM TypeCorrect == Spec => []TypeOK
<1>1. TypeInv => TypeOK
  BY DEF TypeInv
<1>. QED
  BY <1>1, TypeInit, TypeStep, PTL DEF Spec

----------------------------------------------------------------------------
(* The inductive invariant.                                                 *)

\* The labels at which a run counts as admitted.
HeldPC == DispatchPC \cup CoordinatePC \cup {"rel_get", "rel_del"}

\* A step of the thread of r that changes no lock, no wait list and no hand: it stays
\* admitted unless it found that it does not own its lock.
LocalStep(r) ==
    /\ UNCHANGED <<lock, queue, next, redisUp, boot, faulted>>
    /\ loop' = loop \/ (loop.at = "dispatching" /\ loop' = Idle)
    /\ pc[r] \notin {"idle", "stalled"} /\ pc'[r] # "idle"
    /\ pc'[r] \in HeldPC => pc[r] \in HeldPC
    /\ pc[r] \in HeldPC => pc'[r] \in HeldPC \cup {"stalled"} \/ ~OwnsLock(r)
    /\ pc'[r] \in {"rel_del", "drop_del"} => OwnsLock(r)
    /\ \A q \in Run \ {r} : pc'[q] = pc[q] \/ (pc[q] = "queued" /\ pc'[q] = "done")

\* A wait list of created runs stays one while runs are created.
LEMMA SeqMonotone ==
    ASSUME NEW S, NEW T, S \subseteq T, NEW q \in Seq(S)
    PROVE  q \in Seq(T)
<1>1. q \in [1..Len(q) -> T] /\ Len(q) \in Nat
  OBVIOUS
<1>. QED
  BY <1>1

LEMMA StartedGrows ==
    ASSUME Started \subseteq Started', queue \in [Scope -> Seq(Started)], queue' = queue,
           next \in [Run -> Started \cup {NoRun}], next' = next
    PROVE  queue' \in [Scope -> Seq(Started')] /\ next' \in [Run -> Started' \cup {NoRun}]
<1>1. \A s \in Scope : queue[s] \in Seq(Started')
  BY SeqMonotone
<1>. QED
  BY <1>1

LEMMA LocalSteps ==
    ASSUME TypeInv, NEW r \in Run
    PROVE  /\ DispatchCheck(r) \/ DispatchDropRead(r) \/ DispatchMark(r) => LocalStep(r)
           /\ ChatStall(r) => LocalStep(r)
           /\ CallRaises(r) \/ EnterCoordination(r) \/ RecordRunning(r) => LocalStep(r)
           /\ Boundary(r) \/ PhaseEnds(r) => LocalStep(r)
           /\ LeavesUnfinished(r) \/ Finish(r) => LocalStep(r)
           /\ ReleaseRead(r) => LocalStep(r)
           /\ DiscardCancelled(r) \/ RestoreArgs(r) => LocalStep(r)
           /\ CheckNext(r) \/ TakeNext(r) => LocalStep(r)
<1>. USE DEF TypeInv, TypeOK, LocalStep, HeldPC, DispatchPC, CoordinatePC,
            redisVars, memoryVars, threadVars, hostVars, historyVars
<1>1. ASSUME DispatchCheck(r) \/ DispatchDropRead(r) \/ DispatchMark(r) PROVE LocalStep(r)
  BY <1>1 DEF DispatchCheck, DispatchDropRead, DispatchMark, Goto, LoopAfterDispatch
<1>2. ASSUME ChatStall(r) PROVE LocalStep(r)
  BY <1>2 DEF ChatStall, Goto
<1>3. ASSUME CallRaises(r) \/ EnterCoordination(r) \/ RecordRunning(r) PROVE LocalStep(r)
  BY <1>3 DEF CallRaises, EnterCoordination, RecordRunning, Goto
<1>4. ASSUME Boundary(r) \/ PhaseEnds(r) PROVE LocalStep(r)
  BY <1>4 DEF Boundary, PhaseEnds, Goto
<1>5. ASSUME LeavesUnfinished(r) \/ Finish(r) PROVE LocalStep(r)
  BY <1>5 DEF LeavesUnfinished, Finish, Goto
<1>6. ASSUME ReleaseRead(r) PROVE LocalStep(r)
  BY <1>6 DEF ReleaseRead, AfterRelease, Goto
<1>7. ASSUME DiscardCancelled(r) \/ RestoreArgs(r) PROVE LocalStep(r)
  BY <1>7 DEF DiscardCancelled, RestoreArgs, Goto
<1>8. ASSUME CheckNext(r) \/ TakeNext(r) PROVE LocalStep(r)
  <2>1. next[r] \in Run
    BY <1>8 DEF CheckNext, TakeNext, Shape, AdvancePC
  <2>2. Skip(r) \/ Goto(r, "take") \/ Goto(r, "acquire")
    BY <1>8 DEF CheckNext, TakeNext
  <2>3. pc[r] \in {"check", "take"}
        /\ UNCHANGED <<lock, queue, next, redisUp, boot, faulted, loop>>
    BY <1>8 DEF CheckNext, TakeNext
  <2>. QED
    BY <2>1, <2>2, <2>3 DEF Skip, Goto
<1>. QED
  BY <1>1, <1>2, <1>3, <1>4, <1>5, <1>6, <1>7, <1>8

LEMMA LocalKeepsIInv ==
    ASSUME IInv, TypeInv', NEW r \in Run, LocalStep(r)
    PROVE  IInv'
<1>. USE DEF IInv, LocalStep
<1>1. Started' = Started
  BY DEF Started
<1>2. Fresh'
  <2>1. loop'.at \in {"run_row", "queue_row", "queue_args", "enqueue"} => loop' = loop
    BY DEF Idle
  <2>. QED
    BY <1>1, <2>1, StartedGrows DEF Fresh
<1>3. \A q \in Run : Holding(q)' => Holding(q)
  BY DEF Holding, HeldPC, DispatchPC, CoordinatePC, Idle
<1>4. Ownership'
  <2>1. SUFFICES ASSUME ~faulted, NEW q \in Run,
                        (q \in Locked /\ Holding(q)') \/ pc'[q] \in {"rel_del", "drop_del"}
                 PROVE  lock[ScopeOf[q]] = q
    BY DEF Ownership
  <2>2. CASE q \in Locked /\ Holding(q)'
    BY <1>3, <2>1, <2>2 DEF Ownership
  <2>3. CASE pc'[q] \in {"rel_del", "drop_del"}
    <3>1. CASE q = r
      BY <2>3, <3>1 DEF OwnsLock
    <3>2. CASE q # r
      BY <2>1, <2>3, <3>2 DEF Ownership
    <3>. QED
      BY <3>1, <3>2
  <2>. QED
    BY <2>1, <2>2, <2>3
<1>5. LockHasOwner'
  <2>1. SUFFICES ASSUME boot = "up", ~faulted, NEW s \in Scope, NEW q \in Run, lock[s] = q
                 PROVE  ScopeOf[q] = s /\ (Holding(q)' \/ pc'[q] = "stalled")
    BY DEF LockHasOwner
  <2>2. ScopeOf[q] = s /\ (Holding(q) \/ pc[q] = "stalled") /\ redisUp
    BY <2>1 DEF LockHasOwner, Ownership
  <2>3. CASE loop.at = "run_row" /\ loop.run = q
    BY <2>2, <2>3 DEF Holding
  <2>4. CASE pc[q] \in HeldPC
    BY <2>1, <2>2, <2>4 DEF Holding, OwnsLock, HeldPC, DispatchPC, CoordinatePC
  <2>5. CASE pc[q] = "stalled"
    BY <2>2, <2>5
  <2>. QED
    BY <2>2, <2>3, <2>4, <2>5 DEF Holding, HeldPC
<1>. QED
  BY <1>2, <1>4, <1>5

\* The event loop's steps that touch no lock and start no thread.
LEMMA HandlerKeepsIInv ==
    ASSUME IInv, TypeInv', NEW r \in Run,
           \/ CreateWaits(r) \/ CreateArgs(r) \/ CreateEnqueue(r)
           \/ StopRead(r) \/ StopStep(r)
    PROVE  IInv'
<1>. USE DEF IInv, redisVars, memoryVars, threadVars, hostVars, historyVars
<1>1. UNCHANGED <<lock, redisUp, pc, next, boot, faulted>> /\ loop.at # "run_row"
  <2>1. CASE CreateWaits(r) \/ CreateArgs(r) \/ CreateEnqueue(r) \/ StopRead(r)
    BY <2>1 DEF CreateWaits, CreateArgs, CreateEnqueue, StopRead, Idle
  <2>2. CASE StopStep(r)
    BY <2>2 DEF StopStep, StopSignal, StopMarkQueued, StopUnqueue, StopMarkRunning,
       StopCancelRow
  <2>. QED
    BY <2>1, <2>2
<1>2. ASSUME CreateEnqueue(r) \/ StopRead(r) \/ StopStep(r)
      PROVE  loop'.at \in StopPC \cup {"idle"}
  <2>. loop.seen \in {"queued", "running", "needs_input"} \/ loop.at # "signal"
    BY DEF TypeInv, Shape
  <2>1. CASE CreateEnqueue(r) \/ StopCancelRow(r)
    BY <2>1 DEF CreateEnqueue, StopCancelRow, Idle
  <2>2. CASE StopRead(r)
    BY <2>2 DEF StopRead, Idle, StopPC
  <2>3. CASE StopSignal(r)
    <3>1. loop'.at \in {"mark_queued", "mark_running", "cancel_row"}
      BY <2>3 DEF StopSignal, TypeInv, TypeOK, LoopType
    <3>. QED
      BY <3>1 DEF StopPC
  <2>4. CASE StopMarkQueued(r) \/ StopUnqueue(r) \/ StopMarkRunning(r)
    <3>1. loop'.at \in {"unqueue", "cancel_row"}
      BY <2>4 DEF StopMarkQueued, StopUnqueue, StopMarkRunning, TypeInv, TypeOK, LoopType
    <3>. QED
      BY <3>1 DEF StopPC
  <2>. QED
    BY <1>2, <2>1, <2>2, <2>3, <2>4 DEF StopStep
<1>3. loop'.at # "run_row"
  <2>1. CASE CreateWaits(r) \/ CreateArgs(r)
    BY <2>1 DEF CreateWaits, CreateArgs, Idle, TypeInv, TypeOK, LoopType
  <2>2. CASE ~CreateWaits(r) /\ ~CreateArgs(r)
    BY <1>2, <2>2 DEF StopPC
  <2>. QED
    BY <2>1, <2>2
<1>4. Started' = Started /\ \A q \in Run : Holding(q)' <=> Holding(q)
  BY <1>1, <1>3 DEF Started, Holding
<1>5. Fresh'
  <2>1. queue' \in [Scope -> Seq(Started)]
    <3>1. CASE CreateEnqueue(r)
      <4>1. r \in Started /\ ScopeOf[r] \in Scope
        BY <3>1, ScopeAssumption DEF CreateEnqueue, Fresh
      <4>2. Append(queue[ScopeOf[r]], r) \in Seq(Started)
        BY <4>1, AppendProperties DEF Fresh
      <4>. QED
        BY <3>1, <4>2 DEF CreateEnqueue, Enqueue, Fresh
    <3>2. CASE StopUnqueue(r)
      <4>1. (IF loop.legacy THEN LegacyScope ELSE ScopeOf[r]) \in Scope
        BY ScopeAssumption
      <4>. QED
        BY <3>2, <4>1, RemoveQueuedType DEF StopUnqueue, Fresh
    <3>3. CASE ~CreateEnqueue(r) /\ ~StopUnqueue(r)
      BY <3>3 DEF CreateWaits, CreateArgs, StopRead, StopStep, StopSignal,
         StopMarkQueued, StopMarkRunning, StopCancelRow, Fresh
    <3>. QED
      BY <3>1, <3>2, <3>3
  <2>2. /\ loop'.at \in {"run_row", "queue_row"} => loop'.run \in Composer \ Started
        /\ loop'.at \in {"queue_args", "enqueue"} => loop'.run \in Started
    <3>1. CASE CreateWaits(r)
      BY <3>1 DEF CreateWaits, Started, Idle
    <3>2. CASE CreateArgs(r)
      BY <3>2 DEF CreateArgs, Fresh, TypeInv, TypeOK, LoopType
    <3>3. CASE ~CreateWaits(r) /\ ~CreateArgs(r)
      BY <1>2, <3>3 DEF StopPC
    <3>. QED
      BY <3>1, <3>2, <3>3
  <2>. QED
    BY <1>1, <1>4, <2>1, <2>2 DEF Fresh
<1>6. Ownership'
  BY <1>1, <1>4 DEF Ownership
<1>7. LockHasOwner'
  BY <1>1, <1>4 DEF LockHasOwner
<1>. QED
  BY <1>5, <1>6, <1>7

\* A step that admits q by taking its lock, and makes no other run hold one.
LEMMA AcquireKeepsOwnership ==
    ASSUME IInv, NEW q \in Run,
           ~faulted => \/ CanAcquire(ScopeOf[q]) /\ lock' = [lock EXCEPT ![ScopeOf[q]] = q]
                       \/ q \notin Locked /\ lock' = lock,
           UNCHANGED <<redisUp, faulted, boot>>,
           Holding(q)', pc'[q] \notin {"rel_del", "drop_del"},
           \A p \in Run \ {q} :
              /\ Holding(p)' <=> Holding(p)
              /\ pc'[p] \in {"rel_del", "drop_del"} <=> pc[p] \in {"rel_del", "drop_del"}
              /\ pc[p] = "stalled" => pc'[p] = "stalled"
    PROVE  Ownership' /\ LockHasOwner'
<1>. USE DEF IInv
<1>1. lock \in [Scope -> Run \cup {NoRun}] /\ \A p \in Run : ScopeOf[p] \in Scope /\ p # NoRun
  BY RunAssumption, ScopeAssumption DEF TypeInv, TypeOK
<1>2. Ownership'
  <2>1. SUFFICES ASSUME ~faulted, NEW p \in Run,
                        (p \in Locked /\ Holding(p)') \/ pc'[p] \in {"rel_del", "drop_del"}
                 PROVE  lock'[ScopeOf[p]] = p
    BY DEF Ownership
  <2>2. CASE p = q
    BY <1>1, <2>1, <2>2
  <2>3. CASE p # q
    <3>1. lock[ScopeOf[p]] = p /\ redisUp
      BY <2>1, <2>3 DEF Ownership
    <3>2. lock' # lock => ScopeOf[q] # ScopeOf[p]
      BY <1>1, <2>1, <3>1 DEF CanAcquire
    <3>. QED
      BY <1>1, <2>1, <3>1, <3>2
  <2>. QED
    BY <2>2, <2>3
<1>3. LockHasOwner'
  <2>1. SUFFICES ASSUME boot = "up", ~faulted, NEW s \in Scope, NEW p \in Run, lock'[s] = p
                 PROVE  ScopeOf[p] = s /\ (Holding(p)' \/ pc'[p] = "stalled")
    BY DEF LockHasOwner
  <2>2. CASE p = q /\ s = ScopeOf[q]
    BY <2>2
  <2>3. CASE lock[s] = p
    BY <2>1, <2>3 DEF LockHasOwner
  <2>. QED
    BY <1>1, <2>1, <2>2, <2>3
<1>. QED
  BY <1>2, <1>3

LEMMA AcquireKeepsIInv ==
    ASSUME IInv, TypeInv', NEW r \in Run
    PROVE  /\ CreateAdmitted(r) => IInv'
           /\ ChatStart(r) => IInv'
           /\ AcquireNext(r) => IInv'
<1>. USE RunAssumption DEF IInv, redisVars, memoryVars, threadVars, hostVars, historyVars
<1>1. ASSUME CreateAdmitted(r) PROVE IInv'
  <2>1. /\ loop.at = "idle" /\ loop' = [Idle EXCEPT !.at = "run_row", !.run = r]
        /\ UNCHANGED <<queue, redisUp, pc, next, boot, faulted>>
        /\ pc[r] = "idle" /\ r \in Composer /\ (r \in Locked => CanAcquire(ScopeOf[r]))
    BY <1>1 DEF CreateAdmitted, Idle
  <2>2. loop'.at = "run_row" /\ loop'.run = r
    BY <2>1 DEF Idle
  <2>3. Started' = Started /\ r \notin Started
    BY <2>1 DEF Started
  <2>4. Fresh'
    BY <2>1, <2>2, <2>3 DEF Fresh
  <2>5. ~faulted => \/ CanAcquire(ScopeOf[r]) /\ lock' = [lock EXCEPT ![ScopeOf[r]] = r]
                    \/ r \notin Locked /\ lock' = lock
    BY <1>1 DEF CreateAdmitted, Acquire, Ownership
  <2>6. Holding(r)' /\ \A p \in Run \ {r} : Holding(p)' <=> Holding(p)
    BY <2>1, <2>2 DEF Holding
  <2>. QED
    BY <2>1, <2>4, <2>5, <2>6, AcquireKeepsOwnership
<1>2. ASSUME ChatStart(r) PROVE IInv'
  <2>1. /\ UNCHANGED <<queue, redisUp, next, loop, boot, faulted>>
        /\ r \in Chat /\ pc[r] \in {"idle", "done"} /\ pc' = [pc EXCEPT ![r] = "start"]
        /\ CanAcquire(ScopeOf[r])
    BY <1>2 DEF ChatStart, Goto
  <2>2. pc'[r] = "start" /\ \A p \in Run \ {r} : pc'[p] = pc[p]
    BY <2>1 DEF TypeInv, TypeOK
  <2>3. Started' = Started \cup {r}
    BY <2>2 DEF Started
  <2>4. Fresh'
    <3>1. queue' \in [Scope -> Seq(Started')] /\ next' \in [Run -> Started' \cup {NoRun}]
      BY <2>1, <2>3, StartedGrows DEF Fresh
    <3>. QED
      BY <2>1, <2>3, <3>1 DEF Fresh, Composer
  <2>5. ~faulted => \/ CanAcquire(ScopeOf[r]) /\ lock' = [lock EXCEPT ![ScopeOf[r]] = r]
                    \/ r \notin Locked /\ lock' = lock
    BY <1>2, <2>1 DEF ChatStart, Acquire, Ownership, Locked
  <2>6. Holding(r)' /\ \A p \in Run \ {r} : Holding(p)' <=> Holding(p)
    BY <2>1, <2>2 DEF Holding, DispatchPC
  <2>. QED
    BY <2>1, <2>2, <2>4, <2>5, <2>6, AcquireKeepsOwnership
<1>3. ASSUME AcquireNext(r) PROVE IInv'
  <2>1. PICK q \in Run : q = next[r] /\ q \in Started
    <3>1. next[r] \in Run
      BY <1>3 DEF AcquireNext, TypeInv, Shape, AdvancePC
    <3>2. next[r] \in Started
      BY <3>1, RunAssumption DEF Fresh
    <3>. QED
      BY <3>1, <3>2
  <2>2. CASE CanAcquire(ScopeOf[q])
    <3>1. /\ UNCHANGED <<queue, redisUp, loop, boot, faulted>>
          /\ pc[r] = "acquire" /\ pc' = [pc EXCEPT ![r] = "done", ![q] = "dispatch"]
          /\ next' = [next EXCEPT ![r] = NoRun] /\ Acquire(q)
      BY <1>3, <2>1, <2>2 DEF AcquireNext
    <3>2. /\ pc'[q] = "dispatch" /\ (r # q => pc'[r] = "done")
          /\ \A p \in Run \ {q, r} : pc'[p] = pc[p]
      BY <2>1, <3>1 DEF TypeInv, TypeOK
    <3>3. Started' = Started
      BY <2>1, <3>1, <3>2 DEF Started
    <3>4. Fresh'
      BY <3>1, <3>3 DEF Fresh
    <3>. QED
      <4>1. Holding(q)'
        BY <3>2 DEF Holding, DispatchPC
      <4>2. ASSUME NEW p \in Run \ {q} PROVE Holding(p)' <=> Holding(p)
        <5>1. pc'[p] = pc[p] \/ (pc[p] = "acquire" /\ pc'[p] = "done")
          BY <3>1, <3>2
        <5>. QED
          BY <3>1, <5>1 DEF Holding, DispatchPC, CoordinatePC
      <4>3. \A p \in Run \ {q} :
              /\ pc'[p] \in {"rel_del", "drop_del"} <=> pc[p] \in {"rel_del", "drop_del"}
              /\ pc[p] = "stalled" => pc'[p] = "stalled"
        BY <3>1, <3>2
      <4>4. ~faulted => CanAcquire(ScopeOf[q]) /\ lock' = [lock EXCEPT ![ScopeOf[q]] = q]
        BY <2>2, <3>1 DEF Acquire, Ownership
      <4>. QED
        BY <2>1, <3>1, <3>2, <3>4, <4>1, <4>2, <4>3, <4>4, AcquireKeepsOwnership
  <2>3. CASE ~CanAcquire(ScopeOf[q])
    <3>1. LocalStep(r)
      BY <1>3, <2>1, <2>3 DEF AcquireNext, Goto, LocalStep, HeldPC, DispatchPC, CoordinatePC,
         TypeInv, TypeOK
    <3>. QED
      BY <3>1, LocalKeepsIInv
  <2>. QED
    BY <2>2, <2>3
<1>. QED
  BY <1>1, <1>2, <1>3

LEMMA DeleteKeepsIInv ==
    ASSUME IInv, TypeInv', NEW r \in Run, DispatchDropDelete(r) \/ ReleaseDelete(r)
    PROVE  IInv'
<1>. USE DEF IInv, redisVars, memoryVars, threadVars, hostVars, historyVars
<1>1. /\ UNCHANGED <<queue, redisUp, next, boot, faulted>>
      /\ loop' = loop \/ (loop.at = "dispatching" /\ loop' = Idle)
      /\ pc[r] \in {"rel_del", "drop_del"} /\ DeleteLock(r)
  BY DEF DispatchDropDelete, ReleaseDelete, LoopAfterDispatch
<1>2. pc'[r] \in {"done", "discard"} /\ \A p \in Run \ {r} : pc'[p] = pc[p]
  BY DEF DispatchDropDelete, ReleaseDelete, Goto, AfterRelease, TypeInv, TypeOK
<1>3. Started' = Started
  BY <1>1, <1>2 DEF Started
<1>4. Fresh'
  <2>1. loop'.at \in {"run_row", "queue_row", "queue_args", "enqueue"} => loop' = loop
    BY <1>1 DEF Idle
  <2>. QED
    BY <1>1, <1>3, <2>1 DEF Fresh
<1>5. ~faulted => /\ redisUp /\ lock[ScopeOf[r]] = r
                  /\ lock' = [lock EXCEPT ![ScopeOf[r]] = NoRun]
  BY <1>1 DEF Ownership, DeleteLock
<1>6. \A p \in Run \ {r} : Holding(p)' <=> Holding(p)
  BY <1>1, <1>2 DEF Holding, Idle
<1>7. ~Holding(r)'
  <2>1. pc[r] # "idle" /\ (loop.at = "run_row" => loop.run # r)
    BY <1>1 DEF Fresh, Started
  <2>. QED
    BY <1>1, <1>2, <2>1 DEF Holding, Idle, DispatchPC, CoordinatePC
<1>8. lock \in [Scope -> Run \cup {NoRun}] /\ \A p \in Run : ScopeOf[p] \in Scope /\ p # NoRun
  BY RunAssumption, ScopeAssumption DEF TypeInv, TypeOK
<1>9. Ownership'
  <2>1. SUFFICES ASSUME ~faulted, NEW p \in Run,
                        (p \in Locked /\ Holding(p)') \/ pc'[p] \in {"rel_del", "drop_del"}
                 PROVE  lock'[ScopeOf[p]] = p
    BY <1>1, <1>5 DEF Ownership
  <2>2. p # r
    BY <1>2, <1>7, <2>1
  <2>3. lock[ScopeOf[p]] = p
    BY <1>2, <1>6, <2>1, <2>2 DEF Ownership
  <2>4. ScopeOf[p] # ScopeOf[r]
    BY <1>5, <2>1, <2>2, <2>3
  <2>. QED
    BY <1>5, <1>8, <2>1, <2>3, <2>4
<1>10. LockHasOwner'
  <2>1. SUFFICES ASSUME boot = "up", ~faulted, NEW s \in Scope, NEW p \in Run, lock'[s] = p
                 PROVE  ScopeOf[p] = s /\ (Holding(p)' \/ pc'[p] = "stalled")
    BY <1>1 DEF LockHasOwner
  <2>2. s # ScopeOf[r] /\ lock[s] = p
    BY <1>5, <1>8, <2>1
  <2>3. ScopeOf[p] = s /\ (Holding(p) \/ pc[p] = "stalled")
    BY <2>1, <2>2 DEF LockHasOwner
  <2>. QED
    BY <1>2, <1>6, <2>2, <2>3
<1>. QED
  BY <1>4, <1>9, <1>10

LEMMA CreateRowKeepsIInv ==
    ASSUME IInv, TypeInv', NEW r \in Run, CreateRunningRow(r) \/ CreateQueuedRow(r)
    PROVE  IInv'
<1>. USE DEF IInv, redisVars, memoryVars, threadVars, hostVars, historyVars
<1>1. /\ UNCHANGED <<lock, queue, redisUp, next, boot, faulted>>
      /\ loop.at \in {"run_row", "queue_row"} /\ loop.run = r
  BY DEF CreateRunningRow, CreateQueuedRow
<1>2. \A p \in Run \ {r} : pc'[p] = pc[p]
  BY DEF CreateRunningRow, CreateQueuedRow, Goto, TypeInv, TypeOK
<1>3. \/ loop.at = "run_row" /\ pc'[r] = "dispatch" /\ loop'.at = "dispatching"
      \/ loop.at = "queue_row" /\ pc'[r] = "queued" /\ loop'.at = "queue_args"
  BY DEF CreateRunningRow, CreateQueuedRow, Goto, TypeInv, TypeOK, LoopType
<1>4. pc[r] = "idle" /\ loop'.run = r
  BY <1>1 DEF Fresh, Started, CreateRunningRow, CreateQueuedRow, TypeInv, TypeOK, LoopType
<1>5. Started' = Started \cup {r}
  BY <1>2, <1>3 DEF Started
<1>6. Fresh'
  <2>1. queue' \in [Scope -> Seq(Started')] /\ next' \in [Run -> Started' \cup {NoRun}]
    BY <1>1, <1>5, StartedGrows DEF Fresh
  <2>. QED
    BY <1>3, <1>4, <1>5, <2>1 DEF Fresh
<1>7. \A p \in Run : Holding(p)' <=> Holding(p)
  BY <1>1, <1>2, <1>3, <1>4 DEF Holding, DispatchPC, CoordinatePC
<1>8. Ownership'
  BY <1>1, <1>2, <1>3, <1>7 DEF Ownership
<1>9. LockHasOwner'
  BY <1>1, <1>2, <1>4, <1>7 DEF LockHasOwner
<1>. QED
  BY <1>6, <1>8, <1>9

LEMMA QueueKeepsIInv ==
    ASSUME IInv, TypeInv', NEW r \in Run, PopNext(r) \/ Requeue(r)
    PROVE  IInv'
<1>. USE DEF IInv, redisVars, memoryVars, threadVars, hostVars, historyVars
<1>1. UNCHANGED <<lock, redisUp, loop, boot, faulted>> /\ pc[r] \in {"pop", "requeue"}
  BY DEF PopNext, Requeue
<1>2. pc'[r] \in {"check", "done"} /\ \A p \in Run \ {r} : pc'[p] = pc[p]
  BY DEF PopNext, Requeue, Goto, TypeInv, TypeOK
<1>3. Started' = Started
  BY <1>1, <1>2 DEF Started
<1>4. ScopeOf \in [Run -> Scope]
  BY ScopeAssumption
<1>5. queue' \in [Scope -> Seq(Started)] /\ next' \in [Run -> Started \cup {NoRun}]
  <2>1. CASE PopNext(r) /\ queue[ScopeOf[r]] # <<>> /\ redisUp
    <3>1. /\ Head(queue[ScopeOf[r]]) \in Started
          /\ Tail(queue[ScopeOf[r]]) \in Seq(Started)
      BY <1>4, <2>1, HeadTailProperties DEF Fresh
    <3>2. /\ next' = [next EXCEPT ![r] = Head(queue[ScopeOf[r]])]
          /\ queue' = [queue EXCEPT ![ScopeOf[r]] = Tail(queue[ScopeOf[r]])]
      BY <2>1 DEF PopNext
    <3>. QED
      BY <3>1, <3>2 DEF Fresh
  <2>2. CASE PopNext(r) /\ ~(queue[ScopeOf[r]] # <<>> /\ redisUp)
    BY <2>2 DEF PopNext, Fresh
  <2>3. CASE Requeue(r)
    <3>1. next[r] \in Started /\ next[r] \in Run
      BY <2>3, RunAssumption DEF Requeue, TypeInv, Shape, AdvancePC, Fresh
    <3>2. Append(queue[ScopeOf[next[r]]], next[r]) \in Seq(Started)
      BY <1>4, <3>1, AppendProperties DEF Fresh
    <3>. QED
      BY <2>3, <3>2 DEF Requeue, Enqueue, Fresh
  <2>. QED
    BY <2>1, <2>2, <2>3
<1>6. Fresh'
  BY <1>1, <1>3, <1>5 DEF Fresh
<1>7. \A p \in Run : Holding(p)' <=> Holding(p)
  BY <1>1, <1>2 DEF Holding, DispatchPC, CoordinatePC
<1>8. Ownership'
  BY <1>1, <1>2, <1>7 DEF Ownership
<1>9. LockHasOwner'
  BY <1>1, <1>2, <1>7 DEF LockHasOwner
<1>. QED
  BY <1>6, <1>8, <1>9

LEMMA HostKeepsIInv ==
    ASSUME IInv, TypeInv', Crash \/ Startup \/ (\E s \in Scope : LockExpires(s))
                           \/ RedisFails \/ RedisRecovers
    PROVE  IInv'
<1>. USE DEF IInv, redisVars, memoryVars, threadVars, hostVars, historyVars
<1>1. ASSUME Crash PROVE IInv'
  <2>1. /\ UNCHANGED <<lock, queue, redisUp, faulted>> /\ boot' = "reconcile"
        /\ loop' = Idle /\ next' = [p \in Run |-> NoRun]
        /\ \A p \in Run : pc'[p] \in {"idle", "done"} /\ (pc[p] # "idle" => pc'[p] = "done")
    BY <1>1 DEF Crash
  <2>2. Started \subseteq Started'
    BY <2>1 DEF Started
  <2>3. queue' \in [Scope -> Seq(Started')]
    <3>1. \A s \in Scope : queue[s] \in Seq(Started')
      BY <2>2, SeqMonotone DEF Fresh
    <3>. QED
      BY <2>1, <3>1 DEF Fresh
  <2>4. Fresh'
    BY <2>1, <2>3 DEF Fresh, Idle
  <2>5. \A p \in Run : ~Holding(p)'
    BY <2>1 DEF Holding, Idle, DispatchPC, CoordinatePC
  <2>6. Ownership' /\ LockHasOwner'
    BY <2>1, <2>5 DEF Ownership, LockHasOwner
  <2>. QED
    BY <2>4, <2>6
<1>2. ASSUME Startup PROVE IInv'
  <2>1. /\ UNCHANGED <<redisUp, pc, next, loop, faulted>>
        /\ boot # "up" /\ (boot' = "up" => ClearAll) /\ (ClearAll \/ UNCHANGED queue)
    BY <1>2 DEF Startup, Reconcile, ClearAll
  <2>2. Started' = Started
    BY <2>1 DEF Started
  <2>3. queue' \in [Scope -> Seq(Started)]
    <3>1. <<>> \in Seq(Started)
      OBVIOUS
    <3>. QED
      BY <2>1, <3>1 DEF ClearAll, Fresh
  <2>4. Fresh'
    BY <2>1, <2>2, <2>3 DEF Fresh
  <2>5. \A p \in Run : ~Holding(p)' /\ pc'[p] \in {"idle", "done"}
    BY <2>1 DEF Holding, TypeInv, Shape, Idle, DispatchPC, CoordinatePC
  <2>6. Ownership' /\ LockHasOwner'
    BY <2>1, <2>5, RunAssumption DEF Ownership, LockHasOwner, ClearAll
  <2>. QED
    BY <2>4, <2>6
<1>3. ASSUME NEW s \in Scope, LockExpires(s) PROVE IInv'
  <2>1. /\ UNCHANGED <<queue, redisUp, pc, next, loop, boot>>
        /\ lock' = [lock EXCEPT ![s] = NoRun]
        /\ lock[s] # NoRun /\ (faulted' <=> faulted \/ Holding(lock[s]))
    BY <1>3 DEF LockExpires, TypeInv, TypeOK
  <2>2. Started' = Started /\ \A p \in Run : Holding(p)' <=> Holding(p)
    BY <2>1 DEF Started, Holding
  <2>3. Fresh'
    BY <2>1, <2>2 DEF Fresh
  <2>4. Ownership'
    <3>1. SUFFICES ASSUME ~faulted', NEW p \in Run,
                          (p \in Locked /\ Holding(p)) \/ pc[p] \in {"rel_del", "drop_del"}
                   PROVE  lock'[ScopeOf[p]] = p
      BY <2>1, <2>2 DEF Ownership
    <3>2. lock[ScopeOf[p]] = p /\ Holding(p)
      BY <2>1, <3>1 DEF Ownership, Holding, DispatchPC
    <3>3. s # ScopeOf[p]
      BY <2>1, <3>1, <3>2
    <3>. QED
      BY <2>1, <3>2, <3>3, ScopeAssumption DEF TypeInv, TypeOK
  <2>5. LockHasOwner'
    BY <2>1, <2>2, RunAssumption DEF LockHasOwner, TypeInv, TypeOK
  <2>. QED
    BY <2>3, <2>4, <2>5
<1>4. ASSUME RedisFails \/ RedisRecovers PROVE IInv'
  <2>1. UNCHANGED <<lock, queue, pc, next, loop, boot>> /\ faulted'
    BY <1>4 DEF RedisFails, RedisRecovers, Ownership, TypeInv, TypeOK
  <2>2. Started' = Started
    BY <2>1 DEF Started
  <2>. QED
    BY <2>1, <2>2 DEF Fresh, Ownership, LockHasOwner
<1>. QED
  BY <1>1, <1>2, <1>3, <1>4

\* Every step keeps the inductive invariant.
LEMMA IInvStep ==
    ASSUME IInv, [Next]_vars
    PROVE  IInv'
<1>1. TypeInv'
  BY TypeStep DEF IInv
<1>2. ASSUME Request PROVE IInv'
  BY <1>1, <1>2, AcquireKeepsIInv, HandlerKeepsIInv DEF Request
<1>3. ASSUME Handler PROVE IInv'
  BY <1>1, <1>3, CreateRowKeepsIInv, HandlerKeepsIInv DEF Handler, CreateStep
<1>4. ASSUME NEW r \in Run, Thread(r) \/ ChatStall(r) PROVE IInv'
  <2>1. CASE DispatchDropDelete(r) \/ ReleaseDelete(r)
    BY <1>1, <2>1, DeleteKeepsIInv
  <2>2. CASE AcquireNext(r)
    BY <1>1, <2>2, AcquireKeepsIInv
  <2>3. CASE PopNext(r) \/ Requeue(r)
    BY <1>1, <2>3, QueueKeepsIInv
  <2>4. CASE ~(\/ DispatchDropDelete(r) \/ ReleaseDelete(r) \/ AcquireNext(r)
               \/ PopNext(r) \/ Requeue(r))
    <3>1. LocalStep(r)
      BY <1>4, <2>4, LocalSteps DEF Thread, Coordinate, Advance, IInv
    <3>. QED
      BY <1>1, <3>1, LocalKeepsIInv
  <2>. QED
    BY <2>1, <2>2, <2>3, <2>4
<1>5. ASSUME UNCHANGED vars PROVE IInv'
  <2>1. UNCHANGED <<lock, queue, redisUp, pc, next, loop, boot, faulted>>
    BY <1>5 DEF vars, redisVars, memoryVars, threadVars, hostVars, historyVars
  <2>2. Started' = Started
    BY <2>1 DEF Started
  <2>. QED
    BY <1>1, <2>1, <2>2 DEF IInv, Fresh, Ownership, LockHasOwner, Holding
<1>. QED
  BY <1>1, <1>2, <1>3, <1>4, <1>5, HostKeepsIInv DEF Next

LEMMA IInvInit == Init => IInv
<1>. SUFFICES ASSUME Init PROVE IInv
  OBVIOUS
<1>. USE RunAssumption DEF Init
<1>1. <<>> \in Seq(Started)
  OBVIOUS
<1>2. Fresh
  BY <1>1 DEF Fresh, Idle
<1>3. \A r \in Run : ~Holding(r) /\ pc[r] \notin {"rel_del", "drop_del"}
  BY DEF Holding, Idle, DispatchPC, CoordinatePC
<1>4. Ownership /\ LockHasOwner
  BY <1>3 DEF Ownership, LockHasOwner
<1>. QED
  BY <1>2, <1>4, TypeInit DEF IInv

LEMMA IInvCorrect == Spec => []IInv
  BY IInvInit, IInvStep, PTL DEF Spec

\* At most one lock-taking run of a scope is inside coordinate_task, however create,
\* stop, chat, release, hand-over and restart interleave (try_acquire and release of
\* task_queue.py around _run in main.py and the picker branch of gates.py), as long as
\* Redis answers and no working run outlives its lock.
THEOREM OneWriterPerScope == Spec => []MutualExclusion
<1>1. IInv => MutualExclusion
  <2>. SUFFICES ASSUME IInv, ~faulted, NEW q \in Locked, NEW r \in Locked,
                       ScopeOf[q] = ScopeOf[r], pc[q] \in CoordinatePC, pc[r] \in CoordinatePC
                PROVE  q = r
    BY DEF MutualExclusion
  <2>1. lock[ScopeOf[q]] = q /\ lock[ScopeOf[r]] = r
    BY DEF IInv, Ownership, Holding, Locked
  <2>. QED
    BY <2>1
<1>. QED
  BY <1>1, IInvCorrect, PTL

\* A held lock always has an owner that will still release it, or a stalled chat
\* stream: the release in the finally of _run and of the picker branch, the drop of
\* a cancelled dispatch and clear_all together leave no orphaned key.
THEOREM EveryLockHasOwner == Spec => []LockHasOwner
<1>1. IInv => LockHasOwner
  BY DEF IInv
<1>. QED
  BY <1>1, IInvCorrect, PTL

=============================================================================
