-------------------------- MODULE TaskBoardProofs --------------------------
(***************************************************************************)
(* Proofs about the wait lists and the rows of TaskQueue.  Unlike the       *)
(* ownership of the lock (TaskQueueProofs), what they rest on survives      *)
(* expired keys, Redis outages and restarts.                                *)
(***************************************************************************)
EXTENDS TaskQueueProofs

\* The places a waiting run can be in are exclusive: one entry of one list, one thread's
\* hand, or the handler that is about to enqueue it.
Once ==
    /\ \A s \in Scope : IsInjective(queue[s])
    /\ \A s \in Scope : \A r \in ToSet(queue[s]) : ScopeOf[r] = s /\ \A q \in Run : next[q] # r
    /\ \A p, q \in Run : next[p] = next[q] /\ next[p] # NoRun => p = q
    /\ loop.at \in {"queue_args", "enqueue"} =>
          /\ \A s \in Scope : loop.run \notin ToSet(queue[s])
          /\ \A q \in Run : next[q] # loop.run

\* The threads that took the arguments of a popped run out of the registry.
Taker(p) == pc[p] \in {"acquire", "repend"}

\* The arguments of a run are registered only while it waits, and a thread that took
\* them is the only one to have them; a run that still waits has its arguments
\* somewhere, or was cancelled.
Arguments ==
    /\ \A r \in pending : pc[r] = "queued"
    /\ \A p \in Run : Taker(p) => pc[next[p]] = "queued" /\ next[p] \notin pending
    /\ \A p \in Run : pc[p] = "requeue" => pc[next[p]] = "queued"
    /\ loop.at = "queue_args" => pc[loop.run] = "queued" /\ loop.run \notin pending
    /\ loop.at = "enqueue" => pc[loop.run] = "queued"
    /\ \A r \in Run : pc[r] = "queued" =>
          \/ r \in pending \cup cancelled
          \/ \E p \in Run : Taker(p) /\ next[p] = r
          \/ loop.at = "queue_args" /\ loop.run = r

\* While Redis keeps its promises and no restart is being cleaned up, the lists name
\* waiting runs only.
Listed ==
    boot = "up" /\ ~faulted =>
        \A s \in Scope : \A r \in ToSet(queue[s]) : pc[r] = "queued"

\* The task board between the row of a run and its thread.
BoardPC == {"queued", "dispatch", "drop_get", "drop_del", "mark"}

\* Only composer runs are on the task board.
Kinds == \A r \in Run : pc[r] \in BoardPC => r \in Composer

\* The thread of a run is past its last write to the row.
Over == {"rel_get", "rel_del", "discard", "done"} \cup AdvancePC

\* A stop request that has marked its run and has yet to write the row.
StopInFlight(r) == loop.run = r /\ loop.at \in {"unqueue", "cancel_row"}

\* The row of a run before, while and after its thread works on it.
Rows ==
    /\ \A r \in Run : pc[r] = "idle" =>
          /\ status[r] \in {"none", "needs_input", "cancelled"}
          /\ r \in Composer => status[r] = "none"
    /\ \A r \in Run : pc[r] = "queued" => status[r] \in {"none", "queued", "cancelled"}
    /\ \A r \in Run : status[r] \in {"completed", "failed"} => pc[r] \in Over
    /\ loop.at \in StopPC => status[loop.run] # "none"

\* A composer run marked as cancelled has a cancelled or finished row, unless the write was
\* lost or the stop that marked it has yet to make it.  A restart forgets the marks.
Marked ==
    /\ boot # "up" => cancelled = {}
    /\ \A r \in Composer : r \in cancelled \/ pc[r] \in {"drop_get", "drop_del"} =>
          /\ status[r] # "none"
          /\ status[r] \in Terminal \/ StopInFlight(r) \/ r \in untold

\* Past its last write, a run is off the board, or its row was not told.
Settled ==
    /\ boot = "clear" => \A r \in Run \ untold : status[r] \notin {"queued", "running"}
    /\ boot = "up" =>
          \A r \in Run \ untold : pc[r] \in Over =>
              status[r] \notin {"queued", "running"} \/ StopInFlight(r)

\* The inductive invariant of the board, on top of IInv.
Board == IInv /\ Once /\ Arguments /\ Listed /\ Kinds /\ Rows /\ Marked /\ Settled

Lists == Once /\ Arguments /\ Listed
RowInv == Kinds /\ Rows /\ Marked /\ Settled

----------------------------------------------------------------------------
(* What the operations on a wait list do to its members.                    *)

LEMMA MembersIs ==
    ASSUME NEW S, NEW q \in Seq(S)
    PROVE  \A e : e \in ToSet(q) <=> \E i \in 1..Len(q) : q[i] = e
  BY DEF ToSet

\* LPOP takes one entry, and leaves no second copy of it.
LEMMA PopTakesOne ==
    ASSUME NEW S, NEW q \in Seq(S), q # <<>>, IsInjective(q)
    PROVE  /\ Head(q) \in ToSet(q) /\ Head(q) \in S
           /\ Tail(q) \in Seq(S) /\ IsInjective(Tail(q))
           /\ ToSet(Tail(q)) = ToSet(q) \ {Head(q)}
<1>1. /\ Head(q) = q[1] /\ Tail(q) \in Seq(S) /\ Len(Tail(q)) = Len(q) - 1
      /\ Len(q) \in Nat /\ Len(q) > 0 /\ Head(q) \in S
      /\ \A i \in 1..Len(Tail(q)) : Tail(q)[i] = q[i + 1]
  BY HeadTailProperties
<1>2. \A i, j \in 1..Len(q) : q[i] = q[j] => i = j
  BY DEF IsInjective
<1>3. IsInjective(Tail(q))
  <2>1. SUFFICES ASSUME NEW i \in 1..Len(Tail(q)), NEW j \in 1..Len(Tail(q)),
                        Tail(q)[i] = Tail(q)[j]
                 PROVE  i = j
    BY <1>1 DEF IsInjective
  <2>2. q[i + 1] = q[j + 1] /\ i + 1 \in 1..Len(q) /\ j + 1 \in 1..Len(q)
    BY <1>1, <2>1
  <2>. QED
    BY <1>2, <2>2
<1>4. ASSUME NEW e PROVE e \in ToSet(Tail(q)) <=> e \in ToSet(q) \ {Head(q)}
  <2>. \A x : x \in ToSet(Tail(q)) <=> \E i \in 1..Len(Tail(q)) : Tail(q)[i] = x
    BY <1>1, MembersIs
  <2>1. ASSUME e \in ToSet(Tail(q)) PROVE e \in ToSet(q) \ {Head(q)}
    <3>1. PICK i \in 1..Len(Tail(q)) : Tail(q)[i] = e
      BY <2>1
    <3>2. i + 1 \in 1..Len(q) /\ q[i + 1] = e /\ 1 \in 1..Len(q) /\ i + 1 # 1
      BY <1>1, <3>1
    <3>3. e # q[1]
      BY <1>2, <3>2
    <3>. QED
      BY <1>1, <3>2, <3>3, MembersIs
  <2>2. ASSUME e \in ToSet(q) \ {Head(q)} PROVE e \in ToSet(Tail(q))
    <3>1. PICK i \in 1..Len(q) : q[i] = e
      BY <2>2, MembersIs
    <3>2. i # 1
      BY <1>1, <2>2, <3>1
    <3>3. i - 1 \in 1..Len(Tail(q)) /\ Tail(q)[i - 1] = e
      BY <1>1, <3>1, <3>2
    <3>. QED
      BY <3>3
  <2>. QED
    BY <2>1, <2>2
<1>5. Head(q) \in ToSet(q)
  <2>. 1 \in 1..Len(q)
    BY <1>1
  <2>. QED
    BY <1>1, MembersIs
<1>. QED
  BY <1>1, <1>3, <1>4, <1>5

\* RPUSH of a run that is not in the list.
LEMMA PushAddsOne ==
    ASSUME NEW S, NEW q \in Seq(S), NEW e \in S, IsInjective(q), e \notin ToSet(q)
    PROVE  /\ IsInjective(Append(q, e))
           /\ ToSet(Append(q, e)) = ToSet(q) \cup {e}
<1>1. /\ Append(q, e) \in Seq(S) /\ Len(Append(q, e)) = Len(q) + 1 /\ Len(q) \in Nat
      /\ \A i \in 1..Len(q) : Append(q, e)[i] = q[i]
      /\ Append(q, e)[Len(q) + 1] = e
  BY AppendProperties
<1>2. \A i \in 1..Len(Append(q, e)) : i \in 1..Len(q) \/ i = Len(q) + 1
  BY <1>1
<1>3. \A i \in 1..Len(q) : q[i] # e
  BY MembersIs
<1>4. IsInjective(Append(q, e))
  <2>1. SUFFICES ASSUME NEW i \in 1..Len(Append(q, e)), NEW j \in 1..Len(Append(q, e)),
                        Append(q, e)[i] = Append(q, e)[j]
                 PROVE  i = j
    BY <1>1 DEF IsInjective
  <2>2. \A k, l \in 1..Len(q) : q[k] = q[l] => k = l
    BY DEF IsInjective
  <2>3. \A k \in 1..Len(q) : q[k] # e /\ Append(q, e)[k] = q[k]
    BY <1>1, <1>3
  <2>. QED
    BY <1>1, <1>2, <2>1, <2>2, <2>3
<1>5. ASSUME NEW x PROVE x \in ToSet(Append(q, e)) <=> x \in ToSet(q) \cup {e}
  <2>1. x \in ToSet(Append(q, e)) <=> \E i \in 1..Len(Append(q, e)) : Append(q, e)[i] = x
    BY <1>1, MembersIs
  <2>2. x \in ToSet(q) <=> \E i \in 1..Len(q) : q[i] = x
    BY MembersIs
  <2>3. Len(q) + 1 \in 1..Len(Append(q, e)) /\ \A i \in 1..Len(q) : i \in 1..Len(Append(q, e))
    BY <1>1
  <2>. QED
    BY <1>1, <1>2, <2>1, <2>2, <2>3
<1>. QED
  BY <1>4, <1>5

\* Deleting an entry leaves the others, each once.
LEMMA RemoveTakesOne ==
    ASSUME NEW S, NEW q \in Seq(S), NEW k \in 1..Len(q), IsInjective(q)
    PROVE  IsInjective(RemoveAt(q, k)) /\ ToSet(RemoveAt(q, k)) \subseteq ToSet(q)
<1>. DEFINE front == SubSeq(q, 1, k - 1)
            back == SubSeq(q, k + 1, Len(q))
            from(i) == IF i < k THEN i ELSE i + 1
<1>1. /\ front \in Seq(S) /\ Len(front) = k - 1 /\ \A i \in 1..(k - 1) : front[i] = q[i]
      /\ Len(q) \in Nat /\ k \in Nat /\ k > 0
  BY SubSeqProperties
<1>2. /\ back \in Seq(S) /\ Len(back) = Len(q) - k
      /\ \A i \in 1..(Len(q) - k) : back[i] = q[k + i]
  BY SubSeqProperties
<1>3. RemoveAt(q, k) = front \o back
  BY DEF RemoveAt
<1>4. RemoveAt(q, k) \in Seq(S) /\ Len(RemoveAt(q, k)) = Len(q) - 1
  <2>. HIDE DEF front, back
  <2>1. front \o back \in Seq(S) /\ Len(front \o back) = Len(front) + Len(back)
    BY <1>1, <1>2, ConcatProperties
  <2>. QED
    BY <1>1, <1>2, <1>3, <2>1
<1>5. \A i \in 1..Len(RemoveAt(q, k)) : from(i) \in 1..Len(q) /\ RemoveAt(q, k)[i] = q[from(i)]
  <2>. HIDE DEF front, back
  <2>1. SUFFICES ASSUME NEW i \in 1..(Len(q) - 1)
                 PROVE  from(i) \in 1..Len(q) /\ RemoveAt(q, k)[i] = q[from(i)]
    BY <1>4
  <2>2. CASE i < k
    <3>1. i \in 1..Len(front) /\ i \in 1..(k - 1)
      BY <1>1, <2>2
    <3>2. (front \o back)[i] = front[i]
      BY <1>1, <1>2, <3>1, ConcatProperties
    <3>. QED
      BY <1>1, <1>3, <2>2, <3>1, <3>2
  <2>3. CASE ~(i < k)
    <3>1. /\ i \in (Len(front) + 1)..(Len(front) + Len(back))
          /\ i - Len(front) \in 1..(Len(q) - k) /\ k + (i - Len(front)) = i + 1
      BY <1>1, <1>2, <2>3
    <3>2. (front \o back)[i] = back[i - Len(front)]
      BY <1>1, <1>2, <3>1, ConcatProperties
    <3>. QED
      BY <1>1, <1>2, <1>3, <2>3, <3>1, <3>2
  <2>. QED
    BY <2>2, <2>3
<1>6. IsInjective(RemoveAt(q, k))
  <2>1. SUFFICES ASSUME NEW i \in 1..Len(RemoveAt(q, k)), NEW j \in 1..Len(RemoveAt(q, k)),
                        RemoveAt(q, k)[i] = RemoveAt(q, k)[j]
                 PROVE  i = j
    BY <1>4 DEF IsInjective
  <2>2. from(i) = from(j)
    <3>1. q[from(i)] = q[from(j)] /\ from(i) \in 1..Len(q) /\ from(j) \in 1..Len(q)
      BY <1>5, <2>1
    <3>. HIDE DEF from
    <3>. QED
      BY <3>1 DEF IsInjective
  <2>. QED
    BY <1>1, <1>4, <2>2
<1>7. ASSUME NEW e \in ToSet(RemoveAt(q, k)) PROVE e \in ToSet(q)
  <2>1. PICK i \in 1..Len(RemoveAt(q, k)) : RemoveAt(q, k)[i] = e
    BY <1>4, MembersIs
  <2>2. from(i) \in 1..Len(q) /\ q[from(i)] = e
    BY <1>5, <2>1
  <2>. HIDE DEF from
  <2>. QED
    BY <2>2, MembersIs
<1>. QED
  BY <1>6, <1>7

----------------------------------------------------------------------------
(* The wait lists and the registry.                                         *)

\* A step of a thread that is neither handing over nor being handed over.
Work(r) ==
    /\ UNCHANGED <<queue, next, pending, boot, faulted>>
    /\ cancelled' \in {cancelled, cancelled \ {r}}
    /\ loop' = loop \/ (loop.at = "dispatching" /\ loop' = Idle)
    /\ pc[r] \notin {"queued"} \cup AdvancePC
    /\ pc'[r] \notin {"idle", "queued"} \cup (AdvancePC \ {"pop"})
    /\ \A q \in Run \ {r} : pc'[q] = pc[q]

LEMMA WorkIs ==
    ASSUME TypeInv, NEW r \in Run
    PROVE  /\ DispatchCheck(r) => Work(r)
           /\ DispatchDropRead(r) => Work(r)
           /\ DispatchDropDelete(r) => Work(r)
           /\ DispatchMark(r) => Work(r)
           /\ ChatStart(r) => Work(r)
           /\ ChatStall(r) => Work(r)
           /\ Coordinate(r) => Work(r)
           /\ ReleaseRead(r) => Work(r)
           /\ ReleaseDelete(r) => Work(r)
           /\ DiscardCancelled(r) => Work(r)
<1>. USE DEF TypeInv, TypeOK, Work, AdvancePC, redisVars, memoryVars, threadVars, hostVars, historyVars, Goto
<1>1. ASSUME DispatchCheck(r) PROVE Work(r)
  BY <1>1 DEF DispatchCheck
<1>2. ASSUME DispatchDropRead(r) PROVE Work(r)
  BY <1>2 DEF DispatchDropRead, LoopAfterDispatch
<1>3. ASSUME DispatchDropDelete(r) PROVE Work(r)
  BY <1>3 DEF DispatchDropDelete, LoopAfterDispatch
<1>4. ASSUME DispatchMark(r) PROVE Work(r)
  BY <1>4 DEF DispatchMark, LoopAfterDispatch
<1>5. ASSUME ChatStart(r) PROVE Work(r)
  BY <1>5 DEF ChatStart
<1>6. ASSUME ChatStall(r) PROVE Work(r)
  BY <1>6 DEF ChatStall
<1>7. ASSUME Coordinate(r) PROVE Work(r)
  <2>1. CASE EnterCoordination(r)
    BY <2>1 DEF EnterCoordination
  <2>2. CASE RecordRunning(r)
    BY <2>2 DEF RecordRunning
  <2>3. CASE Boundary(r)
    BY <2>3 DEF Boundary
  <2>4. CASE PhaseEnds(r)
    BY <2>4 DEF PhaseEnds
  <2>5. CASE LeavesUnfinished(r)
    BY <2>5 DEF LeavesUnfinished
  <2>6. CASE Finish(r)
    BY <2>6 DEF Finish
  <2>7. CASE CallRaises(r)
    BY <2>7 DEF CallRaises
  <2>. QED
    BY <1>7, <2>1, <2>2, <2>3, <2>4, <2>5, <2>6, <2>7 DEF Coordinate
<1>8. ASSUME ReleaseRead(r) PROVE Work(r)
  BY <1>8 DEF ReleaseRead, AfterRelease
<1>9. ASSUME ReleaseDelete(r) PROVE Work(r)
  BY <1>9 DEF ReleaseDelete, AfterRelease
<1>10. ASSUME DiscardCancelled(r) PROVE Work(r)
  BY <1>10 DEF DiscardCancelled
<1>. QED
  BY <1>1, <1>2, <1>3, <1>4, <1>5, <1>6, <1>7, <1>8, <1>9, <1>10

\* Once holds as long as nobody touches a list or a hand.
LEMMA OnceFrame ==
    ASSUME Once, UNCHANGED <<queue, next>>,
           loop'.at \in {"queue_args", "enqueue"} =>
               loop'.run = loop.run /\ loop.at \in {"queue_args", "enqueue"}
    PROVE  Once'
  BY DEF Once

LEMMA WorkKeepsLists ==
    ASSUME TypeInv, Lists, NEW r \in Run, Work(r)
    PROVE  Lists'
<1>. USE DEF Work, Lists
<1>1. loop'.at \in {"queue_args", "enqueue"} => loop' = loop
  BY DEF Idle
<1>2. Once'
  BY <1>1, OnceFrame
<1>3. \A p \in Run : /\ pc'[p] = "queued" <=> pc[p] = "queued"
                     /\ Taker(p)' <=> Taker(p)
                     /\ pc'[p] = "requeue" <=> pc[p] = "requeue"
  BY DEF Taker, AdvancePC
<1>4. \A p \in Run : pc[p] \in AdvancePC \ {"pop"} => next[p] \in Run
  BY DEF TypeInv, Shape
<1>5. loop.at \in {"queue_args", "enqueue"} => loop.run \in Run
  BY DEF TypeInv, Shape
<1>6. pending \subseteq Run
  BY DEF TypeInv, TypeOK
<1>7. Arguments'
  <2>1. \A p \in Run : pc[p] = "queued" /\ p \in pending \cup cancelled
                           => p \in pending' \cup cancelled'
    OBVIOUS
  <2>2. \A p \in Run : pc'[p] = "queued" =>
          \/ p \in pending' \cup cancelled'
          \/ \E q \in Run : Taker(q)' /\ next'[q] = p
          \/ loop'.at = "queue_args" /\ loop'.run = p
    BY <1>3, <2>1 DEF Arguments
  <2>3. \A p \in pending' : pc'[p] = "queued"
    BY <1>3, <1>6 DEF Arguments
  <2>4. \A p \in Run : Taker(p)' => pc'[next'[p]] = "queued" /\ next'[p] \notin pending'
    BY <1>3, <1>4 DEF Arguments, Taker, AdvancePC
  <2>5. \A p \in Run : pc'[p] = "requeue" => pc'[next'[p]] = "queued"
    BY <1>3, <1>4 DEF Arguments, AdvancePC
  <2>6. /\ loop'.at = "queue_args" => pc'[loop'.run] = "queued" /\ loop'.run \notin pending'
        /\ loop'.at = "enqueue" => pc'[loop'.run] = "queued"
    BY <1>1, <1>3, <1>5 DEF Arguments
  <2>. QED
    BY <2>2, <2>3, <2>4, <2>5, <2>6 DEF Arguments
<1>8. Listed'
  <2>1. \A s \in Scope : \A p \in ToSet(queue[s]) : p \in Run
    BY MembersIs DEF TypeInv, TypeOK, ToSet
  <2>. QED
    BY <1>3, <2>1 DEF Listed
<1>. QED
  BY <1>2, <1>7, <1>8
\* The head of a wait list passes into the hand of a thread.
LEMMA PopKeepsLists ==
    ASSUME IInv, Lists, NEW r \in Run, PopNext(r)
    PROVE  Lists'
<1>. USE DEF PopNext, Lists, Goto, redisVars, memoryVars, threadVars, hostVars, historyVars
<1>1. /\ queue \in [Scope -> Seq(Run)] /\ next \in [Run -> Run \cup {NoRun}]
      /\ pc \in [Run -> PC] /\ pending \subseteq Run
  BY DEF IInv, TypeInv, TypeOK
<1>2. UNCHANGED <<pending, cancelled, loop, boot, faulted>> /\ pc[r] = "pop"
  OBVIOUS
<1>3. pc'[r] \in {"check", "done"} /\ \A p \in Run \ {r} : pc'[p] = pc[p]
  BY <1>1
<1>4. \A p \in Run : Taker(p) \/ pc[p] = "requeue" => next[p] \in Run
  BY DEF IInv, TypeInv, Shape, Taker, AdvancePC
<1>5. loop.at \in {"queue_args", "enqueue"} => loop.run \in Run
  BY DEF IInv, TypeInv, Shape
<1>6. \A p \in Run : /\ pc'[p] = "queued" <=> pc[p] = "queued"
                     /\ Taker(p)' <=> Taker(p)
                     /\ pc'[p] = "requeue" <=> pc[p] = "requeue"
                     /\ Taker(p) \/ pc[p] = "requeue" => next'[p] = next[p]
  BY <1>1, <1>2, <1>3 DEF Taker
<1>7. Arguments'
  <2>1. \A p \in Run : pc'[p] = "queued" =>
          \/ p \in pending' \cup cancelled'
          \/ \E q \in Run : Taker(q)' /\ next'[q] = p
          \/ loop'.at = "queue_args" /\ loop'.run = p
    BY <1>2, <1>6 DEF Arguments
  <2>2. /\ \A p \in pending' : pc'[p] = "queued"
        /\ \A p \in Run : Taker(p)' => pc'[next'[p]] = "queued" /\ next'[p] \notin pending'
        /\ \A p \in Run : pc'[p] = "requeue" => pc'[next'[p]] = "queued"
    BY <1>1, <1>2, <1>4, <1>6 DEF Arguments
  <2>3. /\ loop'.at = "queue_args" => pc'[loop'.run] = "queued" /\ loop'.run \notin pending'
        /\ loop'.at = "enqueue" => pc'[loop'.run] = "queued"
    BY <1>2, <1>5, <1>6 DEF Arguments
  <2>. QED
    BY <2>1, <2>2, <2>3 DEF Arguments
<1>8. CASE redisUp /\ queue[ScopeOf[r]] # <<>>
  <2>. DEFINE s == ScopeOf[r]
              e == Head(queue[s])
  <2>1. s \in Scope
    BY ScopeAssumption
  <2>2. queue' = [queue EXCEPT ![s] = Tail(queue[s])] /\ next' = [next EXCEPT ![r] = e]
    BY <1>8
  <2>3. /\ IsInjective(queue[s]) /\ queue[s] \in Seq(Run) /\ queue[s] # <<>>
    BY <1>1, <1>8, <2>1 DEF Once
  <2>4. /\ e \in ToSet(queue[s]) /\ e \in Run /\ IsInjective(Tail(queue[s]))
        /\ ToSet(Tail(queue[s])) = ToSet(queue[s]) \ {e}
    BY <2>3, PopTakesOne
  <2>. HIDE DEF s, e
  <2>5. \A t \in Scope : /\ IsInjective(queue'[t])
                         /\ ToSet(queue'[t]) \subseteq ToSet(queue[t])
                         /\ e \notin ToSet(queue'[t])
    BY <1>1, <2>1, <2>2, <2>4 DEF Once
  <2>6. next'[r] = e /\ \A q \in Run \ {r} : next'[q] = next[q] /\ next[q] # e
    BY <1>1, <2>1, <2>2, <2>4 DEF Once
  <2>7. Once'
    <3>. \A t \in Scope : \A x \in ToSet(queue[t]) :
             ScopeOf[x] = t /\ \A q \in Run : next[q] # x
      BY DEF Once
    <3>1. ASSUME NEW t \in Scope, NEW x \in ToSet(queue'[t])
          PROVE  ScopeOf[x] = t /\ \A q \in Run : next'[q] # x
      <4>1. x \in ToSet(queue[t]) /\ x # e
        BY <2>5, <3>1
      <4>2. \A q \in Run : next[q] # x
        BY <4>1
      <4>. QED
        BY <2>6, <4>1, <4>2
    <3>2. \A p, q \in Run : next'[p] = next'[q] /\ next'[p] # NoRun => p = q
      BY <2>6 DEF Once
    <3>3. loop.at \in {"queue_args", "enqueue"} => loop.run # e
      BY <2>1, <2>4 DEF Once
    <3>4. loop.at \in {"queue_args", "enqueue"} =>
             /\ \A t \in Scope : loop.run \notin ToSet(queue'[t])
             /\ \A q \in Run : next'[q] # loop.run
      BY <2>5, <2>6, <3>3 DEF Once
    <3>. QED
      BY <1>2, <2>5, <3>1, <3>2, <3>4 DEF Once
  <2>8. Listed'
    <3>1. \A t \in Scope : \A p \in ToSet(queue[t]) : p \in Run
      BY <1>1, MembersIs DEF ToSet
    <3>. QED
      BY <1>2, <1>6, <2>5, <3>1 DEF Listed
  <2>. QED
    BY <1>7, <2>7, <2>8
<1>9. CASE ~(redisUp /\ queue[ScopeOf[r]] # <<>>)
  <2>1. UNCHANGED <<queue, next>>
    BY <1>9
  <2>2. Once'
    BY <1>2, <2>1, OnceFrame
  <2>3. \A t \in Scope : \A p \in ToSet(queue[t]) : p \in Run
    BY <1>1, MembersIs DEF ToSet
  <2>4. Listed'
    BY <1>2, <1>6, <2>1, <2>3 DEF Listed
  <2>. QED
    BY <1>7, <2>2, <2>4
<1>. QED
  BY <1>8, <1>9

\* A popped run passes on, is skipped, or goes back to the end of its list.
LEMMA HandOverKeepsLists ==
    ASSUME IInv, Lists, NEW r \in Run
    PROVE  /\ CheckNext(r) => Lists'
           /\ TakeNext(r) => Lists'
           /\ AcquireNext(r) => Lists'
           /\ RestoreArgs(r) => Lists'
<1>. USE DEF Lists, Goto, redisVars, memoryVars, threadVars, hostVars, historyVars
<1>. DEFINE e == next[r]
<1>1. /\ queue \in [Scope -> Seq(Run)] /\ next \in [Run -> Run \cup {NoRun}]
      /\ pc \in [Run -> PC] /\ pending \subseteq Run
  BY DEF IInv, TypeInv, TypeOK
<1>2. \A p \in Run : pc[p] \in AdvancePC \ {"pop"} => next[p] \in Run
  BY DEF IInv, TypeInv, Shape
<1>3. loop.at \in {"queue_args", "enqueue"} => loop.run \in Run
  BY DEF IInv, TypeInv, Shape
<1>4. \A t \in Scope : \A p \in ToSet(queue[t]) : p \in Run
  BY <1>1, MembersIs DEF ToSet
<1>5. e # NoRun =>
         /\ \A q \in Run \ {r} : next[q] # e
         /\ \A t \in Scope : e \notin ToSet(queue[t])
         /\ loop.at \in {"queue_args", "enqueue"} => loop.run # e
  BY <1>1 DEF Once
<1>6. NoRun \notin Run
  BY RunAssumption
<1>. HIDE DEF e
<1>7. ASSUME Skip(r), pc[r] \in {"check", "take"}, pending' = pending \ {e},
             cancelled' \in {cancelled, cancelled \ {e}},
             UNCHANGED <<queue, next, loop, boot, faulted>>
      PROVE  Lists'
  <2>1. e \in Run
    BY <1>2, <1>7 DEF AdvancePC, e
  <2>2. /\ pc'[r] = "pop" /\ pc'[e] # "queued"
        /\ \A p \in Run \ {r} : pc'[p] = pc[p] \/ (p = e /\ pc[p] = "queued" /\ pc'[p] = "done")
    BY <1>1, <1>7, <2>1 DEF Skip, e
  <2>3. \A p \in Run : pc'[p] = "queued" <=> pc[p] = "queued" /\ p # e
    BY <1>7, <2>1, <2>2
  <2>4. \A p \in Run \ {r} : /\ Taker(p)' <=> Taker(p)
                             /\ pc'[p] = "requeue" <=> pc[p] = "requeue"
    BY <2>2 DEF Taker
  <2>5. ~Taker(r) /\ ~Taker(r)' /\ pc'[r] # "requeue"
    BY <1>7, <2>2 DEF Taker
  <2>6. Arguments'
    <3>1. \A p \in Run : pc'[p] = "queued" =>
            \/ p \in pending' \cup cancelled'
            \/ \E q \in Run : Taker(q)' /\ next'[q] = p
            \/ loop'.at = "queue_args" /\ loop'.run = p
      BY <1>7, <2>3, <2>4, <2>5 DEF Arguments
    <3>2. /\ \A p \in pending' : pc'[p] = "queued"
          /\ \A p \in Run : Taker(p)' => pc'[next'[p]] = "queued" /\ next'[p] \notin pending'
          /\ \A p \in Run : pc'[p] = "requeue" => pc'[next'[p]] = "queued"
      BY <1>1, <1>2, <1>5, <1>6, <1>7, <2>1, <2>3, <2>4, <2>5 DEF Arguments, Taker, AdvancePC
    <3>3. /\ loop'.at = "queue_args" => pc'[loop'.run] = "queued" /\ loop'.run \notin pending'
          /\ loop'.at = "enqueue" => pc'[loop'.run] = "queued"
      BY <1>3, <1>5, <1>6, <1>7, <2>1, <2>3 DEF Arguments
    <3>. QED
      BY <3>1, <3>2, <3>3 DEF Arguments
  <2>7. Listed'
    BY <1>4, <1>5, <1>6, <1>7, <2>1, <2>3 DEF Listed
  <2>8. Once'
    BY <1>7, OnceFrame
  <2>. QED
    BY <2>6, <2>7, <2>8
<1>8. ASSUME pc[r] \in {"check", "take", "acquire", "repend"},
             pc'[r] \in {"take", "acquire", "repend", "requeue"},
             \A p \in Run \ {r} : pc'[p] = pc[p],
             UNCHANGED <<queue, next, loop, boot, faulted>>,
             pending' \ {e} = pending \ {e}, cancelled \ {e} \subseteq cancelled',
             e \in pending' => pc[e] = "queued",
             Taker(r)' => pc[e] = "queued" /\ e \notin pending',
             pc'[r] = "requeue" => pc[e] = "queued",
             e \in pending \cup cancelled \/ Taker(r) => e \in pending' \cup cancelled' \/ Taker(r)'
      PROVE  Lists'
  <2>1. e \in Run
    BY <1>2, <1>8 DEF AdvancePC, e
  <2>2. \A p \in Run : pc'[p] = "queued" <=> pc[p] = "queued"
    BY <1>8
  <2>3. \A p \in Run \ {r} : /\ Taker(p)' <=> Taker(p)
                             /\ pc'[p] = "requeue" <=> pc[p] = "requeue"
    BY <1>8 DEF Taker
  <2>4. Arguments'
    <3>1. ASSUME NEW p \in Run, pc'[p] = "queued"
          PROVE  \/ p \in pending' \cup cancelled'
                 \/ \E q \in Run : Taker(q)' /\ next'[q] = p
                 \/ loop'.at = "queue_args" /\ loop'.run = p
      <4>1. CASE p = e
        <5>1. \/ e \in pending \cup cancelled \/ Taker(r)
              \/ \E q \in Run \ {r} : Taker(q)' /\ next'[q] = p
              \/ loop.at = "queue_args" /\ loop.run = e
          BY <1>8, <2>2, <2>3, <3>1, <4>1 DEF Arguments
        <5>. QED
          BY <1>8, <4>1, <5>1 DEF e
      <4>2. CASE p # e
        BY <1>8, <2>2, <2>3, <3>1, <4>2 DEF Arguments, e
      <4>. QED
        BY <4>1, <4>2
    <3>2. \A p \in pending' : pc'[p] = "queued"
      BY <1>1, <1>8, <2>1, <2>2 DEF Arguments
    <3>3. \A p \in Run : Taker(p)' => pc'[next'[p]] = "queued" /\ next'[p] \notin pending'
      BY <1>2, <1>5, <1>6, <1>8, <2>1, <2>2, <2>3 DEF Arguments, Taker, AdvancePC, e
    <3>4. \A p \in Run : pc'[p] = "requeue" => pc'[next'[p]] = "queued"
      BY <1>2, <1>8, <2>1, <2>2, <2>3 DEF Arguments, AdvancePC, e
    <3>5. /\ loop'.at = "queue_args" => pc'[loop'.run] = "queued" /\ loop'.run \notin pending'
          /\ loop'.at = "enqueue" => pc'[loop'.run] = "queued"
      BY <1>3, <1>5, <1>6, <1>8, <2>1, <2>2 DEF Arguments
    <3>. QED
      BY <3>1, <3>2, <3>3, <3>4, <3>5 DEF Arguments
  <2>5. Listed'
    BY <1>4, <1>8, <2>2 DEF Listed
  <2>6. Once'
    BY <1>8, OnceFrame
  <2>. QED
    BY <2>4, <2>5, <2>6
<1>9. ASSUME CheckNext(r) PROVE Lists'
  <2>1. UNCHANGED <<queue, next, loop, boot, faulted>> /\ cancelled' = cancelled \ {e}
    BY <1>9 DEF CheckNext, e
  <2>2. CASE e \in cancelled
    BY <1>7, <1>9, <2>1, <2>2 DEF CheckNext, e
  <2>3. CASE e \notin cancelled
    <3>1. /\ pc[r] = "check" /\ pc'[r] = "take" /\ \A p \in Run \ {r} : pc'[p] = pc[p]
          /\ pending' = pending /\ cancelled' = cancelled
      BY <1>1, <1>9, <2>1, <2>3 DEF CheckNext, e
    <3>2. e \in pending' => pc[e] = "queued"
      BY <1>1, <3>1 DEF Arguments
    <3>. QED
      BY <1>8, <2>1, <3>1, <3>2 DEF Taker
  <2>. QED
    BY <2>2, <2>3
<1>10. ASSUME TakeNext(r) PROVE Lists'
  <2>1. /\ UNCHANGED <<queue, next, loop, boot, faulted, cancelled>> /\ pending' = pending \ {e}
        /\ pc[r] = "take"
    BY <1>10 DEF TakeNext, e
  <2>2. CASE e \in pending
    <3>1. pc'[r] = "acquire" /\ \A p \in Run \ {r} : pc'[p] = pc[p]
      BY <1>1, <1>10, <2>2 DEF TakeNext, e
    <3>2. pc[e] = "queued"
      BY <2>2 DEF Arguments
    <3>. QED
      BY <1>8, <2>1, <3>1, <3>2 DEF Taker
  <2>3. CASE e \notin pending
    BY <1>7, <1>10, <2>1, <2>3 DEF TakeNext, e
  <2>. QED
    BY <2>2, <2>3
<1>11. ASSUME AcquireNext(r) PROVE Lists'
  <2>1. /\ UNCHANGED <<queue, loop, boot, faulted, cancelled, pending>> /\ pc[r] = "acquire"
        /\ e \in Run /\ e \notin pending /\ pc[e] = "queued" /\ e # r
    BY <1>2, <1>11 DEF AcquireNext, AdvancePC, Arguments, Taker, e
  <2>2. CASE CanAcquire(ScopeOf[e])
    <3>1. /\ next' = [next EXCEPT ![r] = NoRun]
          /\ pc' = [pc EXCEPT ![r] = "done", ![e] = "dispatch"]
      BY <1>11, <2>2 DEF AcquireNext, e
    <3>2. \A q \in Run : next'[q] = IF q = r THEN NoRun ELSE next[q]
      BY <1>1, <3>1
    <3>3. Once'
      <4>1. \A t \in Scope : \A x \in ToSet(queue'[t]) :
               ScopeOf[x] = t /\ \A q \in Run : next'[q] # x
        BY <1>4, <1>6, <2>1, <3>2 DEF Once
      <4>2. \A p, q \in Run : next'[p] = next'[q] /\ next'[p] # NoRun => p = q
        BY <3>2 DEF Once
      <4>3. loop'.at \in {"queue_args", "enqueue"} =>
               /\ \A t \in Scope : loop'.run \notin ToSet(queue'[t])
               /\ \A q \in Run : next'[q] # loop'.run
        BY <1>3, <1>6, <2>1, <3>2 DEF Once
      <4>. QED
        BY <2>1, <4>1, <4>2, <4>3 DEF Once
    <3>4. \A p \in Run : pc'[p] = "queued" <=> pc[p] = "queued" /\ p # e
      BY <1>1, <2>1, <3>1
    <3>5. /\ ~Taker(r)' /\ pc'[r] # "requeue"
          /\ \A p \in Run \ {r} : /\ Taker(p)' <=> Taker(p)
                                  /\ pc'[p] = "requeue" <=> pc[p] = "requeue"
      BY <1>1, <2>1, <3>1 DEF Taker
    <3>6. \A q \in Run \ {r} : next[q] # e
      BY <1>5, <1>6, <2>1
    <3>7. ASSUME NEW p \in Run, pc'[p] = "queued"
          PROVE  \/ p \in pending' \cup cancelled'
                 \/ \E q \in Run : Taker(q)' /\ next'[q] = p
                 \/ loop'.at = "queue_args" /\ loop'.run = p
      <4>1. p # e /\ pc[p] = "queued"
        BY <3>4, <3>7
      <4>2. \/ p \in pending \cup cancelled
            \/ \E q \in Run \ {r} : Taker(q) /\ next[q] = p
            \/ loop.at = "queue_args" /\ loop.run = p
        BY <4>1 DEF Arguments, e
      <4>. QED
        BY <2>1, <3>2, <3>5, <4>2
    <3>8. /\ \A p \in pending' : pc'[p] = "queued"
          /\ \A p \in Run : Taker(p)' => pc'[next'[p]] = "queued" /\ next'[p] \notin pending'
          /\ \A p \in Run : pc'[p] = "requeue" => pc'[next'[p]] = "queued"
      BY <1>1, <1>2, <2>1, <3>2, <3>4, <3>5, <3>6 DEF Arguments, Taker, AdvancePC
    <3>9. /\ loop'.at = "queue_args" => pc'[loop'.run] = "queued" /\ loop'.run \notin pending'
          /\ loop'.at = "enqueue" => pc'[loop'.run] = "queued"
      BY <1>3, <1>5, <1>6, <2>1, <3>4 DEF Arguments
    <3>10. Listed'
      BY <1>4, <1>5, <1>6, <2>1, <3>4 DEF Listed
    <3>. QED
      BY <3>3, <3>7, <3>8, <3>9, <3>10 DEF Arguments
  <2>3. CASE ~CanAcquire(ScopeOf[e])
    <3>1. UNCHANGED next /\ pc'[r] = "repend" /\ \A p \in Run \ {r} : pc'[p] = pc[p]
      BY <1>1, <1>11, <2>3 DEF AcquireNext, e
    <3>. QED
      BY <1>8, <2>1, <3>1 DEF Taker
  <2>. QED
    BY <2>2, <2>3
<1>12. ASSUME RestoreArgs(r) PROVE Lists'
  <2>1. /\ UNCHANGED <<queue, next, loop, boot, faulted, cancelled>> /\ pending' = pending \cup {e}
        /\ pc[r] = "repend" /\ pc'[r] = "requeue" /\ \A p \in Run \ {r} : pc'[p] = pc[p]
    BY <1>1, <1>12 DEF RestoreArgs, e
  <2>2. pc[e] = "queued"
    BY <2>1 DEF Arguments, Taker, e
  <2>. QED
    BY <1>8, <2>1, <2>2 DEF Taker
<1>. QED
  BY <1>9, <1>10, <1>11, <1>12
\* A run nobody has in hand any more goes to the end of its list.
LEMMA EnqueueKeepsOnce ==
    ASSUME IInv, Once, NEW e \in Run, Enqueue(e),
           next' \in [Run -> Run \cup {NoRun}],
           \A q \in Run : next'[q] \in {next[q], NoRun} \ {e},
           \A s \in Scope : e \notin ToSet(queue[s]),
           \/ loop'.at \notin {"queue_args", "enqueue"}
           \/ loop' = loop /\ loop.run # e
    PROVE  /\ Once'
           /\ \A s \in Scope : ToSet(queue'[s]) \subseteq ToSet(queue[s]) \cup {e}
<1>1. queue \in [Scope -> Seq(Run)]
  BY DEF IInv, TypeInv, TypeOK
<1>2. ScopeOf[e] \in Scope
  BY ScopeAssumption
<1>3. ASSUME NEW s \in Scope
      PROVE  /\ IsInjective(queue'[s])
             /\ \A x \in ToSet(queue'[s]) : x \in ToSet(queue[s]) \/ (x = e /\ s = ScopeOf[e])
  <2>1. CASE redisUp /\ s = ScopeOf[e]
    <3>1. queue'[s] = Append(queue[s], e)
      BY <1>1, <2>1 DEF Enqueue
    <3>2. /\ IsInjective(Append(queue[s], e))
          /\ ToSet(Append(queue[s], e)) = ToSet(queue[s]) \cup {e}
      <4>1. queue[s] \in Seq(Run) /\ IsInjective(queue[s])
        BY <1>1 DEF Once
      <4>. QED
        BY <4>1, PushAddsOne
    <3>. QED
      BY <2>1, <3>1, <3>2
  <2>2. CASE ~(redisUp /\ s = ScopeOf[e])
    <3>1. queue'[s] = queue[s]
      BY <1>1, <2>2 DEF Enqueue
    <3>. QED
      BY <3>1 DEF Once
  <2>. QED
    BY <2>1, <2>2
<1>4. \A s \in Scope : \A x \in ToSet(queue'[s]) :
          ScopeOf[x] = s /\ \A q \in Run : next'[q] # x
  <2>1. \A s \in Scope : \A x \in ToSet(queue[s]) : x \in Run
    BY <1>1, MembersIs DEF ToSet
  <2>. QED
    BY <1>3, <2>1, RunAssumption DEF Once
<1>5. \A p, q \in Run : next'[p] = next'[q] /\ next'[p] # NoRun => p = q
  BY DEF Once
<1>6. loop'.at \in {"queue_args", "enqueue"} =>
          /\ \A s \in Scope : loop'.run \notin ToSet(queue'[s])
          /\ \A q \in Run : next'[q] # loop'.run
  <2>1. loop'.at \in {"queue_args", "enqueue"} => loop'.run \in Run
    BY DEF IInv, TypeInv, Shape
  <2>. QED
    BY <1>3, <2>1, RunAssumption DEF Once
<1>7. Once'
  BY <1>3, <1>4, <1>5, <1>6 DEF Once
<1>8. \A s \in Scope : ToSet(queue'[s]) \subseteq ToSet(queue[s]) \cup {e}
  BY <1>3
<1>. QED
  BY <1>7, <1>8

LEMMA RequeueKeepsLists ==
    ASSUME IInv, Lists, NEW r \in Run, Requeue(r)
    PROVE  Lists'
<1>. USE DEF Lists, redisVars, memoryVars, threadVars, hostVars, historyVars
<1>. DEFINE e == next[r]
<1>1. /\ next \in [Run -> Run \cup {NoRun}] /\ pc \in [Run -> PC] /\ pending \subseteq Run
      /\ queue \in [Scope -> Seq(Run)]
  BY DEF IInv, TypeInv, TypeOK
<1>2. \A p \in Run : pc[p] \in AdvancePC \ {"pop"} => next[p] \in Run
  BY DEF IInv, TypeInv, Shape
<1>3. loop.at \in {"queue_args", "enqueue"} => loop.run \in Run
  BY DEF IInv, TypeInv, Shape
<1>4. /\ UNCHANGED <<pending, cancelled, loop, boot, faulted>> /\ pc[r] = "requeue"
      /\ Enqueue(e) /\ next' = [next EXCEPT ![r] = NoRun] /\ e \in Run
  BY <1>2 DEF Requeue, AdvancePC
<1>5. pc'[r] = "done" /\ \A p \in Run \ {r} : pc'[p] = pc[p]
  BY <1>1 DEF Requeue, Goto
<1>6. /\ \A q \in Run \ {r} : next[q] # e
      /\ \A t \in Scope : e \notin ToSet(queue[t])
      /\ loop.at \in {"queue_args", "enqueue"} => loop.run # e
  BY <1>4, RunAssumption DEF Once
<1>7. pc[e] = "queued"
  BY <1>4 DEF Arguments
<1>. HIDE DEF e
<1>8. next'[r] = NoRun /\ \A q \in Run \ {r} : next'[q] = next[q]
  BY <1>1, <1>4
<1>9. next' \in [Run -> Run \cup {NoRun}]
      /\ \A q \in Run : next'[q] \in {next[q], NoRun} \ {e}
  BY <1>1, <1>4, <1>6, <1>8, RunAssumption
<1>10. Once' /\ \A s \in Scope : ToSet(queue'[s]) \subseteq ToSet(queue[s]) \cup {e}
  BY <1>4, <1>6, <1>9, EnqueueKeepsOnce
<1>11. \A p \in Run : /\ pc'[p] = "queued" <=> pc[p] = "queued"
                      /\ Taker(p)' <=> Taker(p)
                      /\ pc'[p] = "requeue" <=> pc[p] = "requeue" /\ p # r
                      /\ Taker(p) => p # r
  BY <1>4, <1>5 DEF Taker
<1>12. Arguments'
  <2>1. \A p \in Run : pc'[p] = "queued" =>
          \/ p \in pending' \cup cancelled'
          \/ \E q \in Run : Taker(q)' /\ next'[q] = p
          \/ loop'.at = "queue_args" /\ loop'.run = p
    BY <1>4, <1>8, <1>11 DEF Arguments
  <2>2. \A p \in Run : Taker(p)' => pc'[next'[p]] = "queued" /\ next'[p] \notin pending'
    BY <1>2, <1>4, <1>8, <1>11 DEF Arguments, Taker, AdvancePC
  <2>3. \A p \in Run : pc'[p] = "requeue" => pc'[next'[p]] = "queued"
    BY <1>2, <1>4, <1>8, <1>11 DEF Arguments, AdvancePC
  <2>4. \A p \in pending' : pc'[p] = "queued"
    BY <1>1, <1>4, <1>11 DEF Arguments
  <2>5. /\ loop'.at = "queue_args" => pc'[loop'.run] = "queued" /\ loop'.run \notin pending'
        /\ loop'.at = "enqueue" => pc'[loop'.run] = "queued"
    BY <1>3, <1>4, <1>11 DEF Arguments
  <2>. QED
    BY <2>1, <2>2, <2>3, <2>4, <2>5 DEF Arguments
<1>13. Listed'
  <2>1. \A t \in Scope : \A p \in ToSet(queue[t]) : p \in Run
    BY <1>1, MembersIs DEF ToSet
  <2>. QED
    BY <1>4, <1>7, <1>10, <1>11, <2>1 DEF Listed
<1>. QED
  BY <1>10, <1>12, <1>13

\* The stop endpoint takes a run out of the list it looks into.
LEMMA RemoveKeepsOnce ==
    ASSUME IInv, Once, NEW r \in Run, NEW s \in Scope, RemoveQueued(r, s), next' = next,
           loop'.at \notin {"queue_args", "enqueue"}
    PROVE  Once' /\ \A t \in Scope : ToSet(queue'[t]) \subseteq ToSet(queue[t])
<1>1. queue \in [Scope -> Seq(Run)]
  BY DEF IInv, TypeInv, TypeOK
<1>2. ASSUME NEW t \in Scope
      PROVE  IsInjective(queue'[t]) /\ ToSet(queue'[t]) \subseteq ToSet(queue[t])
  <2>1. CASE redisUp /\ Contains(queue[s], r) /\ t = s
    <3>. DEFINE i == CHOOSE i \in DOMAIN queue[s] : queue[s][i] = r
    <3>1. queue[s] \in Seq(Run) /\ DOMAIN queue[s] = 1..Len(queue[s]) /\ IsInjective(queue[s])
      BY <1>1 DEF Once
    <3>2. i \in 1..Len(queue[s])
      BY <2>1, <3>1 DEF Contains
    <3>3. queue'[t] = RemoveAt(queue[s], i)
      BY <1>1, <2>1 DEF RemoveQueued
    <3>. HIDE DEF i
    <3>. QED
      BY <2>1, <3>1, <3>2, <3>3, RemoveTakesOne
  <2>2. CASE ~(redisUp /\ Contains(queue[s], r) /\ t = s)
    <3>1. queue'[t] = queue[t]
      BY <1>1, <2>2 DEF RemoveQueued
    <3>. QED
      BY <3>1 DEF Once
  <2>. QED
    BY <2>1, <2>2
<1>. QED
  BY <1>2 DEF Once
\* A handler that creates nothing can only move arguments to the cancelled runs.
LEMMA AnswerKeepsArguments ==
    ASSUME IInv, Arguments, UNCHANGED <<pc, next>>,
           loop.at # "queue_args", loop'.at \notin {"queue_args", "enqueue"},
           pending' \subseteq pending, pending \cup cancelled \subseteq pending' \cup cancelled'
    PROVE  Arguments'
<1>1. \A r \in Run : Taker(r)' <=> Taker(r)
  BY DEF Taker
<1>2. \A r \in Run : pc'[r] = "queued" =>
        \/ r \in pending' \cup cancelled'
        \/ \E p \in Run : Taker(p)' /\ next'[p] = r
        \/ loop'.at = "queue_args" /\ loop'.run = r
  BY <1>1 DEF Arguments
<1>3. /\ \A r \in pending' : pc'[r] = "queued"
      /\ \A p \in Run : Taker(p)' => pc'[next'[p]] = "queued" /\ next'[p] \notin pending'
      /\ \A p \in Run : pc'[p] = "requeue" => pc'[next'[p]] = "queued"
  BY <1>1 DEF Arguments
<1>. QED
  BY <1>2, <1>3 DEF Arguments

LEMMA AnswerKeepsLists ==
    ASSUME IInv, Lists, NEW r \in Run
    PROVE  /\ CreateAdmitted(r) \/ CreateWaits(r) \/ StopRead(r) => Lists'
           /\ CreateEnqueue(r) => Lists'
           /\ StopStep(r) => Lists'
<1>. USE DEF Lists, redisVars, memoryVars, threadVars, hostVars, historyVars
<1>1. ASSUME UNCHANGED <<queue, pc, next, boot, faulted>>,
             loop.at \notin {"queue_args", "enqueue"}, loop'.at \notin {"queue_args", "enqueue"},
             pending' \subseteq pending, pending \cup cancelled \subseteq pending' \cup cancelled'
      PROVE  Lists'
  <2>1. Once' /\ Listed'
    BY <1>1, OnceFrame DEF Listed
  <2>. QED
    BY <1>1, <2>1, AnswerKeepsArguments
<1>2. ASSUME CreateAdmitted(r) \/ CreateWaits(r) \/ StopRead(r) PROVE Lists'
  <2>1. loop.at = "idle" /\ loop'.at \in {"run_row", "queue_row", "signal"}
    <3>1. CASE CreateAdmitted(r)
      BY <3>1 DEF CreateAdmitted, Idle
    <3>2. CASE CreateWaits(r)
      BY <3>2 DEF CreateWaits, Idle
    <3>3. CASE StopRead(r)
      BY <3>3 DEF StopRead, Idle
    <3>. QED
      BY <1>2, <3>1, <3>2, <3>3
  <2>2. UNCHANGED <<queue, pc, next, boot, faulted, pending, cancelled>>
    BY <1>2 DEF CreateAdmitted, CreateWaits, StopRead
  <2>. QED
    BY <1>1, <2>1, <2>2
<1>3. ASSUME CreateEnqueue(r) PROVE Lists'
  <2>1. /\ UNCHANGED <<pc, next, boot, faulted, pending, cancelled>> /\ Enqueue(r)
        /\ loop.at = "enqueue" /\ loop.run = r /\ loop' = Idle /\ loop'.at = "idle"
    BY <1>3 DEF CreateEnqueue, Idle
  <2>2. /\ next \in [Run -> Run \cup {NoRun}] /\ queue \in [Scope -> Seq(Run)]
    BY DEF IInv, TypeInv, TypeOK
  <2>3. Arguments'
    BY <2>1, AnswerKeepsArguments
  <2>4. Once' /\ \A s \in Scope : ToSet(queue'[s]) \subseteq ToSet(queue[s]) \cup {r}
    <3>1. /\ \A q \in Run : next'[q] \in {next[q], NoRun} \ {r}
          /\ \A s \in Scope : r \notin ToSet(queue[s])
          /\ next' \in [Run -> Run \cup {NoRun}]
          /\ loop'.at \notin {"queue_args", "enqueue"}
      BY <2>1, <2>2 DEF Once
    <3>. QED
      BY <2>1, <3>1, EnqueueKeepsOnce
  <2>5. pc[r] = "queued"
    BY <2>1 DEF Arguments
  <2>6. Listed'
    <3>1. \A t \in Scope : \A p \in ToSet(queue'[t]) : p \in ToSet(queue[t]) \/ p = r
      BY <2>4
    <3>. QED
      BY <2>1, <2>5, <3>1 DEF Listed
  <2>. QED
    BY <2>3, <2>4, <2>6
<1>4. ASSUME StopStep(r) PROVE Lists'
  <2>1. CASE StopUnqueue(r)
    <3>. DEFINE s == IF loop.legacy THEN LegacyScope ELSE ScopeOf[r]
    <3>1. /\ UNCHANGED <<pc, next, boot, faulted, pending, cancelled>> /\ RemoveQueued(r, s)
          /\ loop.at = "unqueue" /\ loop'.at = "cancel_row" /\ s \in Scope
      BY <2>1, ScopeAssumption DEF StopUnqueue, IInv, TypeInv, TypeOK, LoopType
    <3>. HIDE DEF s
    <3>2. Once' /\ \A t \in Scope : ToSet(queue'[t]) \subseteq ToSet(queue[t])
      BY <3>1, RemoveKeepsOnce
    <3>3. Listed'
      BY <3>1, <3>2 DEF Listed
    <3>4. Arguments'
      BY <3>1, AnswerKeepsArguments
    <3>. QED
      BY <3>2, <3>3, <3>4
  <2>2. CASE StopSignal(r)
    <3>1. loop.seen \in {"queued", "running", "needs_input"} /\ loop.at = "signal"
      BY <2>2 DEF StopSignal, IInv, TypeInv, Shape
    <3>2. loop'.at \in StopPC
      BY <2>2, <3>1 DEF StopSignal, StopPC, IInv, TypeInv, TypeOK, LoopType
    <3>3. UNCHANGED <<queue, pc, next, boot, faulted, pending, cancelled>>
      BY <2>2 DEF StopSignal
    <3>. QED
      BY <1>1, <3>1, <3>2, <3>3 DEF StopPC
  <2>3. CASE StopMarkQueued(r) \/ StopMarkRunning(r) \/ StopCancelRow(r)
    <3>1. loop.at \in StopPC /\ loop'.at \in {"unqueue", "cancel_row", "idle"}
      <4>. loop \in LoopType
        BY DEF IInv, TypeInv, TypeOK
      <4>1. CASE StopMarkQueued(r)
        BY <4>1 DEF StopMarkQueued, StopPC, LoopType
      <4>2. CASE StopMarkRunning(r)
        BY <4>2 DEF StopMarkRunning, StopPC, LoopType
      <4>3. CASE StopCancelRow(r)
        BY <4>3 DEF StopCancelRow, StopPC, Idle
      <4>. QED
        BY <2>3, <4>1, <4>2, <4>3
    <3>2. /\ UNCHANGED <<queue, pc, next, boot, faulted>>
          /\ pending' \subseteq pending /\ pending \cup cancelled \subseteq pending' \cup cancelled'
      BY <2>3 DEF StopMarkQueued, StopMarkRunning, StopCancelRow
    <3>. QED
      BY <1>1, <3>1, <3>2 DEF StopPC
  <2>. QED
    BY <1>4, <2>1, <2>2, <2>3 DEF StopStep
<1>. QED
  BY <1>2, <1>3, <1>4

\* The handler that creates a run.
LEMMA CreateKeepsLists ==
    ASSUME IInv, Lists, NEW r \in Run
    PROVE  /\ CreateRunningRow(r) => Lists'
           /\ CreateQueuedRow(r) => Lists'
           /\ CreateArgs(r) => Lists'
<1>. USE DEF Lists, redisVars, memoryVars, threadVars, hostVars, historyVars
<1>1. /\ next \in [Run -> Run \cup {NoRun}] /\ pc \in [Run -> PC] /\ pending \subseteq Run
      /\ queue \in [Scope -> Seq(Run)] /\ loop \in LoopType
  BY DEF IInv, TypeInv, TypeOK
<1>2. \A p \in Run : pc[p] \in AdvancePC \ {"pop"} => next[p] \in Run
  BY DEF IInv, TypeInv, Shape
<1>3. ASSUME loop.at \in {"run_row", "queue_row"}, loop.run = r
      PROVE  /\ pc[r] = "idle" /\ \A q \in Run : next[q] # r
             /\ \A s \in Scope : r \notin ToSet(queue[s])
  <2>1. r \notin Started
    BY <1>3 DEF IInv, Fresh
  <2>2. \A q \in Run : next[q] # r
    BY <2>1, RunAssumption DEF IInv, Fresh
  <2>3. \A s \in Scope : r \notin ToSet(queue[s])
    <3>1. \A s \in Scope : queue[s] \in Seq(Started)
      BY DEF IInv, Fresh
    <3>2. ASSUME NEW s \in Scope PROVE \A e \in ToSet(queue[s]) : e \in Started
      BY <3>1, MembersIs DEF ToSet
    <3>. QED
      BY <2>1, <3>2
  <2>. QED
    BY <2>1, <2>2, <2>3 DEF Started
<1>4. ASSUME CreateRunningRow(r) \/ CreateQueuedRow(r) PROVE Lists'
  <2>1. /\ UNCHANGED <<queue, next, boot, faulted, pending, cancelled>>
        /\ loop.at \in {"run_row", "queue_row"} /\ loop.run = r /\ loop'.run = r
        /\ loop'.at \in {"dispatching", "queue_args"}
    BY <1>1, <1>4 DEF CreateRunningRow, CreateQueuedRow, LoopType
  <2>2. /\ pc[r] = "idle" /\ \A q \in Run : next[q] # r
        /\ \A s \in Scope : r \notin ToSet(queue[s])
    BY <1>3, <2>1
  <2>3. Once'
    BY <2>1, <2>2 DEF Once
  <2>4. /\ pc'[r] \in {"dispatch", "queued"} /\ \A p \in Run \ {r} : pc'[p] = pc[p]
        /\ pc'[r] = "queued" <=> loop'.at = "queue_args"
    BY <1>1, <1>4 DEF CreateRunningRow, CreateQueuedRow, Goto, LoopType
  <2>5. \A p \in Run : /\ Taker(p)' <=> Taker(p)
                       /\ pc'[p] = "requeue" <=> pc[p] = "requeue"
                       /\ pc[p] = "queued" => pc'[p] = "queued"
                       /\ pc'[p] = "queued" => pc[p] = "queued" \/ (p = r /\ loop'.at = "queue_args")
    BY <2>2, <2>4 DEF Taker
  <2>6. \A p \in Run : pc'[p] = "queued" =>
          \/ p \in pending' \cup cancelled'
          \/ \E q \in Run : Taker(q)' /\ next'[q] = p
          \/ loop'.at = "queue_args" /\ loop'.run = p
    BY <2>1, <2>5 DEF Arguments
  <2>7. /\ \A p \in pending' : pc'[p] = "queued"
        /\ \A p \in Run : Taker(p)' => pc'[next'[p]] = "queued" /\ next'[p] \notin pending'
        /\ \A p \in Run : pc'[p] = "requeue" => pc'[next'[p]] = "queued"
    BY <1>1, <1>2, <2>1, <2>5 DEF Arguments, Taker, AdvancePC
  <2>8. loop'.at = "queue_args" => pc'[loop'.run] = "queued" /\ loop'.run \notin pending'
    BY <2>1, <2>2, <2>4 DEF Arguments
  <2>9. Listed'
    <3>1. \A t \in Scope : \A p \in ToSet(queue[t]) : p \in Run
      BY <1>1, MembersIs DEF ToSet
    <3>. QED
      BY <2>1, <2>5, <3>1 DEF Listed
  <2>. QED
    BY <2>1, <2>3, <2>6, <2>7, <2>8, <2>9 DEF Arguments
<1>5. ASSUME CreateArgs(r) PROVE Lists'
  <2>1. /\ UNCHANGED <<queue, next, boot, faulted, cancelled, pc>> /\ pending' = pending \cup {r}
        /\ loop.at = "queue_args" /\ loop.run = r /\ loop'.run = r /\ loop'.at = "enqueue"
    BY <1>1, <1>5 DEF CreateArgs, LoopType
  <2>2. Once' /\ Listed'
    BY <2>1, OnceFrame DEF Listed
  <2>3. pc[r] = "queued" /\ \A q \in Run : next[q] # r
    BY <2>1 DEF Arguments, Once
  <2>4. \A p \in Run : Taker(p)' <=> Taker(p)
    BY <2>1 DEF Taker
  <2>5. Arguments'
    <3>1. \A p \in Run : pc'[p] = "queued" =>
            \/ p \in pending' \cup cancelled'
            \/ \E q \in Run : Taker(q)' /\ next'[q] = p
            \/ loop'.at = "queue_args" /\ loop'.run = p
      BY <2>1, <2>4 DEF Arguments
    <3>. QED
      BY <2>1, <2>3, <2>4, <3>1 DEF Arguments
  <2>. QED
    BY <2>2, <2>5
<1>. QED
  BY <1>4, <1>5

LEMMA HostKeepsLists ==
    ASSUME IInv, Lists
    PROVE  /\ Crash => Lists'
           /\ Startup => Lists'
           /\ (\E s \in Scope : LockExpires(s)) => Lists'
           /\ RedisFails \/ RedisRecovers => Lists'
<1>. USE DEF Lists, redisVars, memoryVars, threadVars, hostVars, historyVars
<1>1. ASSUME Crash PROVE Lists'
  <2>1. /\ UNCHANGED queue /\ pending' = {} /\ next' = [r \in Run |-> NoRun] /\ loop' = Idle
        /\ boot' = "reconcile" /\ \A r \in Run : pc'[r] \in {"idle", "done"}
    BY <1>1 DEF Crash
  <2>2. \A s \in Scope : \A p \in ToSet(queue[s]) : p \in Run
    BY MembersIs DEF ToSet, IInv, TypeInv, TypeOK
  <2>. QED
    BY <2>1, <2>2, RunAssumption DEF Once, Arguments, Listed, Idle, Taker
<1>2. ASSUME Startup PROVE Lists'
  <2>1. /\ UNCHANGED <<pending, cancelled, pc, next, loop, redisUp, faulted>> /\ boot # "up"
        /\ \/ UNCHANGED queue /\ boot' # "up"
           \/ queue' = (IF redisUp THEN [s \in Scope |-> <<>>] ELSE queue)
    BY <1>2 DEF Startup, Reconcile, ClearAll
  <2>2. loop.at = "idle"
    BY <2>1 DEF IInv, TypeInv, Shape, Idle
  <2>3. \A s \in Scope : queue'[s] = queue[s] \/ queue'[s] = <<>>
    BY <2>1
  <2>4. \A s \in Scope : /\ IsInjective(queue'[s])
                         /\ \A p \in ToSet(queue'[s]) : p \in ToSet(queue[s])
    BY <2>3 DEF Once, IsInjective, ToSet
  <2>5. Once'
    BY <2>1, <2>2, <2>4 DEF Once
  <2>6. Arguments'
    BY <2>1 DEF Arguments, Taker
  <2>7. Listed'
    <3>1. ~faulted => redisUp
      BY DEF IInv, Ownership
    <3>2. boot' = "up" /\ ~faulted' => \A s \in Scope : queue'[s] = <<>>
      BY <2>1, <3>1
    <3>. QED
      BY <3>2 DEF Listed, ToSet
  <2>. QED
    BY <2>5, <2>6, <2>7
<1>3. ASSUME UNCHANGED <<queue, next, pending, cancelled, pc, loop, boot>>, faulted => faulted'
      PROVE  Lists'
  <2>1. Once' /\ Arguments'
    BY <1>3 DEF Once, Arguments, Taker
  <2>2. Listed'
    BY <1>3 DEF Listed
  <2>. QED
    BY <2>1, <2>2
<1>4. ASSUME NEW s \in Scope, LockExpires(s) PROVE Lists'
  BY <1>3, <1>4 DEF LockExpires
<1>5. ASSUME RedisFails \/ RedisRecovers PROVE Lists'
  BY <1>3, <1>5 DEF RedisFails, RedisRecovers
<1>. QED
  BY <1>1, <1>2, <1>4, <1>5
LEMMA ListsStep ==
    ASSUME IInv, Lists, [Next]_vars
    PROVE  Lists'
<1>1. TypeInv
  BY DEF IInv
<1>2. ASSUME Request PROVE Lists'
  <2>1. PICK r \in Run : CreateAdmitted(r) \/ CreateWaits(r) \/ StopRead(r) \/ ChatStart(r)
    BY <1>2 DEF Request
  <2>2. CASE ChatStart(r)
    BY <1>1, <2>2, WorkIs, WorkKeepsLists
  <2>3. CASE CreateAdmitted(r) \/ CreateWaits(r) \/ StopRead(r)
    BY <2>3, AnswerKeepsLists
  <2>. QED
    BY <2>1, <2>2, <2>3
<1>3. ASSUME Handler PROVE Lists'
  BY <1>3, AnswerKeepsLists, CreateKeepsLists DEF Handler, CreateStep
<1>4. ASSUME NEW r \in Run, Thread(r) \/ ChatStall(r) PROVE Lists'
  <2>1. CASE PopNext(r)
    BY <2>1, PopKeepsLists
  <2>2. CASE CheckNext(r) \/ TakeNext(r) \/ AcquireNext(r) \/ RestoreArgs(r)
    BY <2>2, HandOverKeepsLists
  <2>3. CASE Requeue(r)
    BY <2>3, RequeueKeepsLists
  <2>4. CASE \/ DispatchCheck(r) \/ DispatchDropRead(r) \/ DispatchDropDelete(r)
             \/ DispatchMark(r) \/ Coordinate(r) \/ ReleaseRead(r) \/ ReleaseDelete(r)
             \/ DiscardCancelled(r) \/ ChatStall(r)
    <3>1. Work(r)
      BY <1>1, <2>4, WorkIs
    <3>. QED
      BY <1>1, <3>1, WorkKeepsLists
  <2>. QED
    BY <1>4, <2>1, <2>2, <2>3, <2>4 DEF Thread, Advance
<1>5. ASSUME UNCHANGED vars PROVE Lists'
  BY <1>5 DEF Lists, Once, Arguments, Listed, Taker,
     vars, redisVars, memoryVars, threadVars, hostVars, historyVars
<1>. QED
  BY <1>2, <1>3, <1>4, <1>5, HostKeepsLists DEF Next

----------------------------------------------------------------------------
(* The rows.                                                                *)

\* What a step of the thread of r may do to its row, its label and its mark.
RowWork(r) ==
    /\ UNCHANGED boot /\ boot = "up" /\ cancelled' \subseteq cancelled
    /\ loop' = loop \/ (loop.at = "dispatching" /\ loop' = Idle)
    /\ \A q \in Run \ {r} : pc'[q] = pc[q] /\ status'[q] = status[q]
    /\ pc'[r] \notin {"idle", "queued"} /\ (pc'[r] \in BoardPC => pc[r] \in BoardPC)
    /\ untold' \ {r} = untold \ {r}
    /\ r \in untold \ untold' => status'[r] \in Terminal \cup {"none"}
    /\ status'[r] = "none" => status[r] = "none"
    /\ status'[r] \in {"completed", "failed"} => pc'[r] \in Over
    /\ r \in Composer /\ status[r] \in Terminal => status'[r] \in Terminal
    /\ pc'[r] \in {"drop_get", "drop_del"} => r \in cancelled \/ pc[r] \in {"drop_get", "drop_del"}
    /\ pc'[r] \in Over /\ r \notin untold' =>
          \/ status'[r] \notin {"queued", "running"}
          \/ pc[r] \in Over /\ status'[r] = status[r]
          \/ r \in Composer /\ pc[r] \in {"drop_get", "drop_del"}

LEMMA RowWorkKeepsRows ==
    ASSUME IInv, RowInv, NEW r \in Run, RowWork(r)
    PROVE  RowInv'
<1>. USE DEF RowWork, RowInv
<1>1. \A q \in Run : StopInFlight(q)' <=> StopInFlight(q)
  BY DEF StopInFlight, Idle
<1>2. Kinds'
  BY DEF Kinds
<1>3. Rows'
  <2>1. loop'.at \in StopPC => loop' = loop /\ loop.run \in Run
    BY DEF IInv, TypeInv, Shape, Idle, StopPC
  <2>2. loop'.at \in StopPC => status'[loop'.run] # "none"
    BY <2>1 DEF Rows
  <2>3. \A q \in Run :
           /\ pc'[q] = "idle" => pc[q] = "idle" /\ status'[q] = status[q]
           /\ pc'[q] = "queued" => status'[q] \in {"none", "queued", "cancelled"}
           /\ status'[q] \in {"completed", "failed"} => pc'[q] \in Over
    BY DEF Rows
  <2>. QED
    BY <2>2, <2>3 DEF Rows
<1>4. Composer \subseteq Run
  BY DEF Composer
<1>5. Marked'
  <2>1. ASSUME NEW q \in Composer, q \in cancelled' \/ pc'[q] \in {"drop_get", "drop_del"}
        PROVE  /\ status'[q] # "none"
               /\ status'[q] \in Terminal \/ StopInFlight(q)' \/ q \in untold'
    <3>1. q \in cancelled \/ pc[q] \in {"drop_get", "drop_del"}
      BY <1>4, <2>1
    <3>2. status[q] # "none" /\ (status[q] \in Terminal \/ StopInFlight(q) \/ q \in untold)
      BY <3>1 DEF Marked
    <3>. QED
      BY <1>1, <1>4, <3>2
  <2>. QED
    BY <2>1 DEF Marked
<1>6. Settled'
  <2>1. ASSUME NEW q \in Run \ untold', pc'[q] \in Over
        PROVE  status'[q] \notin {"queued", "running"} \/ StopInFlight(q)'
    <3>1. CASE q = r
      <4>1. CASE r \in untold
        BY <2>1, <3>1, <4>1 DEF Terminal
      <4>2. CASE r \notin untold /\ r \in Composer /\ pc[r] \in {"drop_get", "drop_del"}
        BY <1>1, <3>1, <4>2 DEF Marked, Terminal
      <4>. QED
        BY <1>1, <2>1, <3>1, <4>1, <4>2 DEF Settled
    <3>2. CASE q # r
      BY <1>1, <2>1, <3>2 DEF Settled
    <3>. QED
      BY <3>1, <3>2
  <2>. QED
    BY <2>1 DEF Settled
<1>. QED
  BY <1>2, <1>3, <1>5, <1>6

LEMMA RowWorkIs ==
    ASSUME TypeInv, RowInv, NEW r \in Run
    PROVE  /\ DispatchCheck(r) => RowWork(r)
           /\ DispatchDropRead(r) => RowWork(r)
           /\ DispatchDropDelete(r) => RowWork(r)
           /\ DispatchMark(r) => RowWork(r)
           /\ ChatStart(r) => RowWork(r)
           /\ ChatStall(r) => RowWork(r)
           /\ Coordinate(r) => RowWork(r)
           /\ ReleaseRead(r) => RowWork(r)
           /\ ReleaseDelete(r) => RowWork(r)
           /\ Advance(r) /\ ~CheckNext(r) /\ ~TakeNext(r) /\ ~AcquireNext(r) => RowWork(r)
<1>1. pc \in [Run -> PC] /\ status \in [Run -> Status] /\ Chat \subseteq Run
  BY RunAssumption DEF TypeInv, TypeOK
<1>2. pc[r] \notin {"idle", "done"} => boot = "up"
  BY DEF TypeInv, Shape
<1>3. /\ pc[r] = "idle" => status[r] \notin {"completed", "failed"}
      /\ status[r] \in {"completed", "failed"} => pc[r] \in Over
  BY DEF RowInv, Rows
<1>4. pc[r] \in BoardPC => r \in Composer
  BY DEF RowInv, Kinds
<1>. USE <1>1, <1>2, <1>3, <1>4 DEF RowWork, Goto, Over, AdvancePC, Terminal, BoardPC,
         redisVars, memoryVars, threadVars, hostVars, historyVars
<1>5. ASSUME DispatchCheck(r) PROVE RowWork(r)
  BY <1>5 DEF DispatchCheck
<1>6. ASSUME DispatchDropRead(r) PROVE RowWork(r)
  BY <1>6 DEF DispatchDropRead, LoopAfterDispatch
<1>7. ASSUME DispatchDropDelete(r) PROVE RowWork(r)
  BY <1>7 DEF DispatchDropDelete, LoopAfterDispatch
<1>8. ASSUME DispatchMark(r) PROVE RowWork(r)
  BY <1>8 DEF DispatchMark, SetStatus, Advanced, RowLost, LoopAfterDispatch
<1>9. ASSUME ChatStart(r) PROVE RowWork(r)
  BY <1>9 DEF ChatStart
<1>10. ASSUME ChatStall(r) PROVE RowWork(r)
  BY <1>10 DEF ChatStall
<1>11. ASSUME Coordinate(r) PROVE RowWork(r)
  <2>1. CASE EnterCoordination(r)
    BY <2>1 DEF EnterCoordination
  <2>2. CASE RecordRunning(r)
    BY <2>2 DEF RecordRunning, RowLost
  <2>3. CASE Boundary(r)
    BY <2>3 DEF Boundary
  <2>4. CASE PhaseEnds(r)
    BY <2>4 DEF PhaseEnds
  <2>5. CASE LeavesUnfinished(r)
    BY <2>5 DEF LeavesUnfinished, Untold
  <2>6. CASE Finish(r)
    <3>1. CASE Told(r)
      BY <2>6, <3>1 DEF Finish, FinishRun, RowLost, Told, Untold
    <3>2. CASE RowLost(r) /\ Untold(r)
      BY <2>6, <3>2 DEF Finish, RowLost, Untold
    <3>. QED
      BY <2>6, <3>1, <3>2 DEF Finish, FinishRun
  <2>7. CASE CallRaises(r)
    BY <2>7 DEF CallRaises, Untold
  <2>. QED
    BY <1>11, <2>1, <2>2, <2>3, <2>4, <2>5, <2>6, <2>7 DEF Coordinate
<1>12. ASSUME ReleaseRead(r) PROVE RowWork(r)
  BY <1>12 DEF ReleaseRead, AfterRelease
<1>13. ASSUME ReleaseDelete(r) PROVE RowWork(r)
  BY <1>13 DEF ReleaseDelete, AfterRelease
<1>14. ASSUME Advance(r), ~CheckNext(r), ~TakeNext(r), ~AcquireNext(r) PROVE RowWork(r)
  <2>1. CASE DiscardCancelled(r)
    BY <2>1 DEF DiscardCancelled
  <2>2. CASE PopNext(r)
    BY <2>2 DEF PopNext
  <2>3. CASE RestoreArgs(r)
    BY <2>3 DEF RestoreArgs
  <2>4. CASE Requeue(r)
    BY <2>4 DEF Requeue
  <2>. QED
    BY <1>14, <2>1, <2>2, <2>3, <2>4 DEF Advance
<1>. QED
  BY <1>5, <1>6, <1>7, <1>8, <1>9, <1>10, <1>11, <1>12, <1>13, <1>14

\* The row of a popped run stays as it is, and fits what becomes of the run.
LEMMA HandOverKeepsRows ==
    ASSUME IInv, Lists, RowInv, NEW r \in Run, CheckNext(r) \/ TakeNext(r) \/ AcquireNext(r)
    PROVE  RowInv'
<1>. DEFINE e == next[r]
<1>. USE DEF RowInv, redisVars, memoryVars, threadVars, hostVars, historyVars
<1>1. pc \in [Run -> PC] /\ status \in [Run -> Status] /\ Composer \subseteq Run
  BY DEF IInv, TypeInv, TypeOK, Composer
<1>2. e \in Run /\ pc[r] \in {"check", "take", "acquire"} /\ boot = "up"
  BY DEF CheckNext, TakeNext, AcquireNext, IInv, TypeInv, Shape, AdvancePC
<1>3. UNCHANGED <<status, untold, loop, boot>> /\ cancelled' \subseteq cancelled
  BY DEF CheckNext, TakeNext, AcquireNext
<1>4. \A q \in Run : StopInFlight(q)' <=> StopInFlight(q)
  BY <1>3 DEF StopInFlight
<1>5. /\ pc'[r] \in {"pop", "take", "acquire", "repend", "done"}
      /\ \A q \in Run \ {r} : pc'[q] = pc[q] \/ (q = e /\ pc[q] = "queued" /\ pc'[q] \in {"done", "dispatch"})
  <2>1. CASE CheckNext(r)
    BY <1>1, <1>2, <2>1 DEF CheckNext, Skip, Goto
  <2>2. CASE TakeNext(r)
    BY <1>1, <1>2, <2>2 DEF TakeNext, Skip, Goto
  <2>3. CASE AcquireNext(r)
    <3>1. pc[e] = "queued"
      BY <2>3 DEF AcquireNext, Lists, Arguments, Taker
    <3>. QED
      BY <1>1, <1>2, <2>3, <3>1 DEF AcquireNext, Goto
  <2>. QED
    BY <2>1, <2>2, <2>3
<1>6. pc[e] = "queued" /\ pc'[e] = "done" =>
          status[e] \in Terminal \/ StopInFlight(e) \/ e \in untold
  <2>1. CASE CheckNext(r)
    <3>1. pc[e] = "queued" /\ pc'[e] = "done" => e \in cancelled
      BY <1>1, <1>2, <2>1 DEF CheckNext, Skip, Goto
    <3>. QED
      BY <1>2, <3>1 DEF Kinds, Marked, BoardPC
  <2>2. CASE TakeNext(r)
    <3>1. pc[e] = "queued" /\ pc'[e] = "done" => e \notin pending
      BY <1>1, <1>2, <2>2 DEF TakeNext, Skip, Goto
    <3>2. pc[e] = "queued" /\ e \notin pending => e \in cancelled
      <4>1. \A p \in Run : Taker(p) => next[p] # e
        BY <1>2, <2>2, RunAssumption DEF TakeNext, Taker, Lists, Once
      <4>2. ~(loop.at = "queue_args" /\ loop.run = e)
        BY <1>2 DEF Lists, Once
      <4>. QED
        BY <1>2, <4>1, <4>2 DEF Lists, Arguments
    <3>. QED
      BY <1>2, <3>1, <3>2 DEF Kinds, Marked, BoardPC
  <2>3. CASE AcquireNext(r)
    <3>1. pc[e] = "queued"
      BY <2>3 DEF AcquireNext, Lists, Arguments, Taker
    <3>2. pc'[e] # "done"
      BY <1>1, <1>2, <2>3, <3>1 DEF AcquireNext, Goto
    <3>. QED
      BY <3>2
  <2>. QED
    BY <2>1, <2>2, <2>3
<1>. HIDE DEF e
<1>7. Kinds'
  BY <1>1, <1>2, <1>5 DEF Kinds, BoardPC
<1>8. Rows'
  <2>1. \A q \in Run :
           /\ pc'[q] = "idle" => pc[q] = "idle"
           /\ pc'[q] = "queued" => status'[q] \in {"none", "queued", "cancelled"}
           /\ status'[q] \in {"completed", "failed"} => pc'[q] \in Over
    BY <1>2, <1>3, <1>5 DEF Rows, Over, AdvancePC
  <2>. QED
    BY <1>3, <2>1 DEF Rows
<1>9. Marked'
  BY <1>1, <1>2, <1>3, <1>4, <1>5 DEF Marked
<1>10. Settled'
  BY <1>2, <1>3, <1>4, <1>5, <1>6 DEF Settled, Over, AdvancePC, Terminal
<1>. QED
  BY <1>7, <1>8, <1>9, <1>10

LEMMA HandlerKeepsRows ==
    ASSUME IInv, RowInv, NEW r \in Run
    PROVE  /\ CreateAdmitted(r) \/ CreateWaits(r) \/ StopRead(r) => RowInv'
           /\ CreateStep(r) => RowInv'
           /\ StopStep(r) => RowInv'
<1>. USE DEF RowInv, redisVars, memoryVars, threadVars, hostVars, historyVars
<1>1. /\ pc \in [Run -> PC] /\ status \in [Run -> Status] /\ loop \in LoopType
      /\ Composer \subseteq Run
  BY DEF IInv, TypeInv, TypeOK, Composer
<1>2. ASSUME UNCHANGED <<pc, status, boot, untold>>, boot = "up",
             cancelled' \subseteq cancelled \cup {loop'.run},
             cancelled' = cancelled \/ loop'.at \in {"unqueue", "cancel_row"},
             \A q \in Run : StopInFlight(q) => StopInFlight(q)',
             loop'.at \in StopPC => status[loop'.run] # "none"
      PROVE  RowInv'
  <2>1. Kinds' /\ Rows'
    BY <1>2 DEF Kinds, Rows
  <2>2. Marked'
    <3>1. ASSUME NEW q \in Composer, q \in cancelled' \/ pc'[q] \in {"drop_get", "drop_del"}
          PROVE  /\ status'[q] # "none"
                 /\ status'[q] \in Terminal \/ StopInFlight(q)' \/ q \in untold'
      <4>1. CASE q \in cancelled \/ pc[q] \in {"drop_get", "drop_del"}
        BY <1>1, <1>2, <4>1 DEF Marked
      <4>2. CASE ~(q \in cancelled \/ pc[q] \in {"drop_get", "drop_del"})
        BY <1>2, <3>1, <4>2 DEF StopInFlight, StopPC
      <4>. QED
        BY <4>1, <4>2
    <3>. QED
      BY <1>2, <3>1 DEF Marked
  <2>3. Settled'
    BY <1>2 DEF Settled
  <2>. QED
    BY <2>1, <2>2, <2>3
<1>3. ASSUME CreateAdmitted(r) \/ CreateWaits(r) PROVE RowInv'
  <2>1. /\ UNCHANGED <<pc, status, boot, untold, cancelled>> /\ loop.at = "idle" /\ boot = "up"
        /\ loop'.at \in {"run_row", "queue_row"}
    <3>1. CASE CreateAdmitted(r)
      BY <3>1 DEF CreateAdmitted, Idle
    <3>2. CASE CreateWaits(r)
      BY <3>2 DEF CreateWaits, Idle
    <3>. QED
      BY <1>3, <3>1, <3>2
  <2>2. \A q \in Run : ~StopInFlight(q)
    BY <2>1 DEF StopInFlight
  <2>. QED
    BY <1>2, <2>1, <2>2 DEF StopPC
<1>4. ASSUME StopRead(r) PROVE RowInv'
  <2>1. /\ UNCHANGED <<pc, status, boot, untold, cancelled>> /\ loop.at = "idle" /\ boot = "up"
        /\ loop'.run = r /\ status[r] # "none"
    BY <1>4 DEF StopRead, Idle
  <2>2. \A q \in Run : ~StopInFlight(q)
    BY <2>1 DEF StopInFlight
  <2>. QED
    BY <1>2, <2>1, <2>2
<1>5. ASSUME StopStep(r) PROVE RowInv'
  <2>1. loop.run = r /\ loop.at \in StopPC /\ status[r] # "none"
    BY <1>5 DEF StopStep, StopSignal, StopMarkQueued, StopUnqueue, StopMarkRunning,
       StopCancelRow, StopPC, Rows
  <2>4. boot = "up"
    BY <2>1 DEF IInv, TypeInv, Shape, Idle, StopPC
  <2>2. CASE ~StopCancelRow(r)
    <3>1. /\ UNCHANGED <<pc, status, boot, untold>> /\ cancelled' \subseteq cancelled \cup {r}
          /\ cancelled' = cancelled \/ StopMarkQueued(r) \/ StopMarkRunning(r)
      BY <1>5, <2>2 DEF StopStep, StopSignal, StopMarkQueued, StopUnqueue, StopMarkRunning
    <3>2. loop'.run = r
      <4>1. CASE StopSignal(r)
        <5>1. loop'.run = loop.run
          BY <1>1, <4>1 DEF StopSignal, LoopType
        <5>. QED
          BY <2>1, <5>1
      <4>2. CASE StopMarkQueued(r)
        BY <1>1, <2>1, <4>2 DEF StopMarkQueued, LoopType
      <4>3. CASE StopUnqueue(r) \/ StopMarkRunning(r)
        BY <1>1, <2>1, <4>3 DEF StopUnqueue, StopMarkRunning, LoopType
      <4>. QED
        BY <1>5, <2>2, <4>1, <4>2, <4>3 DEF StopStep
    <3>3. ~StopSignal(r) => loop'.at \in {"unqueue", "cancel_row"}
      <4>1. CASE StopMarkQueued(r)
        BY <1>1, <4>1 DEF StopMarkQueued, LoopType
      <4>2. CASE StopUnqueue(r) \/ StopMarkRunning(r)
        BY <1>1, <4>2 DEF StopUnqueue, StopMarkRunning, LoopType
      <4>. QED
        BY <1>5, <2>2, <4>1, <4>2 DEF StopStep
    <3>4. StopSignal(r) => cancelled' = cancelled /\ \A q \in Run : ~StopInFlight(q)
      BY DEF StopSignal, StopInFlight
    <3>5. \A q \in Run : StopInFlight(q) => StopInFlight(q)'
      BY <2>1, <3>2, <3>3, <3>4 DEF StopInFlight
    <3>6. cancelled' = cancelled \/ loop'.at \in {"unqueue", "cancel_row"}
      BY <3>1, <3>3, <3>4
    <3>. QED
      BY <1>2, <2>1, <2>4, <3>1, <3>2, <3>5, <3>6
  <2>3. CASE StopCancelRow(r)
    <3>1. /\ UNCHANGED <<pc, boot, cancelled>> /\ loop' = Idle /\ loop'.at = "idle"
          /\ \A q \in Run \ {r} : status'[q] = status[q]
          /\ untold' \ {r} = untold \ {r}
          /\ \/ status'[r] = IF status[r] \in Terminal THEN status[r] ELSE "cancelled"
             \/ status'[r] = status[r] /\ r \in untold'
      BY <1>1, <2>1, <2>3 DEF StopCancelRow, CancelRun, Advanced, RowLost, Told, Untold, Idle
    <3>2. \A q \in Run \ {r} : ~StopInFlight(q)
      BY <2>1 DEF StopInFlight
    <3>4. Kinds'
      BY <3>1 DEF Kinds
    <3>5. Rows'
      BY <2>1, <3>1 DEF Rows, Terminal, StopPC
    <3>6. Marked'
      BY <1>1, <2>1, <2>4, <3>1, <3>2 DEF Marked, Terminal
    <3>7. Settled'
      BY <2>4, <3>1, <3>2 DEF Settled, Terminal
    <3>. QED
      BY <3>4, <3>5, <3>6, <3>7
  <2>. QED
    BY <2>2, <2>3
<1>6. ASSUME CreateRunningRow(r) \/ CreateQueuedRow(r) PROVE RowInv'
  <2>1. /\ UNCHANGED <<boot, untold, cancelled>> /\ loop.run = r
        /\ loop.at \in {"run_row", "queue_row"}
        /\ loop'.at \in {"dispatching", "queue_args"}
    BY <1>1, <1>6 DEF CreateRunningRow, CreateQueuedRow, LoopType
  <2>2. pc[r] = "idle" /\ r \in Composer /\ status[r] = "none"
    BY <2>1 DEF IInv, Fresh, Started, Rows
  <2>3. /\ pc'[r] \in {"dispatch", "queued"} /\ status'[r] \in {"none", "running", "queued"}
        /\ pc'[r] = "queued" => status'[r] \in {"none", "queued"}
        /\ \A q \in Run \ {r} : pc'[q] = pc[q] /\ status'[q] = status[q]
    BY <1>1, <1>6, <2>2 DEF CreateRunningRow, CreateQueuedRow, CreateRun, RowLost, Goto
  <2>4. \A q \in Run : ~StopInFlight(q) /\ ~StopInFlight(q)'
    BY <2>1 DEF StopInFlight
  <2>5. boot = "up"
    BY <2>1 DEF IInv, TypeInv, Shape, Idle
  <2>6. Kinds'
    BY <2>2, <2>3 DEF Kinds, BoardPC
  <2>7. Rows'
    BY <2>1, <2>3 DEF Rows, StopPC
  <2>8. Marked'
    BY <1>1, <2>1, <2>2, <2>3, <2>4, <2>5 DEF Marked, Terminal
  <2>9. Settled'
    BY <2>1, <2>3, <2>4, <2>5 DEF Settled, Over, AdvancePC
  <2>. QED
    BY <2>6, <2>7, <2>8, <2>9
<1>7. ASSUME CreateArgs(r) \/ CreateEnqueue(r) PROVE RowInv'
  <2>1. /\ UNCHANGED <<pc, status, boot, untold, cancelled>> /\ loop.at \in {"queue_args", "enqueue"}
        /\ loop'.at \in {"enqueue", "idle"}
    BY <1>1, <1>7 DEF CreateArgs, CreateEnqueue, Idle, LoopType
  <2>3. boot = "up"
    BY <2>1 DEF IInv, TypeInv, Shape, Idle
  <2>2. \A q \in Run : ~StopInFlight(q)
    BY <2>1 DEF StopInFlight
  <2>. QED
    BY <1>2, <2>1, <2>2, <2>3 DEF StopPC
<1>. QED
  BY <1>3, <1>4, <1>5, <1>6, <1>7 DEF CreateStep

LEMMA HostKeepsRows ==
    ASSUME IInv, RowInv
    PROVE  /\ Crash => RowInv'
           /\ Startup => RowInv'
           /\ (\E s \in Scope : LockExpires(s)) => RowInv'
           /\ RedisFails \/ RedisRecovers => RowInv'
<1>. USE DEF RowInv, redisVars, memoryVars, threadVars, hostVars, historyVars
<1>1. pc \in [Run -> PC] /\ status \in [Run -> Status] /\ Composer \subseteq Run
  BY DEF IInv, TypeInv, TypeOK, Composer
<1>2. ASSUME Crash PROVE RowInv'
  <2>1. /\ UNCHANGED <<status, untold>> /\ cancelled' = {} /\ loop'.at = "idle"
        /\ boot' = "reconcile"
        /\ \A r \in Run : \/ pc'[r] = "done"
                          \/ pc'[r] = "idle" /\ pc[r] = "idle"
    BY <1>2 DEF Crash, Idle
  <2>. QED
    BY <1>1, <2>1 DEF Kinds, BoardPC, Rows, Marked, Settled, Over, StopPC
<1>3. ASSUME Reconcile PROVE RowInv'
  <2>1. /\ UNCHANGED <<pc, cancelled, loop>> /\ boot' = "clear" /\ boot = "reconcile"
        /\ \A r \in Run : /\ status[r] \notin {"queued", "running"} => status'[r] = status[r]
                          /\ status'[r] \in {"queued", "running"} => r \in untold'
                          /\ status'[r] \in {status[r], "needs_input", "failed"}
    BY <1>3 DEF Reconcile, Reconciled
  <2>2. loop.at = "idle" /\ \A r \in Run : pc[r] \in {"idle", "done"}
    BY <2>1 DEF IInv, TypeInv, Shape, Idle
  <2>3. Rows'
    BY <2>1, <2>2 DEF Rows, Over, StopPC
  <2>4. Marked'
    BY <1>1, <2>1, <2>2 DEF Marked
  <2>. QED
    BY <2>1, <2>3, <2>4 DEF Kinds, Settled
<1>4. ASSUME ClearAll PROVE RowInv'
  <2>1. UNCHANGED <<pc, status, cancelled, loop, untold>> /\ boot = "clear" /\ boot' = "up"
    BY <1>4 DEF ClearAll
  <2>. QED
    BY <2>1 DEF Kinds, Rows, Marked, Settled, StopInFlight
<1>5. ASSUME UNCHANGED <<pc, status, cancelled, loop, boot, untold>> PROVE RowInv'
  BY <1>5 DEF Kinds, Rows, Marked, Settled, StopInFlight
<1>6. ASSUME NEW s \in Scope, LockExpires(s) PROVE RowInv'
  BY <1>5, <1>6 DEF LockExpires
<1>7. ASSUME RedisFails \/ RedisRecovers PROVE RowInv'
  BY <1>5, <1>7 DEF RedisFails, RedisRecovers
<1>. QED
  BY <1>2, <1>3, <1>4, <1>6, <1>7 DEF Startup

LEMMA RowsStep ==
    ASSUME IInv, Lists, RowInv, [Next]_vars
    PROVE  RowInv'
<1>1. TypeInv
  BY DEF IInv
<1>2. ASSUME Request PROVE RowInv'
  <2>1. PICK r \in Run : CreateAdmitted(r) \/ CreateWaits(r) \/ StopRead(r) \/ ChatStart(r)
    BY <1>2 DEF Request
  <2>2. CASE ChatStart(r)
    BY <1>1, <2>2, RowWorkIs, RowWorkKeepsRows
  <2>3. CASE CreateAdmitted(r) \/ CreateWaits(r) \/ StopRead(r)
    BY <2>3, HandlerKeepsRows
  <2>. QED
    BY <2>1, <2>2, <2>3
<1>3. ASSUME Handler PROVE RowInv'
  BY <1>3, HandlerKeepsRows DEF Handler
<1>4. ASSUME NEW r \in Run, Thread(r) \/ ChatStall(r) PROVE RowInv'
  <2>1. CASE CheckNext(r) \/ TakeNext(r) \/ AcquireNext(r)
    BY <2>1, HandOverKeepsRows
  <2>2. CASE ~(CheckNext(r) \/ TakeNext(r) \/ AcquireNext(r))
    <3>1. RowWork(r)
      BY <1>1, <1>4, <2>2, RowWorkIs DEF Thread
    <3>. QED
      BY <3>1, RowWorkKeepsRows
  <2>. QED
    BY <2>1, <2>2
<1>5. ASSUME UNCHANGED vars PROVE RowInv'
  BY <1>5 DEF RowInv, Kinds, Rows, Marked, Settled, StopInFlight,
     vars, redisVars, memoryVars, threadVars, hostVars, historyVars
<1>. QED
  BY <1>2, <1>3, <1>4, <1>5, HostKeepsRows DEF Next
----------------------------------------------------------------------------

LEMMA BoardInit == Init => Board
<1>. SUFFICES ASSUME Init PROVE Board
  OBVIOUS
<1>1. IInv
  BY IInvInit
<1>. USE RunAssumption DEF Init, Idle
<1>2. \A s \in Scope : ToSet(queue[s]) = {} /\ IsInjective(queue[s])
  BY DEF ToSet, IsInjective
<1>3. Lists
  BY <1>2 DEF Lists, Once, Arguments, Listed, Taker
<1>4. Kinds /\ Rows
  BY DEF Kinds, BoardPC, Rows, StopPC
<1>5. Marked
  BY DEF Marked, Composer
<1>6. Settled
  BY DEF Settled, Over, AdvancePC
<1>. QED
  BY <1>1, <1>3, <1>4, <1>5, <1>6 DEF Board, Lists

LEMMA BoardCorrect == Spec => []Board
<1>1. ASSUME Board, [Next]_vars PROVE Board'
  <2>1. IInv /\ Lists /\ RowInv
    BY <1>1 DEF Board, Lists, RowInv
  <2>2. IInv' /\ Lists' /\ RowInv'
    BY <1>1, <2>1, IInvStep, ListsStep, RowsStep
  <2>. QED
    BY <2>2 DEF Board, Lists, RowInv
<1>. QED
  BY <1>1, BoardInit, PTL DEF Spec

\* Every run in a wait list can be dispatched or is known to be cancelled, stands there
\* once, in its own scope, and in no thread's hand: create_task, the stop endpoint,
\* _advance_task_queue with its put-back, and clear_all lose and double no task.
THEOREM WaitListsSound == Spec => []QueueSound
<1>1. Board => QueueSound
  <2>. SUFFICES ASSUME Board PROVE QueueSound
    OBVIOUS
  <2>1. ASSUME boot = "up", ~faulted, NEW s \in Scope, NEW r \in ToSet(queue[s])
        PROVE  r \in pending \cup cancelled
    <3>1. r \in Run /\ pc[r] = "queued"
      BY <2>1, MembersIs DEF Board, IInv, TypeInv, TypeOK, Listed, ToSet
    <3>2. \A p \in Run : next[p] # r
      BY <2>1 DEF Board, Once
    <3>3. ~(loop.at = "queue_args" /\ loop.run = r)
      BY <2>1 DEF Board, Once
    <3>. QED
      BY <3>1, <3>2, <3>3 DEF Board, Arguments
  <2>2. QueuedIsServable
    BY <2>1 DEF QueuedIsServable
  <2>3. QueueWellFormed
    BY DEF Board, Once, Listed, QueueWellFormed
  <2>. QED
    BY <2>2, <2>3 DEF QueueSound
<1>. QED
  BY <1>1, BoardCorrect, PTL

\* When a run is over and no stop request for it is in flight, its row says neither queued
\* nor running: finish_run, the drop of a cancelled dispatch, the pop of a cancelled run and
\* reconcile_stale_runs leave no phantom on the board, even when Redis failed.  The runs left
\* out are those whose row was not told: the early returns of coordinate_task, a call that
\* raises, and a last write that Postgres lost.
THEOREM NoPhantomRow == Spec => []DoneIsSettled
<1>1. Board => DoneIsSettled
  BY DEF Board, Settled, DoneIsSettled, Over, StopInFlight
<1>. QED
  BY <1>1, BoardCorrect, PTL

\* A completed or failed row is final, although finish_run overwrites whatever it finds:
\* no thread that could still call it survives the write that finished the row.
THEOREM FinalRowStays == Spec => FinishedStaysFinished
<1>1. ASSUME Board, [Next]_vars, NEW r \in Run, status[r] \in {"completed", "failed"}
      PROVE  status'[r] = status[r]
  <2>1. status \in [Run -> Status] /\ pc[r] \in Over
    BY <1>1 DEF Board, IInv, TypeInv, TypeOK, Rows
  <2>. USE DEF redisVars, memoryVars, threadVars, hostVars, historyVars, Over, AdvancePC, Terminal
  <2>2. ASSUME NEW q \in Run, ChatStart(q) \/ CreateAdmitted(q) \/ CreateWaits(q) \/ StopRead(q)
        PROVE  status'[r] = status[r]
    BY <2>2 DEF ChatStart, CreateAdmitted, CreateWaits, StopRead
  <2>3. ASSUME NEW q \in Run, CreateStep(q) PROVE status'[r] = status[r]
    BY <1>1, <2>1, <2>3 DEF CreateStep, CreateRunningRow, CreateQueuedRow, CreateArgs,
       CreateEnqueue, CreateRun, RowLost
  <2>4. ASSUME NEW q \in Run, StopStep(q) PROVE status'[r] = status[r]
    BY <1>1, <2>1, <2>4 DEF StopStep, StopSignal, StopMarkQueued, StopUnqueue,
       StopMarkRunning, StopCancelRow, CancelRun, Advanced, RowLost, Told, Untold
  <2>5. ASSUME NEW q \in Run, Coordinate(q) PROVE status'[r] = status[r]
    BY <1>1, <2>1, <2>5 DEF Coordinate, CallRaises, EnterCoordination, RecordRunning, Boundary,
       PhaseEnds, LeavesUnfinished, Finish, FinishRun, RowLost
  <2>6. ASSUME NEW q \in Run,
               \/ DispatchCheck(q) \/ DispatchDropRead(q) \/ DispatchDropDelete(q)
               \/ DispatchMark(q) \/ ReleaseRead(q) \/ ReleaseDelete(q) \/ ChatStall(q)
        PROVE  status'[r] = status[r]
    BY <1>1, <2>1, <2>6 DEF DispatchCheck, DispatchDropRead, DispatchDropDelete, DispatchMark,
       ReleaseRead, ReleaseDelete, ChatStall, SetStatus, Advanced, RowLost
  <2>7. ASSUME NEW q \in Run, Advance(q) PROVE status'[r] = status[r]
    BY <2>7 DEF Advance, DiscardCancelled, PopNext, CheckNext, TakeNext, AcquireNext,
       RestoreArgs, Requeue
  <2>8. ASSUME Reconcile PROVE status'[r] = status[r]
    BY <1>1, <2>8 DEF Reconcile, Reconciled
  <2>9. ASSUME Crash \/ ClearAll \/ (\E s \in Scope : LockExpires(s)) \/ RedisFails
               \/ RedisRecovers \/ UNCHANGED vars
        PROVE  status'[r] = status[r]
    BY <2>9 DEF Crash, ClearAll, LockExpires, RedisFails, RedisRecovers, vars
  <2>. QED
    BY <1>1, <2>2, <2>3, <2>4, <2>5, <2>6, <2>7, <2>8, <2>9
       DEF Next, Request, Handler, Thread, Startup
<1>2. Board /\ [Next]_vars =>
        [\A r \in Run : status[r] \in {"completed", "failed"} => status'[r] = status[r]]_vars
  BY <1>1
<1>. QED
  BY <1>2, BoardCorrect, PTL DEF Spec, FinishedStaysFinished

\* A run is in a wait list, or popped and in the hand of a thread.
InLine(r) ==
    \/ \E s \in Scope : r \in ToSet(queue[s])
    \/ \E q \in Run : next[q] = r

\* A run that is being dispatched has left the line for good.
OutOfLine == \A r \in Run : pc[r] = "dispatch" => ~InLine(r)

LEMMA EnqueueAddsOne ==
    ASSUME Board, NEW e \in Run, Enqueue(e), \A s \in Scope : e \notin ToSet(queue[s])
    PROVE  \A s \in Scope : ToSet(queue'[s]) \subseteq ToSet(queue[s]) \cup {e}
<1>1. /\ queue \in [Scope -> Seq(Run)] /\ ScopeOf[e] \in Scope
      /\ \A s \in Scope : IsInjective(queue[s])
  BY ScopeAssumption DEF Board, IInv, TypeInv, TypeOK, Once
<1>2. ASSUME NEW s \in Scope PROVE ToSet(queue'[s]) \subseteq ToSet(queue[s]) \cup {e}
  <2>1. CASE queue'[s] = Append(queue[s], e)
    BY <1>1, <2>1, PushAddsOne
  <2>2. CASE queue'[s] = queue[s]
    BY <2>2
  <2>. QED
    BY <1>1, <2>1, <2>2 DEF Enqueue
<1>. QED
  BY <1>2

\* Only a run that waits joins the line.
LEMMA JoinsWaiting ==
    ASSUME Board, [Next]_vars, NEW r \in Run, ~InLine(r)
    PROVE  \/ ~InLine(r)'
           \/ pc[r] = "queued" /\ pc' = pc
<1>. USE DEF redisVars, memoryVars, threadVars, hostVars, historyVars
<1>1. /\ queue \in [Scope -> Seq(Run)] /\ next \in [Run -> Run \cup {NoRun}] /\ r # NoRun
      /\ \A s \in Scope : IsInjective(queue[s])
  BY RunAssumption DEF Board, IInv, TypeInv, TypeOK, Once
<1>2. (\A s \in Scope : r \notin ToSet(queue[s])) /\ \A q \in Run : next[q] # r
  BY DEF InLine
<1>3. ASSUME UNCHANGED <<queue, next>> PROVE ~InLine(r)'
  BY <1>2, <1>3 DEF InLine
<1>4. ASSUME NEW q \in Run, PopNext(q) PROVE ~InLine(r)'
  <2>1. CASE redisUp /\ queue[ScopeOf[q]] # <<>>
    <3>. DEFINE s == ScopeOf[q]
    <3>1. s \in Scope
      BY ScopeAssumption
    <3>2. /\ Head(queue[s]) \in ToSet(queue[s])
          /\ ToSet(Tail(queue[s])) \subseteq ToSet(queue[s])
      BY <1>1, <2>1, <3>1, PopTakesOne
    <3>3. /\ next' = [next EXCEPT ![q] = Head(queue[s])]
          /\ queue' = [queue EXCEPT ![s] = Tail(queue[s])]
      BY <1>4, <2>1 DEF PopNext
    <3>. HIDE DEF s
    <3>. QED
      BY <1>1, <1>2, <3>1, <3>2, <3>3 DEF InLine
  <2>2. CASE ~(redisUp /\ queue[ScopeOf[q]] # <<>>)
    BY <1>3, <1>4, <2>2 DEF PopNext
  <2>. QED
    BY <2>1, <2>2
<1>5. ASSUME NEW q \in Run, Requeue(q) PROVE ~InLine(r)'
  <2>1. /\ next[q] \in Run /\ next[q] # r /\ Enqueue(next[q])
        /\ next' = [next EXCEPT ![q] = NoRun]
    BY <1>2, <1>5 DEF Requeue, Board, IInv, TypeInv, Shape, AdvancePC
  <2>2. \A s \in Scope : next[q] \notin ToSet(queue[s])
    BY DEF Board, Once
  <2>3. \A s \in Scope : ToSet(queue'[s]) \subseteq ToSet(queue[s]) \cup {next[q]}
    BY <2>1, <2>2, EnqueueAddsOne
  <2>. QED
    BY <1>1, <1>2, <2>1, <2>3 DEF InLine
<1>6. ASSUME NEW q \in Run, CreateEnqueue(q) PROVE ~InLine(r)' \/ (pc[r] = "queued" /\ pc' = pc)
  <2>1. /\ pc[q] = "queued" /\ Enqueue(q) /\ next' = next /\ pc' = pc
        /\ \A s \in Scope : q \notin ToSet(queue[s])
    BY <1>6 DEF CreateEnqueue, Board, Once, Arguments
  <2>2. \A s \in Scope : ToSet(queue'[s]) \subseteq ToSet(queue[s]) \cup {q}
    BY <2>1, EnqueueAddsOne
  <2>. QED
    BY <1>2, <2>1, <2>2 DEF InLine
<1>7. ASSUME NEW q \in Run, StopUnqueue(q) PROVE ~InLine(r)'
  <2>1. PICK s \in Scope : RemoveQueued(q, s) /\ next' = next /\ loop'.at = "cancel_row"
    BY <1>7, ScopeAssumption DEF StopUnqueue, Board, IInv, TypeInv, TypeOK, LoopType
  <2>2. \A t \in Scope : ToSet(queue'[t]) \subseteq ToSet(queue[t])
    BY <2>1, RemoveKeepsOnce DEF Board
  <2>. QED
    BY <1>2, <2>1, <2>2 DEF InLine
<1>8. ASSUME NEW q \in Run, AcquireNext(q) PROVE ~InLine(r)'
  BY <1>1, <1>2, <1>8 DEF AcquireNext, InLine
<1>9. CASE Crash
  BY <1>1, <1>2, <1>9 DEF Crash, InLine
<1>10. CASE ClearAll
  <2>1. ToSet(<<>>) = {}
    BY DEF ToSet
  <2>2. \A s \in Scope : queue'[s] \in {<<>>, queue[s]}
    BY <1>1, <1>10 DEF ClearAll
  <2>. QED
    BY <1>2, <1>10, <2>1, <2>2 DEF ClearAll, InLine
<1>11. ASSUME NEW q \in Run,
              \/ CreateAdmitted(q) \/ CreateWaits(q) \/ StopRead(q) \/ ChatStart(q) \/ ChatStall(q)
              \/ CreateRunningRow(q) \/ CreateQueuedRow(q) \/ CreateArgs(q)
              \/ StopSignal(q) \/ StopMarkQueued(q) \/ StopMarkRunning(q) \/ StopCancelRow(q)
       PROVE  ~InLine(r)'
  BY <1>3, <1>11 DEF CreateAdmitted, CreateWaits, StopRead, ChatStart, ChatStall,
     CreateRunningRow, CreateQueuedRow, CreateArgs, StopSignal, StopMarkQueued,
     StopMarkRunning, StopCancelRow
<1>12. ASSUME NEW q \in Run,
              \/ DispatchCheck(q) \/ DispatchDropRead(q) \/ DispatchDropDelete(q)
              \/ DispatchMark(q) \/ Coordinate(q) \/ ReleaseRead(q) \/ ReleaseDelete(q)
              \/ DiscardCancelled(q)
       PROVE  ~InLine(r)'
  BY <1>3, <1>12, WorkIs DEF Work, Board, IInv
<1>13. ASSUME NEW q \in Run, CheckNext(q) \/ TakeNext(q) \/ RestoreArgs(q) PROVE ~InLine(r)'
  BY <1>3, <1>13 DEF CheckNext, TakeNext, RestoreArgs
<1>14. ASSUME Reconcile \/ (\E s \in Scope : LockExpires(s)) \/ RedisFails
              \/ RedisRecovers \/ UNCHANGED vars
       PROVE  ~InLine(r)'
  BY <1>3, <1>14 DEF Reconcile, LockExpires, RedisFails, RedisRecovers, vars
<1>. QED
  BY <1>4, <1>5, <1>6, <1>7, <1>8, <1>9, <1>10, <1>11, <1>12, <1>13, <1>14
     DEF Next, Request, Handler, CreateStep, StopStep, Thread, Startup, Advance

LEMMA OutOfLineStays ==
    ASSUME Board, OutOfLine, [Next]_vars
    PROVE  OutOfLine'
<1>. USE DEF redisVars, memoryVars, threadVars, hostVars, historyVars
<1>. SUFFICES ASSUME NEW r \in Run, pc'[r] = "dispatch" PROVE ~InLine(r)'
  BY DEF OutOfLine
<1>1. pc \in [Run -> PC] /\ next \in [Run -> Run \cup {NoRun}] /\ r # NoRun
  BY RunAssumption DEF Board, IInv, TypeInv, TypeOK
<1>2. CASE pc[r] = "dispatch"
  BY <1>2, JoinsWaiting DEF OutOfLine
<1>3. ASSUME pc[r] # "dispatch", NEW q \in Run, CreateRunningRow(q) PROVE ~InLine(r)'
  <2>1. r = q
    BY <1>1, <1>3 DEF CreateRunningRow, Goto
  <2>2. r \notin Started /\ queue \in [Scope -> Seq(Started)] /\ next \in [Run -> Started \cup {NoRun}]
    BY <1>3, <2>1 DEF CreateRunningRow, Board, IInv, Fresh
  <2>3. (\A s \in Scope : r \notin ToSet(queue[s])) /\ \A p \in Run : next[p] # r
    BY <1>1, <2>2, MembersIs
  <2>. QED
    BY <1>3, <2>3 DEF CreateRunningRow, InLine
<1>4. ASSUME pc[r] # "dispatch", NEW q \in Run, AcquireNext(q) PROVE ~InLine(r)'
  <2>1. next[q] = r /\ next' = [next EXCEPT ![q] = NoRun] /\ queue' = queue
    BY <1>1, <1>4 DEF AcquireNext, Goto
  <2>2. \A s \in Scope : r \notin ToSet(queue[s])
    BY <2>1 DEF Board, Once
  <2>3. \A p \in Run : next[p] = next[q] /\ next[p] # NoRun => p = q
    BY DEF Board, Once
  <2>. QED
    BY <1>1, <2>1, <2>2, <2>3 DEF InLine
<1>5. ASSUME pc[r] # "dispatch",
             ~ \E q \in Run : CreateRunningRow(q) \/ AcquireNext(q)
      PROVE  FALSE
  <2>1. ASSUME NEW q \in Run,
               \/ CreateAdmitted(q) \/ CreateWaits(q) \/ StopRead(q) \/ ChatStart(q)
               \/ ChatStall(q) \/ CreateQueuedRow(q) \/ CreateArgs(q) \/ CreateEnqueue(q)
               \/ StopStep(q)
        PROVE  pc'[r] # "dispatch"
    BY <1>1, <1>5, <2>1 DEF CreateAdmitted, CreateWaits, StopRead, ChatStart, ChatStall,
       CreateQueuedRow, CreateArgs, CreateEnqueue, StopStep, StopSignal, StopMarkQueued,
       StopUnqueue, StopMarkRunning, StopCancelRow, Goto
  <2>2. ASSUME NEW q \in Run,
               \/ DispatchCheck(q) \/ DispatchDropRead(q) \/ DispatchDropDelete(q)
               \/ DispatchMark(q) \/ ReleaseRead(q) \/ ReleaseDelete(q)
        PROVE  pc'[r] # "dispatch"
    BY <1>1, <1>5, <2>2 DEF DispatchCheck, DispatchDropRead, DispatchDropDelete, DispatchMark,
       ReleaseRead, ReleaseDelete, AfterRelease, Goto
  <2>3. ASSUME NEW q \in Run, Coordinate(q) PROVE pc'[r] # "dispatch"
    BY <1>1, <1>5, <2>3 DEF Coordinate, CallRaises, EnterCoordination, RecordRunning, Boundary,
       PhaseEnds, LeavesUnfinished, Finish, Goto
  <2>4. ASSUME NEW q \in Run,
               \/ DiscardCancelled(q) \/ PopNext(q) \/ CheckNext(q) \/ TakeNext(q)
               \/ RestoreArgs(q) \/ Requeue(q)
        PROVE  pc'[r] # "dispatch"
    BY <1>1, <1>5, <2>4 DEF DiscardCancelled, PopNext, CheckNext, TakeNext, RestoreArgs,
       Requeue, Skip, Goto
  <2>5. ASSUME \/ Crash \/ Reconcile \/ ClearAll \/ (\E s \in Scope : LockExpires(s))
               \/ RedisFails \/ RedisRecovers \/ UNCHANGED vars
        PROVE  pc'[r] # "dispatch"
    BY <1>1, <1>5, <2>5 DEF Crash, Reconcile, ClearAll, LockExpires, RedisFails, RedisRecovers,
       vars
  <2>. QED
    BY <1>5, <2>1, <2>2, <2>3, <2>4, <2>5
       DEF Next, Request, Handler, CreateStep, Thread, Startup, Advance
<1>. QED
  BY <1>2, <1>3, <1>4, <1>5

LEMMA OutOfLineCorrect == Spec => []OutOfLine
<1>1. Init => OutOfLine
  BY DEF Init, OutOfLine
<1>2. Board /\ OutOfLine /\ [Next]_vars => OutOfLine'
  BY OutOfLineStays
<1>. QED
  BY <1>1, <1>2, BoardCorrect, PTL DEF Spec

\* A run that was stopped while it waited: it is marked, or on its way off the board.
Doomed(r) ==
    /\ r \in Composer
    /\ \/ pc[r] \in {"queued", "dispatch"} /\ r \in cancelled
       \/ pc[r] \in {"drop_get", "drop_del", "done"}

LEMMA DoomedStays ==
    ASSUME Board, OutOfLine, [Next]_vars, NEW r \in Run, Doomed(r)
    PROVE  Doomed(r)'
<1>. USE DEF redisVars, memoryVars, threadVars, hostVars, historyVars
<1>1. /\ pc \in [Run -> PC] /\ cancelled \subseteq Run /\ next \in [Run -> Run \cup {NoRun}]
      /\ r \in Composer /\ pc[r] \in {"queued", "dispatch", "drop_get", "drop_del", "done"}
      /\ pc[r] \in {"queued", "dispatch"} => r \in cancelled
  BY DEF Doomed, Board, IInv, TypeInv, TypeOK
<1>2. ASSUME pc'[r] = pc[r], r \in cancelled => r \in cancelled' PROVE Doomed(r)'
  BY <1>1, <1>2 DEF Doomed
<1>3. ASSUME NEW q \in Run, CreateAdmitted(q) \/ CreateWaits(q) \/ StopRead(q)
      PROVE  Doomed(r)'
  BY <1>2, <1>3 DEF CreateAdmitted, CreateWaits, StopRead
<1>4. ASSUME NEW q \in Run, ChatStart(q) \/ ChatStall(q) PROVE Doomed(r)'
  <2>1. q # r
    BY <1>1, <1>4 DEF ChatStart, ChatStall, Composer
  <2>. QED
    BY <1>1, <1>2, <1>4, <2>1 DEF ChatStart, ChatStall, Goto
<1>5. ASSUME NEW q \in Run, CreateStep(q) \/ StopStep(q) PROVE Doomed(r)'
  <2>1. CASE CreateRunningRow(q) \/ CreateQueuedRow(q)
    <3>1. q # r
      BY <1>1, <2>1 DEF CreateRunningRow, CreateQueuedRow, Board, IInv, Fresh, Started
    <3>. QED
      BY <1>1, <1>2, <2>1, <3>1 DEF CreateRunningRow, CreateQueuedRow, Goto
  <2>2. CASE CreateArgs(q) \/ CreateEnqueue(q) \/ StopStep(q)
    BY <1>2, <2>2 DEF CreateArgs, CreateEnqueue, StopStep, StopSignal, StopMarkQueued,
       StopUnqueue, StopMarkRunning, StopCancelRow
  <2>. QED
    BY <1>5, <2>1, <2>2 DEF CreateStep
<1>6. ASSUME NEW q \in Run,
             DispatchCheck(q) \/ DispatchDropRead(q) \/ DispatchDropDelete(q) \/ DispatchMark(q)
      PROVE  Doomed(r)'
  <2>1. CASE q = r
    BY <1>1, <1>6, <2>1 DEF DispatchCheck, DispatchDropRead, DispatchDropDelete, DispatchMark,
       Goto, Doomed
  <2>2. CASE q # r
    BY <1>1, <1>2, <1>6, <2>2 DEF DispatchCheck, DispatchDropRead, DispatchDropDelete,
       DispatchMark, Goto
  <2>. QED
    BY <2>1, <2>2
<1>7. ASSUME NEW q \in Run, Coordinate(q) PROVE Doomed(r)'
  <2>1. q # r
    BY <1>1, <1>7 DEF Coordinate, CallRaises, EnterCoordination, RecordRunning, Boundary,
       PhaseEnds, LeavesUnfinished, Finish
  <2>. QED
    BY <1>1, <1>2, <1>7, <2>1 DEF Coordinate, CallRaises, EnterCoordination, RecordRunning, Boundary,
       PhaseEnds, LeavesUnfinished, Finish, Goto
<1>8. ASSUME NEW q \in Run,
             \/ ReleaseRead(q) \/ ReleaseDelete(q) \/ DiscardCancelled(q) \/ PopNext(q)
             \/ RestoreArgs(q) \/ Requeue(q)
      PROVE  Doomed(r)'
  <2>1. q # r
    BY <1>1, <1>8 DEF ReleaseRead, ReleaseDelete, DiscardCancelled, PopNext, RestoreArgs, Requeue
  <2>. QED
    BY <1>1, <1>2, <1>8, <2>1 DEF ReleaseRead, ReleaseDelete, DiscardCancelled, PopNext,
       RestoreArgs, Requeue, Goto
<1>9. ASSUME NEW q \in Run, CheckNext(q) \/ TakeNext(q) \/ AcquireNext(q) PROVE Doomed(r)'
  <2>1. q # r
    BY <1>1, <1>9 DEF CheckNext, TakeNext, AcquireNext
  <2>2. CASE next[q] # r
    BY <1>1, <1>2, <1>9, <2>1, <2>2 DEF CheckNext, TakeNext, AcquireNext, Skip, Goto
  <2>3. CASE next[q] = r /\ CheckNext(q)
    <3>1. pc[r] # "dispatch"
      BY <2>3 DEF OutOfLine, InLine
    <3>2. pc'[r] = IF pc[r] = "queued" THEN "done" ELSE pc[r]
      BY <1>1, <2>1, <2>3 DEF CheckNext, Skip, Goto
    <3>. QED
      BY <1>1, <3>1, <3>2 DEF Doomed
  <2>4. CASE next[q] = r /\ TakeNext(q)
    BY <1>1, <2>1, <2>4 DEF TakeNext, Skip, Goto, Doomed
  <2>5. CASE next[q] = r /\ AcquireNext(q)
    <3>1. pc[r] = "queued"
      BY <2>5 DEF AcquireNext, Board, Arguments, Taker
    <3>2. cancelled' = cancelled /\ pc'[r] \in {"queued", "dispatch"}
      BY <1>1, <2>1, <2>5, <3>1 DEF AcquireNext, Goto
    <3>. QED
      BY <1>1, <3>1, <3>2 DEF Doomed
  <2>. QED
    BY <1>9, <2>2, <2>3, <2>4, <2>5
<1>10. CASE Crash
  BY <1>1, <1>10 DEF Crash, Doomed
<1>11. ASSUME Reconcile \/ ClearAll \/ (\E s \in Scope : LockExpires(s)) \/ RedisFails
              \/ RedisRecovers \/ UNCHANGED vars
       PROVE  Doomed(r)'
  BY <1>2, <1>11 DEF Reconcile, ClearAll, LockExpires, RedisFails, RedisRecovers, vars
<1>. QED
  BY <1>3, <1>4, <1>5, <1>6, <1>7, <1>8, <1>9, <1>10, <1>11
     DEF Next, Request, Handler, Thread, Startup, Advance

\* A run stopped while it waits never enters coordinate_task, even when a finishing thread
\* has popped it, taken its arguments or acquired the lock for it before the stop: one of
\* the two looks at _CANCELLED_TASKS is still to come, whatever Redis or a restart does.
THEOREM StoppedNeverRuns == Spec => StoppedWhileQueuedNeverRuns
<1>1. ASSUME NEW r \in Run
      PROVE  Spec => [](pc[r] = "queued" /\ r \in cancelled => [](pc[r] \notin CoordinatePC))
  <2>1. Board /\ OutOfLine /\ Doomed(r) /\ [Next]_vars => Doomed(r)'
    BY DoomedStays
  <2>2. Board /\ pc[r] = "queued" /\ r \in cancelled => Doomed(r)
    BY DEF Board, Kinds, BoardPC, Doomed
  <2>3. Doomed(r) => pc[r] \notin CoordinatePC
    BY DEF Doomed, CoordinatePC
  <2>. QED
    BY <2>1, <2>2, <2>3, OutOfLineCorrect, BoardCorrect, PTL DEF Spec
<1>. QED
  BY <1>1 DEF StoppedWhileQueuedNeverRuns
=============================================================================
