-------------------------- MODULE DevHarnessProofs --------------------------
(***************************************************************************)
(* Proofs about DevHarness, for every number of requests, subagents, calls *)
(* and turns, any tools and permission modes, and with or without failing  *)
(* writes and restarts.                                                    *)
(***************************************************************************)
EXTENDS DevHarness, SequenceTheorems, TLAPS

Steady == Ended \cup {"idle"}
HasCall == {"tool", "gate", "ask", "wait", "exec", "running"}
Checked == {"gate", "ask", "wait", "exec", "running"}

Todo(a) == Range(loop[a].todo)

\* The row that a replay works on is one that a checkpoint could hold.
RowType ==
    replay.at # "idle" =>
        /\ replay.row \in [status : Statuses \cup {"none"}, pending : Batches,
                           asked : SUBSET Call, answered : SUBSET Call, replayed : SUBSET Call,
                           by : Stream \cup {Replayer, Nobody}]
        /\ replay.row.pending # <<>>

\* A loop that works on a call has one; one that is over, or an empty slot for a subagent, has
\* none.  Subagents have no Task.
Shape ==
    /\ \A a \in Agent : loop[a].at \in HasCall => loop[a].todo # <<>>
    /\ \A a \in Agent : loop[a].at \in Steady => loop[a].todo = <<>>
    /\ \A w \in Sub : loop[w].parent = Nobody => loop[w].at \in Steady
    /\ \A w \in Sub : \A c \in Todo(w) : ToolOf[c] # "Task"

TypeInv == TypeOK /\ RowType /\ Shape

\* Calls are issued by one model turn of one loop.
Issued ==
    /\ \A a \in Agent : Todo(a) \subseteq issued
    /\ \A a, b \in Agent : a # b => Todo(a) \cap Todo(b) = {}
    /\ Range(ckpt.pending) \subseteq issued
    /\ replay.at # "idle" => Range(replay.row.pending) \subseteq issued
    /\ \A c \in Call \ issued : ran[c] = 0

\* Whatever is asked or decided has a stream that waits for it.
Waiting ==
    /\ \A c \in Call : c \in owners \/ decided[c] # "none" =>
           \E s \in Stream : loop[s].at = "wait" /\ Head(loop[s].todo) = c
    /\ \A c \in owners : decided[c] = "none"

\* Permissions that have been given and not used yet.
InHand(c) ==
    IF decided[c] = "yes" \/ \E a \in Agent : loop[a].at = "exec" /\ Head(loop[a].todo) = c
    THEN 1 ELSE 0
Confirmed(c) == IF replay.at = "exec" /\ Head(replay.row.pending) = c THEN 1 ELSE 0

\* They are backed by what was granted.
Backed == \A c \in Call : ran[c] + InHand(c) + Confirmed(c) <= granted[c]

\* From the checkpoint before a call until its result, the checkpoint lists it first.
Covered ==
    \A s \in Stream : loop[s].at \in Checked /\ ckpt.by = s =>
        ckpt.status = "recovery_required" /\ ckpt.pending = loop[s].todo

\* Unless a replay met a live loop: the calls ahead of a loop, and those that a checkpoint lists
\* after the first, have not run, and a checkpoint shares calls only with the loop that wrote it.
Unrun ==
    ~raced =>
        /\ replay.at # "idle" =>
               replay.row.pending = ckpt.pending /\ \A s \in Stream : ~Live(s)
        /\ \A a \in Agent : Range(ckpt.pending) \cap Todo(a) # {} => ckpt.by = a
        /\ \A a \in Agent : \A c \in Todo(a) :
               \/ ran[c] = 0
               \/ loop[a].at \in {"running", "fail"} /\ c = Head(loop[a].todo)
        /\ ckpt.pending # <<>> => \A c \in Range(Tail(ckpt.pending)) : ran[c] = 0

\* As long as nothing was replayed, every call asked for has a result, in the history or in the
\* turn, or is still ahead.
History ==
    replays = 0 =>
        /\ ckpt.status # "ready_to_resume" /\ replay.at = "idle"
        /\ \A a \in Agent :
               loop[a].at \in {"start", "ready", "model", "close", "budget", "summary"} =>
                   loop[a].asked \subseteq loop[a].answered
        /\ \A a \in Agent : loop[a].at \in HasCall \cup {"turn", "yielded"} =>
               loop[a].asked \subseteq loop[a].answered \cup loop[a].got \cup Todo(a)

\* The inductive invariant.
IInv == TypeInv /\ Issued /\ Waiting /\ Backed /\ Covered /\ Unrun /\ History
----------------------------------------------------------------------------
(* What a model may ask for in one turn, and records of loops.              *)

Loops == [at : Places, attached : BOOLEAN, turn : Nat, todo : Batches, asked : SUBSET Call,
          answered : SUBSET Call, got : SUBSET Call, parent : Stream \cup {Replayer, Nobody}]
Rows == [status : Statuses \cup {"none"}, pending : Batches, asked : SUBSET Call,
         answered : SUBSET Call, replayed : SUBSET Call, by : Stream \cup {Replayer, Nobody}]

\* A turn of the model lists calls, each once.
LEMMA BatchIsSeq ==
    ASSUME NEW s \in Batches
    PROVE  /\ s \in Seq(Call) /\ Len(s) \in 0..BatchSize /\ DOMAIN s = 1..Len(s)
           /\ \A i, j \in 1..Len(s) : s[i] = s[j] => i = j
           /\ Range(s) \subseteq Call
<1>1. PICK n \in 0..BatchSize : s \in [1..n -> Call]
  BY DEF Batches
<1>2. s \in Seq(Call) /\ Len(s) = n /\ DOMAIN s = 1..n
  BY <1>1, BoundAssumption
<1>3. \A i, j \in DOMAIN s : s[i] = s[j] => i = j
  BY DEF Batches, IsInjective
<1>. QED
  BY <1>1, <1>2, <1>3 DEF Range

\* The other way round.
LEMMA SeqIsBatch ==
    ASSUME NEW s \in Seq(Call), Len(s) <= BatchSize,
           \A i, j \in 1..Len(s) : s[i] = s[j] => i = j
    PROVE  s \in Batches
<1>1. Len(s) \in 0..BatchSize /\ s \in [1..Len(s) -> Call]
  BY BoundAssumption
<1>2. IsInjective(s)
  BY DEF IsInjective
<1>. QED
  BY <1>1, <1>2 DEF Batches

\* Taking the call at hand off the list leaves a list without it.
LEMMA BatchTail ==
    ASSUME NEW s \in Batches, s # <<>>
    PROVE  /\ Head(s) \in Call /\ Tail(s) \in Batches
           /\ Range(s) = {Head(s)} \cup Range(Tail(s))
           /\ Head(s) \notin Range(Tail(s))
<1>1. /\ s \in Seq(Call) /\ Len(s) \in 1..BatchSize /\ DOMAIN s = 1..Len(s)
      /\ \A i, j \in 1..Len(s) : s[i] = s[j] => i = j
  BY BatchIsSeq, BoundAssumption
<1>2. /\ Tail(s) \in Seq(Call) /\ Len(Tail(s)) = Len(s) - 1
      /\ \A i \in 1..Len(Tail(s)) : Tail(s)[i] = s[i + 1]
      /\ DOMAIN Tail(s) = 1..Len(Tail(s))
  BY <1>1
<1>3. Head(s) = s[1] /\ Head(s) \in Call
  BY <1>1
<1>4. Tail(s) \in Batches
  <2>1. Len(Tail(s)) <= BatchSize
    BY <1>1, <1>2, BoundAssumption
  <2>2. ASSUME NEW i \in 1..Len(Tail(s)), NEW j \in 1..Len(Tail(s)), Tail(s)[i] = Tail(s)[j]
        PROVE  i = j
    BY <1>1, <1>2, <2>2
  <2>. QED
    BY <1>2, <2>1, <2>2, SeqIsBatch
<1>5. /\ \A x : x \in Range(s) <=> \E i \in 1..Len(s) : x = s[i]
      /\ \A x : x \in Range(Tail(s)) <=> \E i \in 1..(Len(s) - 1) : x = s[i + 1]
  <2>1. \A x : x \in Range(s) <=> \E i \in 1..Len(s) : x = s[i]
    BY <1>1 DEF Range
  <2>2. \A x : x \in Range(Tail(s)) <=> \E i \in 1..Len(Tail(s)) : x = Tail(s)[i]
    BY <1>2 DEF Range
  <2>. QED
    BY <1>1, <1>2, <2>1, <2>2
<1>6. Range(s) = {Head(s)} \cup Range(Tail(s))
  <2>1. \A i \in 1..Len(s) : i = 1 \/ (i - 1 \in 1..(Len(s) - 1) /\ (i - 1) + 1 = i)
    BY <1>1
  <2>2. \A i \in 1..(Len(s) - 1) : i + 1 \in 1..Len(s)
    BY <1>1
  <2>3. 1 \in 1..Len(s)
    BY <1>1
  <2>4. ASSUME NEW x \in Range(s) PROVE x \in {Head(s)} \cup Range(Tail(s))
    <3>1. PICK i \in 1..Len(s) : x = s[i]
      BY <1>5
    <3>2. i = 1 \/ (i - 1 \in 1..(Len(s) - 1) /\ x = s[(i - 1) + 1])
      BY <2>1, <3>1
    <3>. QED
      BY <1>3, <1>5, <3>1, <3>2
  <2>5. ASSUME NEW x \in {Head(s)} \cup Range(Tail(s)) PROVE x \in Range(s)
    BY <1>3, <1>5, <2>2, <2>3, <2>5
  <2>. QED
    BY <2>4, <2>5
<1>7. Head(s) \notin Range(Tail(s))
  BY <1>1, <1>3, <1>5
<1>. QED
  BY <1>3, <1>4, <1>6, <1>7

\* A turn without calls.
LEMMA NoBatch == <<>> \in Batches /\ Range(<<>>) = {}
<1>1. <<>> \in Seq(Call) /\ Len(<<>>) = 0
  OBVIOUS
<1>2. <<>> \in Batches
  <2>1. Len(<<>>) <= BatchSize /\ \A i, j \in 1..Len(<<>>) : i = j
    BY <1>1, BoundAssumption
  <2>. QED
    BY <1>1, <2>1, SeqIsBatch
<1>3. DOMAIN <<>> = {}
  BY <1>1
<1>. QED
  BY <1>2, <1>3 DEF Range

\* A loop that ends or is left alone becomes an empty record.
LEMMA SettledIs ==
    ASSUME NEW r \in Loops
    PROVE  /\ Settled(r) \in Loops
           /\ \/ Settled(r) = r /\ r.at \notin Ended
              \/ /\ Settled(r).at \in Ended /\ Settled(r).todo = <<>>
                 /\ Settled(r).parent = Nobody
                 /\ r.at \in Ended \cup Yields
<1>. DEFINE over == [NoLoop EXCEPT !.at = IF r.at = "error" THEN "error" ELSE "over"]
<1>1. over \in Loops /\ over.at \in Ended /\ over.todo = <<>> /\ over.parent = Nobody
  BY NoBatch DEF NoLoop, Loops, Places, Ended
<1>2. Settled(r) = over \/ Settled(r) = r
  BY DEF Settled
<1>3. r.at \in Ended => Settled(r) = over
  BY DEF Settled
<1>4. r.at \notin Ended \cup Yields => Settled(r) = r
  BY DEF Settled
<1>5. r.at \in Yields => r.at \notin Ended
  BY DEF Yields, Ended
<1>. HIDE DEF over
<1>. QED
  BY <1>1, <1>2, <1>3, <1>4, <1>5
----------------------------------------------------------------------------
(* The type invariant.                                                      *)

\* What TypeOK says of the variables other than loop and ckpt.
OtherType ==
    /\ mode \in {"default", "plan", "acceptEdits", "bypass"}
    /\ owners \subseteq Call
    /\ decided \in [Call -> {"none", "yes", "no"}]
    /\ rules \subseteq Range(ToolOf) \X {"session", "workspace"}
    /\ replay.at \in {"idle", "exec", "save"}
    /\ replays \in 0..MaxReplays /\ crashes \in 0..MaxCrashes
    /\ raced \in BOOLEAN
    /\ issued \subseteq Call
    /\ granted \in [Call -> Nat] /\ ran \in [Call -> Nat]

LEMMA TypeParts ==
    TypeOK <=> loop \in [Agent -> Loops] /\ ckpt \in Rows /\ OtherType
BY DEF TypeOK, Loops, Rows, OtherType

\* The fields of a loop, and the loop they make.
LEMMA LoopFields ==
    ASSUME NEW r \in Loops
    PROVE  /\ r = [at |-> r.at, attached |-> r.attached, turn |-> r.turn, todo |-> r.todo,
                   asked |-> r.asked, answered |-> r.answered, got |-> r.got,
                   parent |-> r.parent]
           /\ r.at \in Places /\ r.attached \in BOOLEAN /\ r.turn \in Nat /\ r.todo \in Batches
           /\ r.asked \subseteq Call /\ r.answered \subseteq Call /\ r.got \subseteq Call
           /\ r.parent \in Stream \cup {Replayer, Nobody}
BY DEF Loops

\* A slot that a subagent leaves or enters.
Reset(w) ==
    /\ w \in Sub
    /\ loop'[w].todo = <<>> /\ loop'[w].asked = {}
    /\ loop'[w].at \in Steady \/ (loop'[w].at = "ready" /\ loop'[w].parent # Nobody)

\* What a step does to the other loops, and the ways it may change the one that takes it.
Others(a) == \A b \in Agent \ {a} : loop'[b] = loop[b] \/ Reset(b)
Ends(a) ==
    loop'[a].at \in Steady /\ loop'[a].todo = <<>> /\ (a \in Sub => loop'[a].parent = Nobody)
Keeps(a) ==
    /\ loop'[a].todo = loop[a].todo /\ loop'[a].asked = loop[a].asked
    /\ loop'[a].answered = loop[a].answered /\ loop'[a].got = loop[a].got
    /\ loop'[a].parent = loop[a].parent
Answers(a) ==
    /\ loop'[a].at = "yielded" /\ loop'[a].todo = Tail(loop[a].todo)
    /\ loop'[a].got = loop[a].got \cup {Head(loop[a].todo)}
    /\ loop'[a].asked = loop[a].asked /\ loop'[a].answered = loop[a].answered
    /\ loop'[a].parent = loop[a].parent

LEMMA BecomesIs ==
    ASSUME loop \in [Agent -> Loops], NEW a \in Agent, NEW r \in Loops, Becomes(a, r)
    PROVE  /\ loop' \in [Agent -> Loops] /\ Others(a)
           /\ \/ loop'[a] = r /\ r.at \notin Ended
              \/ Ends(a) /\ r.at \in Ended \cup Yields
<1>1. /\ Settled(r) \in Loops
      /\ \/ Settled(r) = r /\ r.at \notin Ended
         \/ /\ Settled(r).at \in Ended /\ Settled(r).todo = <<>> /\ Settled(r).parent = Nobody
            /\ r.at \in Ended \cup Yields
  BY SettledIs
<1>2. loop' = [loop EXCEPT ![a] = Settled(r)]
  BY DEF Becomes
<1>3. loop' \in [Agent -> Loops] /\ loop'[a] = Settled(r) /\ Others(a)
  BY <1>1, <1>2 DEF Others
<1>. QED
  BY <1>1, <1>3 DEF Ends, Steady

LEMMA GotoIs ==
    ASSUME loop \in [Agent -> Loops], NEW a \in Agent, NEW place \in Places, Goto(a, place)
    PROVE  /\ loop' \in [Agent -> Loops] /\ Others(a)
           /\ \/ loop'[a].at = place /\ place \notin Ended /\ Keeps(a)
              \/ Ends(a) /\ place \in Ended \cup Yields
<1>. DEFINE r == [loop[a] EXCEPT !.at = place]
<1>1. r = [at |-> place, attached |-> loop[a].attached, turn |-> loop[a].turn,
           todo |-> loop[a].todo, asked |-> loop[a].asked, answered |-> loop[a].answered,
           got |-> loop[a].got, parent |-> loop[a].parent]
  BY LoopFields
<1>2. r \in Loops
  BY <1>1, LoopFields DEF Loops
<1>3. Becomes(a, r)
  BY DEF Goto
<1>4. /\ r.at = place /\ r.todo = loop[a].todo /\ r.asked = loop[a].asked
      /\ r.answered = loop[a].answered /\ r.got = loop[a].got /\ r.parent = loop[a].parent
  BY <1>1
<1>. HIDE DEF r
<1>. QED
  BY <1>2, <1>3, <1>4, BecomesIs DEF Keeps

LEMMA AnswerIs ==
    ASSUME loop \in [Agent -> Loops], NEW a \in Agent, loop[a].todo # <<>>,
           Becomes(a, WithResult(a))
    PROVE  loop' \in [Agent -> Loops] /\ Others(a) /\ (Answers(a) \/ Ends(a))
<1>1. loop[a] \in Loops /\ Tail(loop[a].todo) \in Batches /\ Head(loop[a].todo) \in Call
  BY LoopFields, BatchTail
<1>2. WithResult(a) \in Loops
  BY <1>1 DEF WithResult, Loops, Places, Yields
<1>3. LET r == WithResult(a) IN
      /\ r.at = "yielded" /\ r.todo = Tail(loop[a].todo) /\ r.asked = loop[a].asked
      /\ r.answered = loop[a].answered /\ r.got = loop[a].got \cup {Head(loop[a].todo)}
      /\ r.parent = loop[a].parent
  BY <1>1 DEF WithResult, Loops
<1>. QED
  BY <1>2, <1>3, BecomesIs DEF Answers

\* A checkpoint is a row, and only its writer is named in it.
LEMMA SavedIs ==
    ASSUME NEW a \in Agent, NEW status, NEW pending \in Batches, NEW ok \in BOOLEAN,
           loop \in [Agent -> Loops], ckpt \in Rows, Saved(a, status, pending, ok)
    PROVE  /\ ckpt' \in Rows
           /\ \/ ckpt' = ckpt /\ (a \in Stream => ~ok)
              \/ /\ ok /\ a \in Stream /\ status \in Statuses
                 /\ ckpt'.status = status /\ ckpt'.pending = pending /\ ckpt'.by = a
<1>1. loop[a].asked \subseteq Call /\ loop[a].answered \subseteq Call
  BY LoopFields
<1>. QED
  BY <1>1, PartyAssumption DEF Saved, Rows, Agent
----------------------------------------------------------------------------
(* Most steps of a loop are its own business: they move it along its turn   *)
(* and at most write the checkpoint.                                        *)

Settles == {"start", "ready", "model", "close", "budget", "summary"}
Busy == HasCall \cup {"turn", "yielded"}

\* The loop moves on, drops its first call with a result, or ends.
Along(a) ==
    /\ loop'[a].at \in HasCall => loop'[a].todo # <<>>
    /\ \/ Ends(a)
       \/ Keeps(a) /\ loop'[a].at \notin Steady
       \/ Answers(a) /\ loop[a].todo # <<>>
       \/ /\ loop[a].todo = <<>> /\ loop[a].at = "yielded" /\ loop'[a].at = "close"
          /\ loop'[a].todo = <<>> /\ loop'[a].parent = loop[a].parent
          /\ loop'[a].asked = loop[a].asked
          /\ loop'[a].answered = loop[a].answered \cup loop[a].got
    /\ ~Ends(a) =>
          /\ loop'[a].at \in Settles =>
                loop[a].at = "yielded" \/ (loop[a].at \in Settles /\ Keeps(a))
          /\ loop[a].at = "yielded" /\ loop'[a].at \in Settles =>
                /\ loop[a].todo = <<>> /\ loop'[a].asked = loop[a].asked
                /\ loop'[a].answered = loop[a].answered \cup loop[a].got
          /\ loop'[a].at \in Busy => loop[a].at \in Busy /\ (Keeps(a) \/ Answers(a))
          /\ loop[a].at = "running" => Answers(a) \/ loop'[a].at \in {"running", "fail"}
          /\ loop[a].at = "fail" => loop'[a].at = "fail"

\* It writes nothing, or a row in its own name.
Writes(a) ==
    \/ /\ ckpt' = ckpt
       /\ a \in Stream /\ loop'[a].at \in Checked => loop[a].at \in Checked /\ Keeps(a)
    \/ /\ a \in Stream /\ ckpt'.by = a /\ ckpt'.status # "ready_to_resume"
       /\ \/ ckpt'.pending = <<>> /\ loop'[a].at \notin Checked
          \/ /\ ckpt'.pending = loop[a].todo /\ loop[a].at \notin {"running", "fail"}
             /\ loop'[a].at \in Checked =>
                   ckpt'.status = "recovery_required" /\ Keeps(a)

\* A step of loop a within its turn, and one that neither waits nor uses a permission.
Within(a) ==
    /\ loop' \in [Agent -> Loops] /\ ckpt' \in Rows
    /\ Live(a) /\ Others(a) /\ Along(a) /\ Writes(a)
    /\ UNCHANGED <<mode, replayVars, crashes, issued>>

Local(a) ==
    /\ Within(a)
    /\ \/ Keeps(a) /\ loop'[a].at = loop[a].at
       \/ loop[a].at \notin {"wait", "exec"} /\ loop'[a].at \notin {"wait", "exec"}
    /\ UNCHANGED <<approvalVars, granted, ran>>

\* A saved checkpoint, and the loop after it.
LEMMA SaveAndIs ==
    ASSUME TypeInv, NEW a \in Agent, NEW status, NEW pending \in Batches,
           NEW next \in Places, SaveAnd(a, status, pending, next)
    PROVE  /\ loop' \in [Agent -> Loops] /\ ckpt' \in Rows /\ Others(a)
           /\ \/ /\ ckpt' = ckpt
                 /\ a \in Stream => Ends(a)
              \/ /\ a \in Stream /\ status \in Statuses
                 /\ ckpt'.status = status /\ ckpt'.pending = pending /\ ckpt'.by = a
           /\ Ends(a) \/ (loop'[a].at = next /\ next \notin Ended /\ Keeps(a))
           /\ UNCHANGED <<mode, approvalVars, replayVars, crashes, issued, granted, ran>>
<1>1. loop \in [Agent -> Loops] /\ ckpt \in Rows
  BY TypeParts DEF TypeInv
<1>2. UNCHANGED <<mode, approvalVars, replayVars, crashes, issued, granted, ran>>
  BY DEF SaveAnd
<1>3. PICK ok \in BOOLEAN :
        Saved(a, status, pending, ok) /\ Goto(a, IF ok THEN next ELSE "error")
  BY DEF SaveAnd
<1>4. /\ ckpt' \in Rows
      /\ \/ ckpt' = ckpt /\ (a \in Stream => ~ok)
         \/ /\ ok /\ a \in Stream /\ status \in Statuses
            /\ ckpt'.status = status /\ ckpt'.pending = pending /\ ckpt'.by = a
  BY <1>1, <1>3, SavedIs
<1>5. CASE ok
  BY <1>1, <1>2, <1>3, <1>4, <1>5, GotoIs
<1>6. CASE ~ok
  <2>1. Goto(a, "error") /\ "error" \in Places
    BY <1>3, <1>6 DEF Places, Ended
  <2>2. loop' \in [Agent -> Loops] /\ Others(a) /\ Ends(a)
    BY <1>1, <2>1, GotoIs DEF Ended
  <2>. QED
    BY <1>2, <1>4, <1>6, <2>2
<1>. QED
  BY <1>5, <1>6

\* A save between turns, and one within a turn.
LEMMA SaveBetween ==
    ASSUME TypeInv, NEW a \in Agent, loop[a].at \in Settles,
           NEW status \in {"running", "synthesizing"},
           NEW next \in {"ready", "model", "budget", "summary"}, SaveAnd(a, status, <<>>, next)
    PROVE  Local(a)
<1>. USE DEF HasCall, Busy, Settles, Checked, Steady, Ended
<1>1. next \in Places /\ <<>> \in Batches
  BY NoBatch DEF Places, Yields
<1>2. /\ loop' \in [Agent -> Loops] /\ ckpt' \in Rows /\ Others(a)
      /\ \/ /\ ckpt' = ckpt
            /\ a \in Stream => Ends(a)
         \/ a \in Stream /\ ckpt'.status = status /\ ckpt'.pending = <<>> /\ ckpt'.by = a
      /\ Ends(a) \/ (loop'[a].at = next /\ Keeps(a))
      /\ UNCHANGED <<mode, approvalVars, replayVars, crashes, issued, granted, ran>>
  BY <1>1, SaveAndIs
<1>3. Along(a)
  BY <1>2 DEF Along, Ends, Keeps
<1>4. Writes(a)
  BY <1>2 DEF Writes, Ends
<1>5. loop[a].at \notin {"wait", "exec"} /\ loop'[a].at \notin {"wait", "exec"}
  BY <1>2 DEF Ends
<1>. QED
  BY <1>2, <1>3, <1>4, <1>5 DEF Local, Within, Live

LEMMA SaveInside ==
    ASSUME TypeInv, NEW a \in Agent, loop[a].at \in {"turn", "tool", "yielded"},
           NEW status \in {"completed", "awaiting_tools", "recovery_required"},
           NEW next \in {"tool", "yielded", "gate", "over"},
           next \in {"tool", "gate"} => loop[a].todo # <<>>,
           next = "gate" => status = "recovery_required",
           SaveAnd(a, status, loop[a].todo, next)
    PROVE  Local(a)
<1>. USE DEF HasCall, Busy, Settles, Checked, Steady, Ended
<1>1. next \in Places /\ loop[a].todo \in Batches
  BY TypeParts, LoopFields DEF TypeInv, Places, Yields
<1>2. /\ loop' \in [Agent -> Loops] /\ ckpt' \in Rows /\ Others(a)
      /\ \/ /\ ckpt' = ckpt
            /\ a \in Stream => Ends(a)
         \/ /\ a \in Stream
            /\ ckpt'.status = status /\ ckpt'.pending = loop[a].todo /\ ckpt'.by = a
      /\ Ends(a) \/ (loop'[a].at = next /\ next # "over" /\ Keeps(a))
      /\ UNCHANGED <<mode, approvalVars, replayVars, crashes, issued, granted, ran>>
  BY <1>1, SaveAndIs
<1>3. Along(a)
  BY <1>2 DEF Along, Ends, Keeps
<1>4. Writes(a)
  BY <1>2 DEF Writes, Ends
<1>5. loop[a].at \notin {"wait", "exec"} /\ loop'[a].at \notin {"wait", "exec"}
  BY <1>2 DEF Ends
<1>. QED
  BY <1>2, <1>3, <1>4, <1>5 DEF Local, Within, Live

LEMMA SavesAreLocal ==
    ASSUME TypeInv, NEW a \in Agent,
           \/ a \in Stream /\ SaveStart(a)
           \/ SaveTurn(a) \/ SaveTool(a) \/ SaveRunning(a) \/ SaveSynthesizing(a)
    PROVE  Local(a)
<1>1. CASE a \in Stream /\ SaveStart(a)
  BY <1>1, SaveBetween DEF SaveStart, Settles
<1>2. CASE SaveRunning(a)
  BY <1>2, SaveBetween DEF SaveRunning, Settles
<1>3. CASE SaveSynthesizing(a)
  BY <1>3, SaveBetween DEF SaveSynthesizing, Settles
<1>4. CASE SaveTurn(a)
  BY <1>4, SaveInside DEF SaveTurn
<1>5. CASE SaveTool(a)
  BY <1>5, SaveInside DEF SaveTool, AtTool
<1>. QED
  BY <1>1, <1>2, <1>3, <1>4, <1>5

\* The other steps that neither wait nor use a permission.
LEMMA MovesAreLocal ==
    ASSUME TypeInv, NEW a \in Agent,
           \/ Raise(a) \/ EndTurn(a) \/ Summarise(a) \/ SaveEnd(a)
           \/ a \in Stream /\ Disconnect(a)
    PROVE  Local(a)
<1>. USE DEF HasCall, Busy, Settles, Checked, Steady, Ended
<1>1. /\ loop \in [Agent -> Loops] /\ ckpt \in Rows
      /\ loop[a] \in Loops /\ loop[a].todo \in Batches /\ <<>> \in Batches
      /\ {"over", "error", "fail", "final", "close"} \subseteq Places
  BY TypeParts, LoopFields, NoBatch DEF TypeInv, Places, Yields
<1>2. loop[a].at \in HasCall => loop[a].todo # <<>>
  BY DEF TypeInv, Shape
<1>3. CASE Raise(a)
  <2>1. Goto(a, "fail") /\ loop[a].at = "running"
    BY <1>3 DEF Raise
  <2>2. /\ loop' \in [Agent -> Loops] /\ Others(a)
        /\ loop'[a].at = "fail" /\ Keeps(a)
    BY <1>1, <2>1, GotoIs DEF Yields
  <2>. QED
    BY <1>1, <1>3, <2>1, <2>2 DEF Raise, Local, Within, Along, Writes, Live
<1>4. CASE EndTurn(a)
  <2>. DEFINE r == [loop[a] EXCEPT !.at = "close", !.answered = @ \cup loop[a].got]
  <2>1. /\ r \in Loops /\ r.at = "close" /\ r.todo = loop[a].todo /\ r.parent = loop[a].parent
        /\ r.asked = loop[a].asked /\ r.answered = loop[a].answered \cup loop[a].got
    BY <1>1 DEF Loops
  <2>2. Becomes(a, r) /\ loop[a].at = "yielded" /\ loop[a].todo = <<>>
    BY <1>4 DEF EndTurn
  <2>. HIDE DEF r
  <2>3. loop' \in [Agent -> Loops] /\ Others(a) /\ loop'[a] = r
    BY <1>1, <2>1, <2>2, BecomesIs DEF Yields
  <2>. QED
    BY <1>1, <1>4, <2>1, <2>2, <2>3 DEF EndTurn, Local, Within, Along, Writes, Live
<1>5. CASE Summarise(a)
  <2>1. PICK next \in {"final", "fail"} : Goto(a, next) /\ loop[a].at = "summary"
    BY <1>5 DEF Summarise
  <2>2. /\ loop' \in [Agent -> Loops] /\ Others(a)
        /\ loop'[a].at = next /\ Keeps(a)
    BY <1>1, <2>1, GotoIs DEF Yields
  <2>. QED
    BY <1>1, <1>5, <2>1, <2>2 DEF Summarise, Local, Within, Along, Writes, Live
<1>6. CASE SaveEnd(a)
  <2>1. PICK status \in {"completed", "failed"}, next \in {"over", "error"}, ok \in BOOLEAN :
          loop[a].at \in {"final", "fail"} /\ Goto(a, next) /\ Saved(a, status, <<>>, ok)
    BY <1>6 DEF SaveEnd
  <2>2. loop' \in [Agent -> Loops] /\ Others(a) /\ Ends(a)
    BY <1>1, <2>1, GotoIs 
  <2>3. Saved(a, status, <<>>, ok) /\ <<>> \in Batches
    BY <1>1, <2>1
  <2>4. /\ ckpt' \in Rows
        /\ \/ ckpt' = ckpt
           \/ a \in Stream /\ ckpt'.status = status /\ ckpt'.pending = <<>> /\ ckpt'.by = a
    BY <1>1, <2>3, SavedIs
  <2>. QED
    BY <1>1, <1>6, <2>1, <2>2, <2>4 DEF SaveEnd, Local, Within, Along, Writes, Live, Ends
<1>7. CASE a \in Stream /\ Disconnect(a)
  <2>. DEFINE r == [loop[a] EXCEPT !.attached = FALSE]
  <2>1. /\ r \in Loops /\ r.at = loop[a].at /\ r.todo = loop[a].todo
        /\ r.parent = loop[a].parent /\ r.asked = loop[a].asked
        /\ r.answered = loop[a].answered /\ r.got = loop[a].got
    BY <1>1 DEF Loops
  <2>2. Becomes(a, r) /\ Live(a)
    BY <1>7 DEF Disconnect
  <2>. HIDE DEF r
  <2>3. loop' \in [Agent -> Loops] /\ Others(a) /\ (loop'[a] = r \/ (Ends(a) /\ r.at \in Yields))
    BY <1>1, <2>1, <2>2, BecomesIs DEF Live
  <2>. QED
    BY <1>1, <1>2, <1>7, <2>1, <2>2, <2>3
       DEF Disconnect, Local, Within, Along, Writes, Live, Keeps, Ends, Yields
<1>. QED
  BY <1>3, <1>4, <1>5, <1>6, <1>7

\* A call that is refused or asked about, and a model that fails.
LEMMA TurnsAreLocal ==
    ASSUME TypeInv, NEW a \in Agent,
           \/ /\ Goto(a, "fail") /\ loop[a].at \in {"ready", "model"}
              /\ UNCHANGED <<mode, ckpt, approvalVars, replayVars, crashes, issued, granted, ran>>
           \/ /\ loop[a].at = "gate"
              /\ Becomes(a, WithResult(a)) \/ Goto(a, "ask")
              /\ UNCHANGED <<mode, ckpt, approvalVars, replayVars, crashes, issued, granted, ran>>
    PROVE  Local(a)
<1>. USE DEF HasCall, Busy, Settles, Checked, Steady, Ended
<1>1. /\ loop \in [Agent -> Loops] /\ ckpt \in Rows
      /\ {"fail", "ask"} \subseteq Places
  BY TypeParts DEF TypeInv, Places, Yields
<1>2. loop[a].at \in HasCall => loop[a].todo # <<>>
  BY DEF TypeInv, Shape
<1>3. CASE Goto(a, "fail") /\ loop[a].at \in {"ready", "model"}
  <2>1. loop' \in [Agent -> Loops] /\ Others(a) /\ loop'[a].at = "fail" /\ Keeps(a)
    BY <1>1, <1>3, GotoIs DEF Yields
  <2>. QED
    BY <1>1, <1>3, <2>1 DEF Local, Within, Along, Writes, Live
<1>4. CASE loop[a].at = "gate" /\ Becomes(a, WithResult(a))
  <2>1. loop' \in [Agent -> Loops] /\ Others(a) /\ (Answers(a) \/ Ends(a))
    BY <1>1, <1>2, <1>4, AnswerIs 
  <2>. QED
    BY <1>1, <1>2, <1>4, <2>1 DEF Local, Within, Along, Writes, Live, Answers, Ends
<1>5. CASE loop[a].at = "gate" /\ Goto(a, "ask")
  <2>1. /\ loop' \in [Agent -> Loops] /\ Others(a)
        /\ \/ loop'[a].at = "ask" /\ Keeps(a)
           \/ Ends(a)
    BY <1>1, <1>5, GotoIs
  <2>. QED
    BY <1>1, <1>2, <1>5, <2>1 DEF Local, Within, Along, Writes, Live, Keeps, Ends
<1>. QED
  BY <1>3, <1>4, <1>5

\* A tool that returns; the subagents it started leave.
LEMMA ReturnIsLocal ==
    ASSUME TypeInv, NEW a \in Agent, Return(a)
    PROVE  Local(a)
<1>. USE DEF HasCall, Busy, Settles, Checked, Steady, Ended
<1>1. /\ loop \in [Agent -> Loops] /\ ckpt \in Rows /\ NoLoop \in Loops
      /\ loop[a].at = "running" /\ loop[a].todo # <<>>
  BY TypeParts, NoBatch DEF TypeInv, Shape, Return, Loops, NoLoop, Places
<1>2. /\ WithResult(a) \in Loops /\ Settled(WithResult(a)) \in Loops
      /\ LET r == WithResult(a) IN
         /\ r.at = "yielded" /\ r.todo = Tail(loop[a].todo) /\ r.asked = loop[a].asked
         /\ r.answered = loop[a].answered /\ r.got = loop[a].got \cup {Head(loop[a].todo)}
         /\ r.parent = loop[a].parent
  <2>1. loop[a] \in Loops /\ Tail(loop[a].todo) \in Batches /\ Head(loop[a].todo) \in Call
    BY <1>1, LoopFields, BatchTail
  <2>2. WithResult(a) \in Loops
    BY <2>1 DEF WithResult, Loops, Places, Yields
  <2>. QED
    BY <2>1, <2>2, SettledIs DEF WithResult, Loops
<1>3. /\ loop' \in [Agent -> Loops]
      /\ \A b \in Agent : loop'[b] = IF b \in Children(a) THEN NoLoop
                                     ELSE IF b = a THEN Settled(WithResult(a)) ELSE loop[b]
  BY <1>1, <1>2 DEF Return, Reap
<1>4. \A b \in Children(a) : loop'[b] = NoLoop /\ b \in Sub
  BY <1>3 DEF Children, Agent
<1>5. Others(a)
  <2>1. NoLoop.at = "idle" /\ NoLoop.todo = <<>> /\ NoLoop.asked = {}
    BY DEF NoLoop
  <2>2. ASSUME NEW b \in Children(a) PROVE Reset(b)
    <3>1. loop'[b] = NoLoop /\ b \in Sub
      BY <1>4
    <3>. QED
      BY <2>1, <3>1 DEF Reset
  <2>. QED
    BY <1>3, <2>2 DEF Others
<1>6. Answers(a) \/ Ends(a)
  BY <1>2, <1>3, <1>4, SettledIs DEF Answers, Ends, NoLoop
<1>. QED
  BY <1>1, <1>3, <1>5, <1>6 DEF Return, Local, Within, Along, Writes, Live, Answers, Ends

----------------------------------------------------------------------------
(* What these steps preserve.                                               *)

LEMMA WithinTodo ==
    ASSUME TypeInv, NEW a \in Agent, Within(a), NEW b \in Agent
    PROVE  Todo(b)' \subseteq Todo(b)
<1>1. \A s \in Batches \ {<<>>} : Range(Tail(s)) \subseteq Range(s)
  BY BatchTail
<1>2. loop \in [Agent -> Loops]
  BY TypeParts DEF TypeInv
<1>. QED
  BY <1>1, <1>2, NoBatch, LoopFields
     DEF Within, Along, Others, Reset, Ends, Keeps, Answers, Todo

LEMMA WithinType ==
    ASSUME TypeInv, NEW a \in Agent, Within(a), OtherType'
    PROVE  TypeInv'
<1>1. loop \in [Agent -> Loops] /\ loop' \in [Agent -> Loops] /\ ckpt' \in Rows
  BY TypeParts DEF TypeInv, Within
<1>2. TypeOK'
  BY <1>1 DEF TypeOK, Loops, Rows, OtherType
<1>3. RowType'
  BY DEF TypeInv, RowType, Within, replayVars
<1>4. Shape'
  <2>1. ASSUME NEW b \in Agent, loop'[b].at \in HasCall
        PROVE  loop'[b].todo # <<>>
    BY <2>1 DEF TypeInv, Shape, Within, Along, Others, Reset, HasCall, Steady, Ended
  <2>2. ASSUME NEW b \in Agent, loop'[b].at \in Steady
        PROVE  loop'[b].todo = <<>>
    BY <2>2 DEF TypeInv, Shape, Within, Along, Others, Reset, Ends, Answers, Steady, Ended
  <2>3. ASSUME NEW w \in Sub, loop'[w].parent = Nobody
        PROVE  loop'[w].at \in Steady
    BY <2>3 DEF TypeInv, Shape, Within, Along, Others, Reset, Ends, Keeps, Answers, Agent, Live,
       Steady
  <2>4. ASSUME NEW w \in Sub, NEW c \in Todo(w)'
        PROVE  ToolOf[c] # "Task"
    <3>1. w \in Agent
      BY DEF Agent
    <3>2. Todo(w)' \subseteq Todo(w)
      BY <3>1, WithinTodo
    <3>. QED
      BY <3>2 DEF TypeInv, Shape
  <2>. QED
    BY <2>1, <2>2, <2>3, <2>4 DEF Shape
<1>. QED
  BY <1>2, <1>3, <1>4 DEF TypeInv

LEMMA WithinIssued ==
    ASSUME TypeInv, Issued, NEW a \in Agent, Within(a), UNCHANGED ran
    PROVE  Issued'
<1>1. \A b \in Agent : Todo(b)' \subseteq Todo(b)
  BY WithinTodo
<1>2. Range(ckpt'.pending) \subseteq Range(ckpt.pending) \cup Todo(a)
  BY NoBatch DEF Within, Writes, Todo
<1>. QED
  BY <1>1, <1>2 DEF Issued, Within, replayVars

LEMMA WithinCovered ==
    ASSUME TypeInv, Covered, NEW a \in Agent, Within(a)
    PROVE  Covered'
<1>1. ASSUME NEW s \in Stream, loop'[s].at \in Checked, ckpt'.by = s
      PROVE  ckpt'.status = "recovery_required" /\ ckpt'.pending = loop'[s].todo
  <2>1. CASE s = a
    BY <1>1, <2>1 DEF Covered, Within, Writes, Keeps, Checked
  <2>2. CASE s # a
    <3>1. loop'[s] = loop[s]
      BY <2>2, PartyAssumption DEF Within, Others, Reset, Agent
    <3>. QED
      BY <1>1, <2>2, <3>1 DEF Covered, Within, Writes
  <2>. QED
    BY <2>1, <2>2
<1>. QED
  BY <1>1 DEF Covered

LEMMA WithinUnrun ==
    ASSUME TypeInv, Issued, Unrun, NEW a \in Agent, Within(a), UNCHANGED ran
    PROVE  Unrun'
<1>T. \A b \in Agent : Todo(b)' \subseteq Todo(b)
  BY WithinTodo
<1>U. loop \in [Agent -> Loops] /\ UNCHANGED <<replay, raced, ran>>
  BY TypeParts DEF TypeInv, Within, replayVars
<1>. SUFFICES ASSUME ~raced
              PROVE  Unrun'
  BY <1>U DEF Unrun
<1>1. replay'.at # "idle" => replay'.row.pending = ckpt'.pending /\ \A s \in Stream : ~Live(s)'
  BY <1>U, PartyAssumption DEF Unrun, Within, Live, Writes, Others, Reset, Agent
<1>2. ASSUME NEW b \in Agent, Range(ckpt'.pending) \cap Todo(b)' # {}
      PROVE  ckpt'.by = b
  <2>1. CASE ckpt' = ckpt
    BY <1>T, <1>2, <2>1 DEF Unrun
  <2>2. CASE ckpt'.by = a /\ Range(ckpt'.pending) \subseteq Todo(a)
    BY <1>T, <1>2, <2>2 DEF Issued
  <2>. QED
    BY <2>1, <2>2, NoBatch DEF Within, Writes, Todo
<1>3. ASSUME NEW b \in Agent, NEW c \in Todo(b)'
      PROVE  \/ ran[c] = 0
             \/ loop'[b].at \in {"running", "fail"} /\ c = Head(loop'[b].todo)
  <2>1. c \in Todo(b)
    BY <1>T
  <2>2. ran[c] = 0 \/ (loop[b].at \in {"running", "fail"} /\ c = Head(loop[b].todo))
    BY <2>1 DEF Unrun
  <2>3. CASE loop'[b] = loop[b]
    BY <2>2, <2>3
  <2>4. CASE loop'[b].todo = <<>>
    BY <2>4, NoBatch DEF Todo
  <2>5. CASE b = a /\ Keeps(a) /\ ~Ends(a) /\ ~Answers(a)
    BY <2>2, <2>5 DEF Within, Along, Keeps
  <2>6. CASE b = a /\ Answers(a)
    <3>1. loop[a].todo # <<>>
      BY <2>1, <2>6, NoBatch DEF Todo
    <3>. QED
      BY <1>U, <2>2, <2>6, <3>1, LoopFields, BatchTail DEF Answers, Todo
  <2>7. CASE b # a
    BY <2>3, <2>4, <2>7 DEF Within, Others, Reset
  <2>8. CASE b = a
    BY <2>4, <2>5, <2>6, <2>8 DEF Within, Along, Ends
  <2>. QED
    BY <2>7, <2>8
<1>4. ASSUME ckpt'.pending # <<>>, NEW c \in Range(Tail(ckpt'.pending))
      PROVE  ran[c] = 0
  <2>1. CASE ckpt' = ckpt
    BY <1>4, <2>1 DEF Unrun
  <2>2. CASE ckpt'.pending = loop[a].todo /\ loop[a].at \notin {"running", "fail"}
    <3>1. c \in Todo(a)
      BY <1>U, <1>4, <2>2, LoopFields, BatchTail DEF Todo
    <3>. QED
      BY <2>2, <3>1 DEF Unrun
  <2>. QED
    BY <1>4, <2>1, <2>2 DEF Within, Writes
<1>. QED
  BY <1>U, <1>1, <1>2, <1>3, <1>4 DEF Unrun

LEMMA WithinHistory ==
    ASSUME TypeInv, History, NEW a \in Agent, Within(a)
    PROVE  History'
<1>U. loop \in [Agent -> Loops] /\ UNCHANGED <<replay, replays>>
  BY TypeParts DEF TypeInv, Within, replayVars
<1>. SUFFICES ASSUME replays = 0
              PROVE  History'
  BY <1>U DEF History
<1>1. ckpt'.status # "ready_to_resume" /\ replay'.at = "idle"
  BY <1>U DEF History, Within, Writes
<1>2. ASSUME NEW b \in Agent, loop'[b].at \in Settles
      PROVE  loop'[b].asked \subseteq loop'[b].answered
  <2>1. CASE b # a
    BY <1>2, <2>1 DEF History, Settles, Within, Others, Reset
  <2>2. CASE b = a /\ Ends(a)
    BY <1>2, <2>2 DEF Ends, Settles, Steady, Ended
  <2>3. CASE b = a /\ loop[a].at \in Settles /\ Keeps(a)
    BY <2>3 DEF History, Settles, Keeps
  <2>4. CASE b = a /\ loop[a].at = "yielded" /\ ~Ends(a)
    <3>1. /\ loop[a].todo = <<>> /\ loop'[a].asked = loop[a].asked
          /\ loop'[a].answered = loop[a].answered \cup loop[a].got
      BY <1>2, <2>4 DEF Within, Along
    <3>2. loop[a].asked \subseteq loop[a].answered \cup loop[a].got
      BY <2>4, <3>1, NoBatch DEF History, Todo
    <3>. QED
      BY <2>4, <3>1, <3>2
  <2>. QED
    BY <1>2, <2>1, <2>2, <2>3, <2>4 DEF Within, Along
<1>3. ASSUME NEW b \in Agent, loop'[b].at \in Busy
      PROVE  loop'[b].asked \subseteq loop'[b].answered \cup loop'[b].got \cup Todo(b)'
  <2>1. CASE b # a
    BY <1>3, <2>1, NoBatch DEF History, Busy, Todo, Within, Others, Reset
  <2>2. CASE b = a /\ Ends(a)
    BY <1>3, <2>2 DEF Ends, Busy, HasCall, Steady, Ended
  <2>3. CASE b = a /\ loop[a].at \in Busy /\ Keeps(a)
    BY <2>3 DEF History, Busy, Keeps, Todo
  <2>4. CASE b = a /\ loop[a].at \in Busy /\ Answers(a) /\ loop[a].todo # <<>>
    <3>1. Todo(a) = {Head(loop[a].todo)} \cup Todo(a)'
      BY <1>U, <2>4, LoopFields, BatchTail DEF Answers, Todo
    <3>. QED
      BY <2>4, <3>1 DEF History, Busy, Answers
  <2>5. b = a /\ ~Ends(a) => loop[a].at \in Busy /\ (Keeps(a) \/ Answers(a))
    BY <1>3 DEF Within, Along
  <2>6. b = a /\ ~Ends(a) /\ Answers(a) /\ ~Keeps(a) => loop[a].todo # <<>>
    BY DEF Within, Along, Answers
  <2>. QED
    BY <2>1, <2>2, <2>3, <2>4, <2>5, <2>6
<1>. QED
  BY <1>1, <1>2, <1>3 DEF History, Settles, Busy

\* Local steps preserve everything.
LEMMA LocalStep ==
    ASSUME IInv, NEW a \in Agent, Local(a)
    PROVE  IInv'
<1>1. /\ Within(a)
      /\ UNCHANGED <<mode, owners, decided, rules, replay, replays, raced, crashes, issued,
                     granted, ran>>
  BY DEF Local, Within, approvalVars, replayVars
<1>2. TypeInv'
  <2>1. OtherType'
    BY <1>1, TypeParts DEF IInv, TypeInv, OtherType
  <2>. QED
    BY <1>1, <2>1, WithinType DEF IInv
<1>3. Issued' /\ Covered' /\ Unrun' /\ History'
  BY <1>1, WithinIssued, WithinCovered, WithinUnrun, WithinHistory DEF IInv
<1>4. Waiting'
  <2>1. ASSUME NEW s \in Stream, loop[s].at = "wait"
        PROVE  loop'[s].at = "wait" /\ loop'[s].todo = loop[s].todo
    BY <2>1, PartyAssumption DEF Agent, Local, Within, Others, Reset, Keeps
  <2>. QED
    BY <1>1, <2>1 DEF IInv, Waiting
<1>5. Backed'
  <2>1. ASSUME NEW b \in Agent, loop'[b].at = "exec"
        PROVE  loop[b].at = "exec" /\ loop'[b].todo = loop[b].todo
    BY <2>1 DEF Local, Within, Others, Reset, Keeps, Steady, Ended
  <2>2. \A c \in Call : InHand(c)' \in Nat /\ InHand(c) \in Nat /\ InHand(c)' <= InHand(c)
    BY <1>1, <2>1 DEF InHand
  <2>3. \A c \in Call : Confirmed(c)' = Confirmed(c) /\ Confirmed(c) \in Nat
    BY <1>1 DEF Confirmed
  <2>. QED
    BY <1>1, <2>2, <2>3 DEF IInv, Backed, TypeInv, TypeOK
<1>. QED
  BY <1>2, <1>3, <1>4, <1>5 DEF IInv

----------------------------------------------------------------------------
(* Permissions.                                                             *)

\* Two loops never work on the same call.
LEMMA OneLoopPerCall ==
    ASSUME TypeInv, Issued, NEW a \in Agent, NEW b \in Agent,
           loop[a].at \in HasCall, loop[b].at \in HasCall,
           Head(loop[a].todo) = Head(loop[b].todo)
    PROVE  a = b
<1>1. loop[a].todo \in Batches \ {<<>>} /\ loop[b].todo \in Batches \ {<<>>}
  BY TypeParts, LoopFields DEF TypeInv, Shape
<1>2. Head(loop[a].todo) \in Todo(a) /\ Head(loop[b].todo) \in Todo(b)
  BY <1>1, BatchTail DEF Todo
<1>. QED
  BY <1>2 DEF Issued

\* A decision that counts is one a stream is waiting for.
LEMMA DecidedWaits ==
    ASSUME TypeInv, Issued, Waiting, NEW a \in Agent, loop[a].at \in HasCall \ {"wait"}
    PROVE  LET c == Head(loop[a].todo) IN decided[c] = "none" /\ c \notin owners
<1>. DEFINE c == Head(loop[a].todo)
<1>1. c \in Call
  BY TypeParts, LoopFields, BatchTail DEF TypeInv, Shape
<1>2. SUFFICES ASSUME c \in owners \/ decided[c] # "none"
               PROVE  FALSE
  OBVIOUS
<1>3. PICK s \in Stream : loop[s].at = "wait" /\ Head(loop[s].todo) = c
  BY <1>1, <1>2 DEF Waiting
<1>. QED
  BY <1>3, OneLoopPerCall DEF Agent, HasCall

\* A permission that is given backs one more execution.
LEMMA GrantBacks ==
    ASSUME TypeInv, Backed, NEW c \in Call, UNCHANGED ran,
           granted' = [granted EXCEPT ![c] = @ + 1],
           \A d \in Call : InHand(d)' + Confirmed(d)' <=
                               InHand(d) + Confirmed(d) + (IF d = c THEN 1 ELSE 0)
    PROVE  Backed'
<1>1. \A d \in Call : /\ ran[d] \in Nat /\ granted[d] \in Nat
                      /\ granted'[d] = granted[d] + (IF d = c THEN 1 ELSE 0)
  BY DEF TypeInv, TypeOK
<1>2. \A d \in Call : /\ InHand(d) \in Nat /\ Confirmed(d) \in Nat
                      /\ InHand(d)' \in Nat /\ Confirmed(d)' \in Nat
  BY DEF InHand, Confirmed
<1>. QED
  BY <1>1, <1>2 DEF Backed

\* The permission mode or a rule allows the call at hand.
LEMMA AllowedStep ==
    ASSUME IInv, NEW a \in Agent, loop[a].at = "gate", Goto(a, "exec"),
           granted' = [granted EXCEPT ![Head(loop[a].todo)] = @ + 1],
           UNCHANGED <<mode, ckpt, approvalVars, replayVars, crashes, issued, ran>>
    PROVE  IInv'
<1>. DEFINE c == Head(loop[a].todo)
<1>1. /\ loop \in [Agent -> Loops] /\ ckpt \in Rows /\ OtherType /\ c \in Call
      /\ loop[a].todo # <<>>
  BY TypeParts, LoopFields, BatchTail DEF IInv, TypeInv, Shape, HasCall
<1>2. loop' \in [Agent -> Loops] /\ Others(a) /\ loop'[a].at = "exec" /\ Keeps(a)
  BY <1>1, GotoIs DEF Places, Ended, Yields
<1>3. Within(a)
  BY <1>1, <1>2 DEF Within, Along, Writes, Keeps, Live, HasCall, Busy, Settles, Checked, Steady,
     Ended
<1>4. TypeInv'
  <2>1. OtherType'
    BY <1>1 DEF OtherType, approvalVars, replayVars
  <2>. QED
    BY <1>3, <2>1, WithinType DEF IInv
<1>5. Issued' /\ Covered' /\ Unrun' /\ History'
  BY <1>3, WithinIssued, WithinCovered, WithinUnrun, WithinHistory DEF IInv
<1>6. \A b \in Agent \ {a} : loop'[b] = loop[b] \/ (b \in Sub /\ loop'[b].at # "exec")
  BY <1>2 DEF Others, Reset, Steady, Ended
<1>7. Waiting'
  BY <1>2, <1>6, PartyAssumption DEF IInv, Waiting, approvalVars, Agent
<1>8. Backed'
  <2>1. \A d \in Call \ {c} : InHand(d)' <= InHand(d)
    BY <1>2, <1>6 DEF InHand, approvalVars, Keeps
  <2>2. InHand(c)' \in {0, 1} /\ \A d \in Call : InHand(d) \in {0, 1}
    BY DEF InHand
  <2>3. \A d \in Call : Confirmed(d)' = Confirmed(d) /\ Confirmed(d) \in {0, 1}
    BY DEF Confirmed, replayVars
  <2>4. \A d \in Call : InHand(d)' + Confirmed(d)' <=
                            InHand(d) + Confirmed(d) + (IF d = c THEN 1 ELSE 0)
    BY <2>1, <2>2, <2>3 DEF InHand
  <2>. QED
    BY <1>1, <2>4, GrantBacks DEF IInv
<1>. QED
  BY <1>4, <1>5, <1>7, <1>8 DEF IInv

LEMMA AskStep ==
    ASSUME IInv, NEW s \in Stream, Ask(s)
    PROVE  IInv'
<1>. DEFINE c == Head(loop[s].todo)
<1>1. /\ s \in Agent /\ loop \in [Agent -> Loops] /\ ckpt \in Rows /\ OtherType /\ c \in Call
      /\ loop[s].todo # <<>> /\ loop[s].at = "ask"
  BY TypeParts, LoopFields, BatchTail DEF IInv, TypeInv, Shape, HasCall, Ask, Agent
<1>2. loop' \in [Agent -> Loops] /\ Others(s) /\ loop'[s].at = "wait" /\ Keeps(s)
  BY <1>1, GotoIs DEF Ask, Places, Ended, Yields
<1>3. Within(s)
  BY <1>1, <1>2 DEF Ask, Within, Along, Writes, Keeps, Live, HasCall, Busy, Settles, Checked,
     Steady, Ended
<1>4. TypeInv'
  <2>1. OtherType'
    BY <1>1 DEF OtherType, Ask, replayVars
  <2>. QED
    BY <1>1, <1>3, <2>1, WithinType DEF IInv
<1>5. Issued' /\ Covered' /\ Unrun' /\ History'
  BY <1>1, <1>3, WithinIssued, WithinCovered, WithinUnrun, WithinHistory DEF IInv, Ask
<1>6. decided[c] = "none"
  BY <1>1, DecidedWaits DEF IInv, HasCall
<1>7. \A t \in Stream \ {s} : loop'[t] = loop[t]
  BY <1>2, PartyAssumption DEF Others, Reset, Agent
<1>8. Waiting'
  BY <1>1, <1>2, <1>6, <1>7 DEF IInv, Waiting, Ask, Keeps
<1>9. Backed'
  <2>1. \A d \in Call : InHand(d)' <= InHand(d) /\ InHand(d) \in Nat /\ InHand(d)' \in Nat
    BY <1>2 DEF InHand, Ask, Others, Reset, Steady, Ended
  <2>2. \A d \in Call : Confirmed(d)' = Confirmed(d) /\ Confirmed(d) \in Nat
    BY DEF Confirmed, Ask, replayVars
  <2>. QED
    BY <1>1, <2>1, <2>2 DEF IInv, Backed, OtherType, Ask
<1>. QED
  BY <1>4, <1>5, <1>8, <1>9 DEF IInv

\* The waiter takes its decision, or gives up.
LEMMA WaitStep ==
    ASSUME IInv, NEW s \in Stream, WaitReturns(s) \/ WaitTimesOut(s)
    PROVE  IInv'
<1>. DEFINE c == Head(loop[s].todo)
<1>1. /\ s \in Agent /\ loop \in [Agent -> Loops] /\ ckpt \in Rows /\ OtherType /\ c \in Call
      /\ loop[s].todo # <<>> /\ loop[s].at = "wait"
  <2>1. s \in Agent /\ loop[s].at = "wait"
    BY DEF WaitReturns, WaitTimesOut, Agent
  <2>. QED
    BY <2>1, TypeParts, LoopFields, BatchTail DEF IInv, TypeInv, Shape, HasCall
<1>2. /\ loop' \in [Agent -> Loops] /\ Others(s)
      /\ \/ Answers(s) \/ Ends(s)
         \/ decided[c] = "yes" /\ loop'[s].at = "exec" /\ Keeps(s)
  <2>1. CASE Becomes(s, WithResult(s))
    BY <1>1, <2>1, AnswerIs
  <2>2. CASE decided[c] = "yes" /\ Goto(s, "exec")
    BY <1>1, <2>2, GotoIs DEF Places, Ended, Yields
  <2>. QED
    BY <2>1, <2>2 DEF WaitReturns, WaitTimesOut
<1>3. /\ decided' = [decided EXCEPT ![c] = "none"]
      /\ owners' = owners \ {c}
      /\ UNCHANGED <<mode, ckpt, rules, replay, replays, raced, crashes, issued, granted, ran>>
  <2>1. CASE WaitReturns(s)
    <3>1. c \notin owners
      BY <1>1, <2>1 DEF WaitReturns, IInv, Waiting
    <3>. QED
      BY <2>1, <3>1 DEF WaitReturns, replayVars
  <2>2. CASE WaitTimesOut(s)
    BY <2>2 DEF WaitTimesOut, replayVars
  <2>. QED
    BY <2>1, <2>2
<1>4. Within(s)
  BY <1>1, <1>2, <1>3 DEF Within, Along, Writes, Keeps, Answers, Ends, Live, HasCall, Busy,
     Settles, Checked, Steady, Ended, replayVars
<1>5. TypeInv'
  <2>1. OtherType'
    BY <1>1, <1>3 DEF OtherType
  <2>. QED
    BY <1>1, <1>4, <2>1, WithinType DEF IInv
<1>6. Issued' /\ Covered' /\ Unrun' /\ History'
  BY <1>1, <1>3, <1>4, WithinIssued, WithinCovered, WithinUnrun, WithinHistory DEF IInv
<1>7. \A b \in Agent \ {s} : loop'[b] = loop[b] \/ (b \in Sub /\ loop'[b].at # "exec")
  BY <1>2 DEF Others, Reset, Steady, Ended
<1>8. Waiting'
  <2>1. \A d \in Call : decided'[d] = IF d = c THEN "none" ELSE decided[d]
    BY <1>1, <1>3 DEF OtherType
  <2>2. \A t \in Stream \ {s} : loop'[t] = loop[t]
    BY <1>7, PartyAssumption DEF Agent
  <2>. QED
    BY <1>3, <2>1, <2>2 DEF IInv, Waiting
<1>9. Backed'
  <2>1. \A d \in Call : decided'[d] = "yes" => decided[d] = "yes"
    BY <1>1, <1>3 DEF OtherType
  <2>2. \A b \in Agent : loop'[b].at = "exec" =>
            \/ loop[b].at = "exec" /\ loop'[b].todo = loop[b].todo
            \/ b = s /\ decided[c] = "yes" /\ loop'[b].todo = loop[b].todo
    BY <1>1, <1>2, <1>7 DEF Answers, Ends, Keeps, Steady, Ended
  <2>3. \A d \in Call : InHand(d)' <= InHand(d) /\ InHand(d) \in Nat /\ InHand(d)' \in Nat
    BY <2>1, <2>2 DEF InHand
  <2>4. \A d \in Call : Confirmed(d)' = Confirmed(d) /\ Confirmed(d) \in Nat
    BY <1>3 DEF Confirmed
  <2>. QED
    BY <1>1, <1>3, <2>3, <2>4 DEF IInv, Backed, OtherType
<1>. QED
  BY <1>5, <1>6, <1>8, <1>9 DEF IInv

\* The owner decides, or takes rules back.
LEMMA DecisionStep ==
    ASSUME IInv, Decision \/ ClearRules
    PROVE  IInv'
<1>1. OtherType /\ loop \in [Agent -> Loops] /\ ckpt \in Rows
  BY TypeParts DEF IInv, TypeInv
<1>2. UNCHANGED <<mode, ckpt, loop, replay, replays, raced, crashes, issued, ran>>
  BY DEF Decision, Approve, Deny, ClearRules, replayVars
<1>3. Issued' /\ Covered' /\ Unrun' /\ History' /\ RowType' /\ Shape'
  BY <1>2 DEF IInv, TypeInv, Issued, Covered, Unrun, History, RowType, Shape, Todo, Live
<1>4. ASSUME NEW c \in Call, NEW scope \in Scopes, Approve(c, scope)
      PROVE  OtherType' /\ Waiting' /\ Backed'
  <2>1. /\ decided' = [decided EXCEPT ![c] = "yes"] /\ owners' = owners \ {c}
        /\ granted' = [granted EXCEPT ![c] = @ + 1] /\ c \in owners
    BY <1>4 DEF Approve
  <2>2. rules' \subseteq Range(ToolOf) \X {"session", "workspace"}
    <3>1. ToolOf[c] \in Range(ToolOf)
      BY CallAssumption DEF Range
    <3>. QED
      BY <1>1, <1>4, <3>1, CallAssumption DEF Approve, OtherType
  <2>3. OtherType'
    BY <1>1, <1>2, <2>1, <2>2 DEF OtherType
  <2>4. Waiting'
    BY <1>1, <1>2, <2>1 DEF IInv, Waiting, OtherType
  <2>5. Backed'
    <3>1. \A d \in Call \ {c} : InHand(d)' = InHand(d)
      BY <1>1, <1>2, <2>1 DEF InHand, OtherType
    <3>2. InHand(c)' \in {0, 1} /\ \A d \in Call : InHand(d) \in {0, 1}
      BY DEF InHand
    <3>3. \A d \in Call : Confirmed(d)' = Confirmed(d) /\ Confirmed(d) \in {0, 1}
      BY <1>2 DEF Confirmed
    <3>4. \A d \in Call : InHand(d)' + Confirmed(d)' <=
                              InHand(d) + Confirmed(d) + (IF d = c THEN 1 ELSE 0)
      BY <3>1, <3>2, <3>3
    <3>. QED
      BY <1>2, <2>1, <3>4, GrantBacks DEF IInv
  <2>. QED
    BY <2>3, <2>4, <2>5
<1>5. ASSUME NEW c \in Call, Deny(c)
      PROVE  OtherType' /\ Waiting' /\ Backed'
  <2>1. /\ decided' = [decided EXCEPT ![c] = "no"] /\ owners' = owners \ {c}
        /\ UNCHANGED <<rules, granted>>
    BY <1>5 DEF Deny
  <2>2. OtherType'
    BY <1>1, <1>2, <2>1 DEF OtherType
  <2>3. Waiting'
    BY <1>1, <1>2, <1>5, <2>1 DEF IInv, Waiting, OtherType, Deny
  <2>4. \A d \in Call : /\ InHand(d)' <= InHand(d) /\ InHand(d) \in Nat /\ InHand(d)' \in Nat
                        /\ Confirmed(d)' = Confirmed(d) /\ Confirmed(d) \in Nat
    BY <1>1, <1>2, <2>1 DEF InHand, Confirmed, OtherType
  <2>5. Backed'
    BY <1>1, <1>2, <2>1, <2>4 DEF IInv, Backed, OtherType
  <2>. QED
    BY <2>2, <2>3, <2>5
<1>6. ASSUME ClearRules
      PROVE  OtherType' /\ Waiting' /\ Backed'
  BY <1>1, <1>2, <1>6 DEF ClearRules, OtherType, IInv, Waiting, Backed, InHand, Confirmed
<1>7. OtherType' /\ Waiting' /\ Backed'
  BY <1>4, <1>5, <1>6 DEF Decision
<1>8. TypeOK'
  BY <1>1, <1>2, <1>7 DEF TypeOK, Loops, Rows, OtherType
<1>. QED
  BY <1>3, <1>7, <1>8 DEF IInv, TypeInv

\* What starting the tool of c for p does to the loops.
LEMMA SpawnsIs ==
    ASSUME TypeInv, NEW c \in Call, NEW p \in Stream \cup {Replayer} \cup Sub,
           p \in Sub => ToolOf[c] # "Task",
           NEW w \in Sub, Slot(c, w)
    PROVE  /\ Spawns(c, p, w) \in [Agent -> Loops]
           /\ \A b \in Agent : \/ Spawns(c, p, w)[b] = loop[b]
                               \/ /\ b \in Sub /\ loop[b].at \in Steady
                                  /\ Spawns(c, p, w)[b] = [NoLoop EXCEPT !.at = "ready",
                                                                         !.parent = p]
<1>1. loop \in [Agent -> Loops] /\ w \in Agent
  BY TypeParts DEF TypeInv, Agent
<1>2. CASE ToolOf[c] # "Task"
  <2>1. Spawns(c, p, w) = [loop EXCEPT ![w] = loop[w]]
    BY <1>2 DEF Spawns
  <2>. QED
    BY <1>1, <2>1
<1>3. CASE ToolOf[c] = "Task"
  <2>. DEFINE r == [NoLoop EXCEPT !.at = "ready", !.parent = p]
  <2>1. r \in Loops
    BY <1>3, NoBatch DEF NoLoop, Loops, Places, Yields
  <2>2. Spawns(c, p, w) = [loop EXCEPT ![w] = r]
    BY <1>3 DEF Spawns
  <2>3. loop[w].at \in Steady
    BY <1>3 DEF Slot, TypeInv, Shape
  <2>. HIDE DEF r
  <2>4. Spawns(c, p, w) \in [Agent -> Loops]
    BY <1>1, <2>1, <2>2
  <2>5. \A b \in Agent : Spawns(c, p, w)[b] = IF b = w THEN r ELSE loop[b]
    BY <1>1, <2>2
  <2>. QED
    BY <2>3, <2>4, <2>5 DEF r
<1>. QED
  BY <1>2, <1>3

\* The loop runs the tool of the call at hand.
LEMMA ExecuteStep ==
    ASSUME IInv, NEW a \in Agent, Execute(a)
    PROVE  IInv'
<1>0. PICK c \in Call : c = Head(loop[a].todo)
  BY TypeParts, LoopFields, BatchTail DEF IInv, TypeInv, Shape, HasCall, Execute
<1>1. /\ loop \in [Agent -> Loops] /\ ckpt \in Rows /\ OtherType
      /\ loop[a].todo \in Batches /\ loop[a].todo # <<>> /\ loop[a].at = "exec"
      /\ c = Head(loop[a].todo) /\ c \in Todo(a)
  BY <1>0, TypeParts, LoopFields, BatchTail DEF IInv, TypeInv, Shape, HasCall, Execute, Todo
<1>2. /\ ran' = [ran EXCEPT ![c] = @ + 1]
      /\ UNCHANGED <<mode, ckpt, owners, decided, rules, replay, replays, raced, crashes, issued,
                     granted>>
  BY <1>0 DEF Execute, approvalVars, replayVars
<1>3. PICK w \in Sub : Slot(c, w) /\ loop' = [Spawns(c, a, w) EXCEPT ![a].at = "running"]
  BY <1>0 DEF Execute
<1>4. /\ loop' \in [Agent -> Loops] /\ Others(a) /\ loop'[a].at = "running" /\ Keeps(a)
  <2>1. a \in Sub => ToolOf[c] # "Task"
    BY <1>1 DEF IInv, TypeInv, Shape
  <2>2. a \in Stream \cup {Replayer} \cup Sub /\ a # Nobody
    BY PartyAssumption DEF Agent
  <2>3. /\ Spawns(c, a, w) \in [Agent -> Loops]
        /\ \A b \in Agent : \/ Spawns(c, a, w)[b] = loop[b]
                            \/ /\ b \in Sub /\ loop[b].at \in Steady
                               /\ Spawns(c, a, w)[b] = [NoLoop EXCEPT !.at = "ready",
                                                                      !.parent = a]
    BY <1>1, <1>3, <2>1, <2>2, SpawnsIs DEF IInv
  <2>4. Spawns(c, a, w)[a] = loop[a]
    BY <1>1, <2>3 DEF Steady, Ended
  <2>. DEFINE r == [loop[a] EXCEPT !.at = "running"]
  <2>5. /\ r \in Loops /\ r.at = "running" /\ r.todo = loop[a].todo /\ r.asked = loop[a].asked
        /\ r.answered = loop[a].answered /\ r.got = loop[a].got /\ r.parent = loop[a].parent
    BY <1>1 DEF Loops, Places
  <2>6. loop' = [Spawns(c, a, w) EXCEPT ![a] = r]
    BY <1>3, <2>4
  <2>. HIDE DEF r
  <2>7. loop' \in [Agent -> Loops] /\ \A b \in Agent : loop'[b] = IF b = a THEN r
                                                                  ELSE Spawns(c, a, w)[b]
    BY <2>3, <2>5, <2>6
  <2>8. ASSUME NEW b \in Agent \ {a} PROVE loop'[b] = loop[b] \/ Reset(b)
    <3>1. CASE loop'[b] = [NoLoop EXCEPT !.at = "ready", !.parent = a] /\ b \in Sub
      BY <2>2, <3>1 DEF Reset, NoLoop
    <3>. QED
      BY <2>3, <2>7, <3>1
  <2>. QED
    BY <2>5, <2>7, <2>8 DEF Others, Keeps
<1>5. Within(a)
  BY <1>1, <1>2, <1>4 DEF Within, Along, Writes, Keeps, Live, HasCall, Busy, Settles, Checked,
     Steady, Ended, replayVars
<1>6. TypeInv'
  <2>1. OtherType'
    BY <1>1, <1>2 DEF OtherType
  <2>. QED
    BY <1>5, <2>1, WithinType DEF IInv
<1>7. Covered' /\ History'
  BY <1>5, WithinCovered, WithinHistory DEF IInv
<1>8. \A b \in Agent : Todo(b)' \subseteq Todo(b)
  BY <1>5, WithinTodo DEF IInv
<1>9. \A d \in Call \ {c} : ran'[d] = ran[d]
  BY <1>1, <1>2 DEF OtherType
<1>10. Issued'
  BY <1>1, <1>2, <1>8, <1>9 DEF IInv, Issued
<1>11. \A b \in Agent \ {a} : loop'[b] = loop[b] \/ (b \in Sub /\ loop'[b].at # "exec")
  BY <1>4 DEF Others, Reset, Steady, Ended
<1>12. Waiting'
  BY <1>1, <1>2, <1>4, <1>11, PartyAssumption DEF IInv, Waiting, Agent
<1>13. Backed'
  <2>1. InHand(c) = 1 /\ decided[c] = "none"
    BY <1>1, DecidedWaits DEF InHand, IInv, HasCall
  <2>2. \A b \in Agent : loop'[b].at = "exec" => loop'[b] = loop[b] /\ b # a
    BY <1>4, <1>11
  <2>3. InHand(c)' = 0
    <3>1. \A b \in Agent : ~(loop'[b].at = "exec" /\ Head(loop'[b].todo) = c)
      BY <1>1, <2>2, OneLoopPerCall DEF IInv, HasCall
    <3>. QED
      BY <1>2, <2>1, <3>1 DEF InHand
  <2>4. \A d \in Call : InHand(d)' <= InHand(d) /\ InHand(d) \in Nat /\ InHand(d)' \in Nat
    BY <1>2, <2>2 DEF InHand
  <2>5. \A d \in Call : Confirmed(d)' = Confirmed(d) /\ Confirmed(d) \in Nat
    BY <1>2 DEF Confirmed
  <2>6. \A d \in Call : ran[d] \in Nat /\ granted[d] \in Nat
    BY <1>1 DEF OtherType
  <2>7. ran'[c] = ran[c] + 1
    BY <1>1, <1>2 DEF OtherType
  <2>. QED
    BY <1>2, <1>9, <2>1, <2>3, <2>4, <2>5, <2>6, <2>7 DEF IInv, Backed
<1>14. Unrun'
  <2>. SUFFICES ASSUME ~raced
                PROVE  Unrun'
    BY <1>2 DEF Unrun
  <2>1. replay'.at # "idle" =>
            replay'.row.pending = ckpt'.pending /\ \A s \in Stream : ~Live(s)'
    BY <1>2, <1>5, PartyAssumption DEF IInv, Unrun, Within, Live, Others, Reset, Agent
  <2>2. \A b \in Agent : Range(ckpt'.pending) \cap Todo(b)' # {} => ckpt'.by = b
    BY <1>2, <1>8 DEF IInv, Unrun
  <2>3. ASSUME NEW b \in Agent, NEW d \in Todo(b)'
        PROVE  \/ ran'[d] = 0
               \/ loop'[b].at \in {"running", "fail"} /\ d = Head(loop'[b].todo)
    <3>1. d \in Todo(b) /\ d \in Call
      BY <1>1, <1>8, LoopFields, BatchIsSeq DEF Todo
    <3>2. CASE b = a
      BY <1>1, <1>4, <1>9, <3>1, <3>2 DEF IInv, Unrun, Keeps
    <3>3. CASE b # a
      <4>1. d # c
        BY <1>1, <3>1, <3>3 DEF IInv, Issued
      <4>2. loop'[b] = loop[b]
        BY <1>4, <2>3, <3>3, NoBatch DEF Others, Reset, Todo
      <4>. QED
        BY <1>9, <3>1, <4>1, <4>2 DEF IInv, Unrun
    <3>. QED
      BY <3>2, <3>3
  <2>4. ASSUME ckpt'.pending # <<>>, NEW d \in Range(Tail(ckpt'.pending))
        PROVE  ran'[d] = 0
    <3>1. /\ ckpt.pending \in Batches /\ ckpt.pending # <<>> /\ d \in Range(Tail(ckpt.pending))
          /\ ckpt.by \in Stream \cup {Replayer, Nobody}
      BY <1>1, <1>2, <2>4 DEF Rows
    <3>2. d \in Range(ckpt.pending) /\ d \in Call /\ d # Head(ckpt.pending)
      BY <3>1, BatchTail, BatchIsSeq
    <3>3. ASSUME d = c PROVE FALSE
      <4>1. ckpt.by = a /\ a \in Stream
        BY <1>1, <3>1, <3>2, <3>3, PartyAssumption DEF IInv, Unrun
      <4>. QED
        BY <1>1, <3>2, <3>3, <4>1 DEF IInv, Covered, Checked
    <3>. QED
      BY <1>9, <3>1, <3>2, <3>3 DEF IInv, Unrun
  <2>. QED
    BY <1>2, <2>1, <2>2, <2>3, <2>4 DEF Unrun
<1>. QED
  BY <1>6, <1>7, <1>10, <1>12, <1>13, <1>14 DEF IInv

----------------------------------------------------------------------------
(* Turns and requests.                                                      *)

\* A turn of the model issues new calls, or fails.
LEMMA ModelTurnStep ==
    ASSUME IInv, NEW a \in Agent, ModelTurn(a)
    PROVE  IInv'
<1>1. /\ loop \in [Agent -> Loops] /\ ckpt \in Rows /\ OtherType
      /\ loop[a] \in Loops /\ loop[a].at \in {"ready", "model"}
      /\ UNCHANGED <<mode, ckpt, owners, decided, rules, replay, replays, raced, crashes, granted,
                     ran>>
  BY TypeParts DEF IInv, TypeInv, ModelTurn, approvalVars, replayVars
<1>2. CASE Goto(a, "fail") /\ UNCHANGED issued
  <2>1. Local(a)
    BY <1>1, <1>2, TurnsAreLocal DEF IInv, approvalVars, replayVars
  <2>. QED
    BY <2>1, LocalStep
<1>3. ASSUME NEW calls \in Batches, Range(calls) \cap issued = {},
             a \in Sub => "Task" \notin {ToolOf[c] : c \in Range(calls)},
             issued' = issued \cup Range(calls),
             Becomes(a, [loop[a] EXCEPT !.at = "turn", !.turn = @ + 1, !.todo = calls,
                                        !.asked = @ \cup Range(calls), !.got = {}])
      PROVE  IInv'
  <2>. DEFINE r == [loop[a] EXCEPT !.at = "turn", !.turn = @ + 1, !.todo = calls,
                                   !.asked = @ \cup Range(calls), !.got = {}]
  <2>1. Range(calls) \subseteq Call
    BY BatchIsSeq
  <2>2. /\ r \in Loops /\ r.at = "turn" /\ r.todo = calls /\ r.parent = loop[a].parent
        /\ r.asked = loop[a].asked \cup Range(calls) /\ r.answered = loop[a].answered
        /\ r.got = {}
    <3>1. loop[a].turn + 1 \in Nat /\ loop[a].asked \cup Range(calls) \in SUBSET Call
      BY <1>1, <2>1, LoopFields
    <3>2. r \in Loops
      BY <1>1, <3>1 DEF Loops, Places
    <3>. QED
      BY <1>1, <3>2 DEF Loops
  <2>. HIDE DEF r
  <2>3. loop' = [loop EXCEPT ![a] = r]
    BY <1>3, <2>2 DEF Becomes, Settled, Ended, Yields, r
  <2>4. loop' \in [Agent -> Loops] /\ \A b \in Agent : loop'[b] = IF b = a THEN r ELSE loop[b]
    BY <1>1, <2>2, <2>3
  <2>5. OtherType'
    BY <1>1, <1>3, <2>1 DEF OtherType
  <2>6. TypeInv'
    <3>1. TypeOK'
      BY <1>1, <2>4, <2>5 DEF TypeOK, Loops, Rows, OtherType
    <3>2. RowType'
      BY <1>1 DEF IInv, TypeInv, RowType
    <3>3. Shape'
      BY <1>1, <1>3, <2>2, <2>4
         DEF IInv, TypeInv, Shape, Todo, HasCall, Steady, Ended, Agent
    <3>. QED
      BY <3>1, <3>2, <3>3 DEF TypeInv
  <2>7. Todo(a)' = Range(calls) /\ \A b \in Agent \ {a} : Todo(b)' = Todo(b)
    BY <2>2, <2>4 DEF Todo
  <2>8. Issued'
    <3>1. ASSUME NEW b \in Agent, NEW d \in Agent, b # d
          PROVE  Todo(b)' \cap Todo(d)' = {}
      BY <1>3, <2>7, <3>1 DEF IInv, Issued
    <3>2. \A b \in Agent : Todo(b)' \subseteq issued'
      BY <1>3, <2>7 DEF IInv, Issued
    <3>. QED
      BY <1>1, <1>3, <3>1, <3>2 DEF IInv, Issued
  <2>9. Waiting'
    BY <1>1, <2>4, PartyAssumption DEF IInv, Waiting, Agent
  <2>10. Backed'
    BY <1>1, <2>2, <2>4 DEF IInv, Backed, InHand, Confirmed
  <2>11. Covered'
    BY <1>1, <2>2, <2>4 DEF IInv, Covered, Checked, Agent
  <2>12. Unrun'
    <3>. SUFFICES ASSUME ~raced
                  PROVE  Unrun'
      BY <1>1 DEF Unrun
    <3>1. replay'.at # "idle" =>
              replay'.row.pending = ckpt'.pending /\ \A s \in Stream : ~Live(s)'
      BY <1>1, <2>4 DEF IInv, Unrun, Live, Agent, Ended
    <3>2. \A b \in Agent : Range(ckpt'.pending) \cap Todo(b)' # {} => ckpt'.by = b
      BY <1>1, <1>3, <2>7 DEF IInv, Unrun, Issued
    <3>3. ASSUME NEW b \in Agent, NEW c \in Todo(b)'
          PROVE  \/ ran'[c] = 0
                 \/ loop'[b].at \in {"running", "fail"} /\ c = Head(loop'[b].todo)
      BY <1>1, <1>3, <2>1, <2>4, <2>7 DEF IInv, Unrun, Issued
    <3>. QED
      BY <1>1, <3>1, <3>2, <3>3 DEF IInv, Unrun
  <2>13. History'
    <3>. SUFFICES ASSUME replays = 0
                  PROVE  History'
      BY <1>1 DEF History
    <3>1. loop[a].asked \subseteq loop[a].answered
      BY <1>1 DEF IInv, History
    <3>2. loop'[a].asked \subseteq loop'[a].answered \cup loop'[a].got \cup Todo(a)'
      BY <2>2, <2>4, <2>7, <3>1
    <3>. QED
      BY <1>1, <2>2, <2>4, <2>7, <3>2 DEF IInv, History, HasCall
  <2>. QED
    BY <2>6, <2>8, <2>9, <2>10, <2>11, <2>12, <2>13 DEF IInv
<1>. QED
  BY <1>2, <1>3 DEF ModelTurn

\* A request arrives.
LEMMA ArrivesStep ==
    ASSUME IInv, NEW s \in Stream, StartFresh(s) \/ StartResume(s)
    PROVE  IInv'
<1>1. /\ loop \in [Agent -> Loops] /\ ckpt \in Rows /\ OtherType /\ s \in Agent
  BY TypeParts DEF IInv, TypeInv, Agent
<1>2. PICK calls \in SUBSET Call, results \in SUBSET Call :
        /\ Arrives(s, calls, results)
        /\ calls = {} \/ ckpt.status = "ready_to_resume"
  BY <1>1 DEF StartFresh, StartResume, Rows
<1>3. /\ loop[s].at = "idle" /\ raced' = (raced \/ replay.at # "idle")
      /\ UNCHANGED <<mode, ckpt, owners, decided, rules, replay, replays, crashes, issued,
                     granted, ran>>
  BY <1>2 DEF Arrives, approvalVars
<1>. DEFINE r == [NoLoop EXCEPT !.at = "start", !.asked = calls, !.answered = results]
<1>4. /\ r \in Loops /\ r.at = "start" /\ r.todo = <<>> /\ r.asked = calls
      /\ r.answered = results
  BY NoBatch DEF Loops, NoLoop, Places
<1>. HIDE DEF r
<1>5. loop' \in [Agent -> Loops] /\ \A b \in Agent : loop'[b] = IF b = s THEN r ELSE loop[b]
  <2>1. loop' = [loop EXCEPT ![s] = r]
    BY <1>2, <1>4 DEF Arrives, Becomes, Settled, Ended, Yields, r
  <2>. QED
    BY <1>1, <1>4, <2>1
<1>6. OtherType'
  BY <1>1, <1>3 DEF OtherType
<1>7. Todo(s)' = {} /\ \A b \in Agent \ {s} : Todo(b)' = Todo(b)
  BY <1>1, <1>4, <1>5, NoBatch DEF Todo
<1>8. TypeInv'
  <2>1. TypeOK'
    BY <1>1, <1>3, <1>5, <1>6 DEF TypeOK, Loops, Rows, OtherType
  <2>2. RowType'
    BY <1>3 DEF IInv, TypeInv, RowType
  <2>3. Shape'
    BY <1>1, <1>4, <1>5, <1>7, PartyAssumption
       DEF IInv, TypeInv, Shape, HasCall, Steady, Ended, Agent
  <2>. QED
    BY <2>1, <2>2, <2>3 DEF TypeInv
<1>9. Issued'
  BY <1>1, <1>3, <1>7 DEF IInv, Issued
<1>10. Waiting'
  BY <1>1, <1>3, <1>4, <1>5 DEF IInv, Waiting, Agent
<1>11. Backed'
  BY <1>1, <1>3, <1>4, <1>5 DEF IInv, Backed, InHand, Confirmed
<1>12. Covered'
  BY <1>1, <1>3, <1>4, <1>5 DEF IInv, Covered, Checked, Agent
<1>13. Unrun'
  BY <1>1, <1>3, <1>5, <1>7 DEF IInv, Unrun
<1>14. History'
  BY <1>1, <1>2, <1>3, <1>4, <1>5, <1>7 DEF IInv, History, HasCall
<1>. QED
  BY <1>8, <1>9, <1>10, <1>11, <1>12, <1>13, <1>14 DEF IInv

----------------------------------------------------------------------------
(* Replays and restarts.                                                    *)

\* The owner confirms the replay of the oldest call of the checkpoint.
LEMMA ReplayReadStep ==
    ASSUME IInv, NEW c \in Call, ReplayRead(c)
    PROVE  IInv'
<1>1. /\ loop \in [Agent -> Loops] /\ ckpt \in Rows /\ OtherType
      /\ UNCHANGED <<mode, ckpt, loop, owners, decided, rules, crashes, issued, ran>>
      /\ replay.at = "idle" /\ ckpt.pending # <<>> /\ Head(ckpt.pending) = c
      /\ replay' = [at |-> "exec", row |-> [ckpt EXCEPT !.pending = ckpt.pending]]
      /\ replays' = replays + 1 /\ replays < MaxReplays
      /\ raced' = (raced \/ \E s \in Stream : Live(s))
      /\ granted' = [granted EXCEPT ![c] = @ + 1]
  BY TypeParts DEF IInv, TypeInv, ReplayRead, Accepted, approvalVars
<1>2. replay'.at = "exec" /\ replay'.row \in Rows /\ replay'.row.pending = ckpt.pending
  BY <1>1 DEF Rows
<1>3. TypeInv'
  <2>1. replays' \in 0..MaxReplays /\ replays' # 0
    BY <1>1, BoundAssumption DEF OtherType
  <2>2. OtherType'
    BY <1>1, <1>2, <2>1 DEF OtherType
  <2>3. TypeOK'
    BY <1>1, <2>2 DEF TypeOK, Loops, Rows, OtherType
  <2>4. RowType'
    BY <1>1, <1>2 DEF RowType, Rows
  <2>5. Shape'
    BY <1>1 DEF IInv, TypeInv, Shape, Todo
  <2>. QED
    BY <2>3, <2>4, <2>5 DEF TypeInv
<1>4. Issued' /\ Waiting' /\ Covered'
  BY <1>1, <1>2 DEF IInv, Issued, Waiting, Covered, Todo
<1>5. Backed'
  <2>1. \A d \in Call : InHand(d)' = InHand(d) /\ InHand(d) \in {0, 1}
    BY <1>1 DEF InHand
  <2>2. \A d \in Call : Confirmed(d) = 0 /\ Confirmed(d)' = IF d = c THEN 1 ELSE 0
    BY <1>1, <1>2 DEF Confirmed
  <2>3. \A d \in Call : InHand(d)' + Confirmed(d)' <=
                            InHand(d) + Confirmed(d) + (IF d = c THEN 1 ELSE 0)
    BY <2>1, <2>2
  <2>4. TypeInv /\ Backed /\ UNCHANGED ran /\ granted' = [granted EXCEPT ![c] = @ + 1]
    BY <1>1 DEF IInv
  <2>. QED
    BY <2>3, <2>4, GrantBacks
<1>6. Unrun'
  BY <1>1, <1>2 DEF IInv, Unrun, Todo, Live
<1>7. History'
  BY <1>1 DEF OtherType, History
<1>. QED
  BY <1>3, <1>4, <1>5, <1>6, <1>7 DEF IInv

\* The confirmed call is executed.
LEMMA ReplayExecuteStep ==
    ASSUME IInv, ReplayExecute
    PROVE  IInv'
<1>1. /\ loop \in [Agent -> Loops] /\ ckpt \in Rows /\ OtherType
      /\ replay.at = "exec" /\ replay.row \in Rows /\ replay.row.pending # <<>>
      /\ replay.row.pending \in Batches
  BY TypeParts DEF IInv, TypeInv, RowType, ReplayExecute, Rows
<1>2. PICK c \in Call : c = Head(replay.row.pending)
  BY <1>1, BatchTail
<1>3. PICK w \in Sub :
        /\ Slot(c, w) /\ loop' = Spawns(c, Replayer, w)
        /\ ran' = [ran EXCEPT ![c] = @ + 1]
        /\ replay' = [replay EXCEPT !.at = "save"]
        /\ UNCHANGED <<mode, ckpt, owners, decided, rules, replays, raced, crashes, issued,
                       granted>>
  BY <1>2 DEF ReplayExecute, approvalVars
<1>4. replay'.at = "save" /\ replay'.row = replay.row
  BY <1>1, <1>3
<1>5. /\ loop' \in [Agent -> Loops]
      /\ \A b \in Agent : loop'[b] = loop[b] \/ (Reset(b) /\ loop[b].at \in Steady
                                                 /\ loop'[b].at = "ready"
                                                 /\ loop'[b].answered = {})
  <2>1. Replayer \in Stream \cup {Replayer} \cup Sub /\ Replayer \notin Sub
    BY PartyAssumption DEF Agent
  <2>2. /\ loop' \in [Agent -> Loops]
        /\ \A b \in Agent : \/ loop'[b] = loop[b]
                            \/ /\ b \in Sub /\ loop[b].at \in Steady
                               /\ loop'[b] = [NoLoop EXCEPT !.at = "ready", !.parent = Replayer]
    <3>1. /\ Spawns(c, Replayer, w) \in [Agent -> Loops]
          /\ \A b \in Agent : \/ Spawns(c, Replayer, w)[b] = loop[b]
                              \/ /\ b \in Sub /\ loop[b].at \in Steady
                                 /\ Spawns(c, Replayer, w)[b] = [NoLoop EXCEPT !.at = "ready",
                                                                        !.parent = Replayer]
      <4>1. TypeInv /\ w \in Sub /\ Slot(c, w) /\ (Replayer \in Sub => ToolOf[c] # "Task")
        BY <1>3, <2>1 DEF IInv
      <4>. QED
        BY <2>1, <4>1, SpawnsIs
    <3>. QED
      BY <1>3, <3>1
  <2>. DEFINE r == [NoLoop EXCEPT !.at = "ready", !.parent = Replayer]
  <2>3. /\ r.at = "ready" /\ r.todo = <<>> /\ r.asked = {} /\ r.answered = {}
        /\ r.parent = Replayer /\ Replayer # Nobody
    BY PartyAssumption DEF NoLoop
  <2>. HIDE DEF r
  <2>4. ASSUME NEW b \in Sub, loop'[b] = r PROVE Reset(b)
    BY <2>3, <2>4 DEF Reset
  <2>. QED
    BY <2>2, <2>3, <2>4 DEF r
<1>6. \A d \in Call \ {c} : ran'[d] = ran[d]
  BY <1>1, <1>3 DEF OtherType
<1>7. \A b \in Agent : Todo(b)' \subseteq Todo(b)
  BY <1>5, NoBatch DEF Reset, Todo
<1>8. TypeInv'
  <2>1. OtherType'
    BY <1>1, <1>3, <1>4 DEF OtherType
  <2>2. TypeOK'
    BY <1>1, <1>3, <1>5, <2>1 DEF TypeOK, Loops, Rows, OtherType
  <2>3. RowType'
    BY <1>1, <1>4 DEF RowType, Rows
  <2>4. Shape'
    BY <1>5, <1>7 DEF IInv, TypeInv, Shape, Reset, HasCall, Steady, Ended, Agent
  <2>. QED
    BY <2>2, <2>3, <2>4 DEF TypeInv
<1>9. c \in Range(replay.row.pending)
  BY <1>1, <1>2, BatchTail
<1>10. Issued'
  BY <1>1, <1>3, <1>4, <1>6, <1>7, <1>9 DEF IInv, Issued
<1>11. Waiting'
  BY <1>3, <1>5, PartyAssumption DEF IInv, Waiting, Reset, Agent
<1>12. Backed'
  <2>1. \A d \in Call : InHand(d)' <= InHand(d) /\ InHand(d) \in Nat /\ InHand(d)' \in Nat
    BY <1>3, <1>5 DEF InHand
  <2>2. \A d \in Call : Confirmed(d)' = 0 /\ Confirmed(d) = IF d = c THEN 1 ELSE 0
    BY <1>1, <1>2, <1>4 DEF Confirmed
  <2>3. \A d \in Call : ran[d] \in Nat /\ granted[d] \in Nat
    BY <1>1 DEF OtherType
  <2>4. ran'[c] = ran[c] + 1
    BY <1>1, <1>3 DEF OtherType
  <2>. QED
    BY <1>3, <1>6, <2>1, <2>2, <2>3, <2>4 DEF IInv, Backed
<1>13. Covered'
  BY <1>3, <1>5, PartyAssumption DEF IInv, Covered, Reset, Agent
<1>14. Unrun'
  <2>. SUFFICES ASSUME ~raced
                PROVE  Unrun'
    BY <1>3 DEF Unrun
  <2>1. replay.row.pending = ckpt.pending /\ \A s \in Stream : ~Live(s)
    BY <1>1 DEF IInv, Unrun
  <2>2. \A s \in Stream : ~Live(s)'
    BY <1>5, <2>1, PartyAssumption DEF Live, Reset, Agent
  <2>3. \A b \in Agent : Range(ckpt'.pending) \cap Todo(b)' # {} => ckpt'.by = b
    BY <1>3, <1>7 DEF IInv, Unrun
  <2>4. ASSUME NEW b \in Agent PROVE c \notin Todo(b)
    <3>1. CASE b \in Stream
      <4>1. loop[b].todo = <<>>
        BY <2>1, <3>1 DEF IInv, TypeInv, Shape, Live, Steady
      <4>. QED
        BY <4>1, NoBatch DEF Todo
    <3>2. CASE b \in Sub
      <4>1. ckpt.by # b
        BY <1>1, <3>2, PartyAssumption DEF Rows, Agent
      <4>. QED
        BY <1>9, <2>1, <4>1 DEF IInv, Unrun
    <3>. QED
      BY <3>1, <3>2 DEF Agent
  <2>5. ASSUME NEW b \in Agent, NEW d \in Todo(b)'
        PROVE  \/ ran'[d] = 0
               \/ loop'[b].at \in {"running", "fail"} /\ d = Head(loop'[b].todo)
    <3>1. loop'[b] = loop[b] /\ d \in Todo(b)
      BY <1>5, <2>5, NoBatch DEF Reset, Todo
    <3>2. d \in Call \ {c}
      BY <1>1, <2>4, <3>1, LoopFields, BatchIsSeq DEF Todo
    <3>. QED
      BY <1>6, <3>1, <3>2 DEF IInv, Unrun
  <2>6. ASSUME NEW d \in Range(Tail(ckpt.pending))
        PROVE  ran'[d] = 0
    <3>1. d \in Call \ {c}
      BY <1>1, <1>2, <2>1, BatchTail, BatchIsSeq
    <3>. QED
      BY <1>1, <1>6, <2>1, <3>1 DEF IInv, Unrun
  <2>. QED
    BY <1>3, <1>4, <2>1, <2>2, <2>3, <2>5, <2>6 DEF Unrun
<1>15. History'
  BY <1>1, <1>3 DEF IInv, History
<1>. QED
  BY <1>8, <1>10, <1>11, <1>12, <1>13, <1>14, <1>15 DEF IInv

\* The row of the replay, one call shorter.
LEMMA ReplayedIs ==
    ASSUME NEW r \in Rows, r.pending # <<>>
    PROVE  /\ Replayed(r) \in Rows /\ Replayed(r).by = Replayer
           /\ Replayed(r).pending = Tail(r.pending)
<1>1. /\ Head(r.pending) \in Call /\ Tail(r.pending) \in Batches /\ r.pending \in Batches
      /\ {"recovery_required", "ready_to_resume"} \subseteq Statuses
  BY BatchTail DEF Rows, Statuses
<1>2. CASE Tail(r.pending) # <<>>
  BY <1>1, <1>2 DEF Replayed, Rows
<1>3. CASE Tail(r.pending) = <<>>
  BY <1>1, <1>3, NoBatch DEF Replayed, Rows
<1>. QED
  BY <1>2, <1>3

\* Its result is written, or the write fails.
LEMMA ReplaySaveStep ==
    ASSUME IInv, ReplaySave
    PROVE  IInv'
<1>1. /\ loop \in [Agent -> Loops] /\ ckpt \in Rows /\ OtherType
      /\ replay.at = "save" /\ replay.row \in Rows /\ replay.row.pending # <<>>
      /\ replay.row.pending \in Batches
  BY TypeParts DEF IInv, TypeInv, RowType, ReplaySave, Rows
<1>2. /\ UNCHANGED <<mode, owners, decided, rules, replays, raced, crashes, issued, granted,
                     ran>>
      /\ replay' = NoReplay /\ NoReplay.at = "idle"
      /\ Reap(Replayer, Replayer, NoLoop)
  BY DEF ReplaySave, approvalVars, NoReplay
<1>3. /\ ckpt' \in Rows
      /\ \/ ckpt' = ckpt
         \/ ckpt'.by = Replayer /\ ckpt'.pending = Tail(replay.row.pending)
  BY <1>1, ReplayedIs DEF ReplaySave
<1>4. /\ loop' \in [Agent -> Loops]
      /\ \A b \in Agent : loop'[b] = loop[b] \/ (Reset(b) /\ loop'[b].at \in Steady)
  <2>1. NoLoop \in Loops /\ NoLoop.at = "idle" /\ NoLoop.todo = <<>> /\ NoLoop.asked = {}
    BY NoBatch DEF NoLoop, Loops, Places
  <2>2. loop' = [x \in Agent |-> IF x \in Children(Replayer) THEN NoLoop ELSE loop[x]]
    BY <1>2, PartyAssumption DEF Reap
  <2>3. \A x \in Children(Replayer) : x \in Sub
    BY DEF Children
  <2>. QED
    BY <1>1, <2>1, <2>2, <2>3 DEF Reset, Steady
<1>5. \A b \in Agent : Todo(b)' \subseteq Todo(b)
  BY <1>4, NoBatch DEF Reset, Todo
<1>6. TypeInv'
  <2>1. OtherType'
    BY <1>1, <1>2 DEF OtherType
  <2>2. TypeOK'
    BY <1>1, <1>3, <1>4, <2>1 DEF TypeOK, Loops, Rows, OtherType
  <2>3. RowType'
    BY <1>2 DEF RowType
  <2>4. Shape'
    BY <1>4, <1>5 DEF IInv, TypeInv, Shape, Reset, HasCall, Steady, Ended, Agent
  <2>. QED
    BY <2>2, <2>3, <2>4 DEF TypeInv
<1>7. Range(Tail(replay.row.pending)) \subseteq Range(replay.row.pending)
  BY <1>1, BatchTail
<1>8. Issued'
  <2>1. Range(ckpt'.pending) \subseteq issued
    BY <1>1, <1>3, <1>7 DEF IInv, Issued
  <2>. QED
    BY <1>2, <1>5, <2>1 DEF IInv, Issued
<1>9. Waiting'
  BY <1>2, <1>4, PartyAssumption DEF IInv, Waiting, Reset, Agent
<1>10. Backed'
  <2>1. \A d \in Call : /\ InHand(d)' <= InHand(d) /\ InHand(d) \in Nat /\ InHand(d)' \in Nat
                        /\ Confirmed(d)' = 0 /\ Confirmed(d) = 0
    BY <1>1, <1>2, <1>4 DEF InHand, Confirmed, Steady, Ended
  <2>. QED
    BY <1>1, <1>2, <2>1 DEF IInv, Backed, OtherType
<1>11. Covered'
  BY <1>3, <1>4, PartyAssumption DEF IInv, Covered, Reset, Agent
<1>12. Unrun'
  <2>. SUFFICES ASSUME ~raced
                PROVE  Unrun'
    BY <1>2 DEF Unrun
  <2>1. replay.row.pending = ckpt.pending /\ \A s \in Stream : ~Live(s)
    BY <1>1 DEF IInv, Unrun
  <2>2. ASSUME NEW b \in Agent, Range(ckpt'.pending) \cap Todo(b)' # {}
        PROVE  ckpt'.by = b
    <3>1. CASE ckpt' = ckpt
      BY <1>5, <2>2, <3>1 DEF IInv, Unrun
    <3>2. CASE ckpt'.pending = Tail(replay.row.pending)
      <4>1. ckpt.by = b
        BY <1>5, <1>7, <2>1, <2>2, <3>2 DEF IInv, Unrun
      <4>2. b \in Stream
        BY <1>1, <4>1, PartyAssumption DEF Rows, Agent
      <4>3. loop[b].todo = <<>>
        BY <2>1, <4>2 DEF IInv, TypeInv, Shape, Live, Steady
      <4>. QED
        BY <1>5, <2>2, <4>3, NoBatch DEF Todo
    <3>. QED
      BY <1>3, <3>1, <3>2
  <2>3. ASSUME NEW b \in Agent, NEW d \in Todo(b)'
        PROVE  \/ ran'[d] = 0
               \/ loop'[b].at \in {"running", "fail"} /\ d = Head(loop'[b].todo)
    <3>1. loop'[b] = loop[b] /\ d \in Todo(b)
      BY <1>4, <2>3, NoBatch DEF Reset, Todo
    <3>. QED
      BY <1>2, <3>1 DEF IInv, Unrun
  <2>4. ASSUME ckpt'.pending # <<>>, NEW d \in Range(Tail(ckpt'.pending))
        PROVE  ran'[d] = 0
    <3>1. CASE ckpt' = ckpt
      BY <1>2, <2>4, <3>1 DEF IInv, Unrun
    <3>2. CASE ckpt'.pending = Tail(replay.row.pending)
      <4>1. d \in Range(Tail(ckpt.pending))
        <5>0. Tail(replay.row.pending) \in Batches
          BY <1>1, BatchTail
        <5>1. Tail(ckpt.pending) = ckpt'.pending
          BY <2>1, <3>2
        <5>2. ckpt'.pending \in Batches \ {<<>>}
          BY <2>4, <3>2, <5>0
        <5>3. Range(Tail(ckpt'.pending)) \subseteq Range(ckpt'.pending)
          BY <5>2, BatchTail
        <5>. QED
          BY <2>4, <5>1, <5>3
      <4>. QED
        BY <1>1, <1>2, <2>1, <4>1 DEF IInv, Unrun
    <3>. QED
      BY <1>3, <3>1, <3>2
  <2>. QED
    BY <1>2, <2>2, <2>3, <2>4 DEF Unrun
<1>13. History'
  BY <1>1, <1>2 DEF IInv, History
<1>. QED
  BY <1>6, <1>8, <1>9, <1>10, <1>11, <1>12, <1>13 DEF IInv

\* A restart.
LEMMA CrashStep ==
    ASSUME IInv, Crash
    PROVE  IInv'
<1>1. /\ loop \in [Agent -> Loops] /\ ckpt \in Rows /\ OtherType
      /\ owners' = {} /\ decided' = [c \in Call |-> "none"]
      /\ rules' = {r \in rules : r[2] = "workspace"}
      /\ replay' = NoReplay /\ NoReplay.at = "idle"
      /\ crashes < MaxCrashes /\ crashes' = crashes + 1
      /\ UNCHANGED <<mode, ckpt, replays, raced, issued, granted, ran>>
  BY TypeParts DEF IInv, TypeInv, Crash, NoReplay
<1>2. /\ loop' \in [Agent -> Loops]
      /\ \A b \in Agent : loop'[b].at \in Steady /\ loop'[b].todo = <<>>
  <2>. DEFINE over == [NoLoop EXCEPT !.at = "over"]
  <2>1. /\ NoLoop \in Loops /\ NoLoop.at = "idle" /\ NoLoop.todo = <<>>
        /\ over \in Loops /\ over.at = "over" /\ over.todo = <<>>
    BY NoBatch DEF NoLoop, Loops, Places, Ended
  <2>2. \A b \in Agent : ~Live(b) => loop[b].at \in Steady /\ loop[b].todo = <<>>
    BY DEF IInv, TypeInv, Shape, Live, Steady
  <2>3. loop' = [b \in Agent |-> IF b \in Stream /\ Live(b) THEN over
                                 ELSE IF b \in Sub THEN NoLoop ELSE loop[b]]
    BY DEF Crash
  <2>. HIDE DEF over
  <2>. QED
    BY <1>1, <2>1, <2>2, <2>3 DEF Agent, Steady, Ended
<1>3. \A b \in Agent : Todo(b)' = {}
  BY <1>2, NoBatch DEF Todo
<1>4. TypeInv'
  <2>1. OtherType'
    BY <1>1, BoundAssumption DEF OtherType
  <2>2. TypeOK'
    BY <1>1, <1>2, <2>1 DEF TypeOK, Loops, Rows, OtherType
  <2>3. RowType' /\ Shape'
    BY <1>1, <1>2, <1>3 DEF RowType, Shape, HasCall, Steady, Ended, Agent
  <2>. QED
    BY <2>2, <2>3 DEF TypeInv
<1>5. Issued' /\ Waiting' /\ Covered' /\ Unrun'
  BY <1>1, <1>2, <1>3 DEF IInv, Issued, Waiting, Covered, Checked, Unrun, Steady, Ended, Agent
<1>6. Backed'
  <2>1. \A d \in Call : /\ InHand(d)' = 0 /\ Confirmed(d)' = 0
                        /\ InHand(d) \in Nat /\ Confirmed(d) \in Nat
    BY <1>1, <1>2 DEF InHand, Confirmed, Steady, Ended
  <2>. QED
    BY <1>1, <2>1 DEF IInv, Backed, OtherType
<1>7. History'
  BY <1>1, <1>2 DEF IInv, History, HasCall, Steady, Ended
<1>. QED
  BY <1>4, <1>5, <1>6, <1>7 DEF IInv

----------------------------------------------------------------------------
(* The theorems.                                                            *)

LEMMA InitInv == Init => IInv
<1>. SUFFICES ASSUME Init
              PROVE  IInv
  OBVIOUS
<1>1. NoLoop \in Loops /\ NoCkpt \in Rows /\ NoReplay.at = "idle"
  BY NoBatch DEF NoLoop, Loops, Places, NoCkpt, Rows, NoReplay
<1>2. /\ \A a \in Agent : loop[a].at = "idle" /\ loop[a].todo = <<>> /\ Todo(a) = {}
      /\ loop \in [Agent -> Loops] /\ ckpt \in Rows
      /\ ckpt.pending = <<>> /\ ckpt.status = "none" /\ ckpt.by = Nobody
      /\ replay.at = "idle"
  BY <1>1, NoBatch DEF Init, NoLoop, NoCkpt, Todo
<1>3. OtherType
  <2>1. replays \in 0..MaxReplays /\ crashes \in 0..MaxCrashes
    BY BoundAssumption DEF Init
  <2>2. granted \in [Call -> Nat] /\ ran \in [Call -> Nat]
        /\ decided \in [Call -> {"none", "yes", "no"}]
    BY DEF Init
  <2>. QED
    BY <1>2, <2>1, <2>2, CallAssumption DEF Init, OtherType
<1>4. TypeInv
  <2>1. TypeOK
    BY <1>2, <1>3, TypeParts
  <2>2. RowType /\ Shape
    BY <1>2 DEF RowType, Shape, HasCall, Steady, Agent
  <2>. QED
    BY <2>1, <2>2 DEF TypeInv
<1>5. Issued /\ Waiting /\ Covered /\ Unrun /\ History
  BY <1>2, <1>3, NoBatch
     DEF Init, Issued, Waiting, Covered, Checked, Unrun, History, HasCall, OtherType, Agent
<1>6. Backed
  BY <1>2 DEF Init, Backed, InHand, Confirmed
<1>. QED
  BY <1>4, <1>5, <1>6 DEF IInv

LEMMA NextInv == IInv /\ [Next]_vars => IInv'
<1>. SUFFICES ASSUME IInv, [Next]_vars
              PROVE  IInv'
  OBVIOUS
<1>1. ASSUME NEW a \in Agent, LoopStep(a) \/ Raise(a)
      PROVE  IInv'
  <2>1. CASE \/ SaveTurn(a) \/ SaveTool(a) \/ SaveRunning(a) \/ SaveSynthesizing(a)
    BY <2>1, SavesAreLocal, LocalStep DEF IInv
  <2>2. CASE Raise(a) \/ EndTurn(a) \/ Summarise(a) \/ SaveEnd(a)
    BY <2>2, MovesAreLocal, LocalStep DEF IInv
  <2>3. CASE Return(a)
    BY <2>3, ReturnIsLocal, LocalStep DEF IInv
  <2>4. CASE ModelTurn(a)
    BY <2>4, ModelTurnStep
  <2>5. CASE Execute(a)
    BY <2>5, ExecuteStep
  <2>6. CASE Gate(a)
    <3>1. CASE Becomes(a, WithResult(a)) /\ UNCHANGED granted
      <4>1. Local(a)
        BY <2>6, <3>1, TurnsAreLocal DEF Gate, IInv
      <4>. QED
        BY <4>1, LocalStep
    <3>2. CASE Goto(a, "ask") /\ UNCHANGED granted
      <4>1. Local(a)
        BY <2>6, <3>2, TurnsAreLocal DEF Gate, IInv
      <4>. QED
        BY <4>1, LocalStep
    <3>3. CASE /\ Goto(a, "exec")
               /\ granted' = [granted EXCEPT ![Head(loop[a].todo)] = @ + 1]
      BY <2>6, <3>3, AllowedStep DEF Gate
    <3>. QED
      BY <2>6, <3>1, <3>2, <3>3 DEF Gate
  <2>. QED
    BY <1>1, <2>1, <2>2, <2>3, <2>4, <2>5, <2>6 DEF LoopStep
<1>2. ASSUME NEW s \in Stream,
             StartFresh(s) \/ StartResume(s) \/ StreamStep(s) \/ Disconnect(s)
      PROVE  IInv'
  <2>1. s \in Agent
    BY DEF Agent
  <2>2. CASE StartFresh(s) \/ StartResume(s)
    BY <2>2, ArrivesStep
  <2>3. CASE SaveStart(s)
    BY <2>1, <2>3, SavesAreLocal, LocalStep DEF IInv
  <2>4. CASE Disconnect(s)
    BY <2>1, <2>4, MovesAreLocal, LocalStep DEF IInv
  <2>5. CASE Ask(s)
    BY <2>5, AskStep
  <2>6. CASE WaitReturns(s) \/ WaitTimesOut(s)
    BY <2>6, WaitStep
  <2>. QED
    BY <1>2, <2>2, <2>3, <2>4, <2>5, <2>6 DEF StreamStep
<1>3. CASE Decision \/ ClearRules
  BY <1>3, DecisionStep
<1>4. CASE (\E c \in Call : ReplayRead(c)) \/ ReplayExecute \/ ReplaySave \/ Crash
  BY <1>4, ReplayReadStep, ReplayExecuteStep, ReplaySaveStep, CrashStep
<1>5. CASE UNCHANGED vars
  <2>1. /\ UNCHANGED <<mode, ckpt, loop, owners, decided, rules, replay, replays, crashes>>
        /\ UNCHANGED <<raced, issued, granted, ran>>
    BY <1>5 DEF vars, approvalVars, replayVars
  <2>2. TypeInv'
    BY <2>1 DEF IInv, TypeInv, TypeOK, RowType, Shape, Todo
  <2>3. Issued' /\ Waiting' /\ Backed'
    BY <2>1 DEF IInv, Issued, Waiting, Backed, InHand, Confirmed, Todo
  <2>4. Covered' /\ Unrun' /\ History'
    BY <2>1 DEF IInv, Covered, Unrun, History, Todo, Live
  <2>. QED
    BY <2>2, <2>3, <2>4 DEF IInv
<1>. QED
  BY <1>1, <1>2, <1>3, <1>4, <1>5 DEF Next

LEMMA Invariance == Spec => []IInv
BY InitInv, NextInv, PTL DEF Spec

\* Every variable of the harness keeps its type.
THEOREM TypeCorrect == Spec => []TypeOK
<1>1. IInv => TypeOK
  BY DEF IInv, TypeInv
<1>. QED
  BY <1>1, Invariance, PTL

\* Every execution of a tool uses up a permission that was given for that call: the harness
\* implements the ledger of tool calls.
THEOREM LedgerImplemented == Spec => LedgerSpec
<1>1. Init => Ledger!Init
  BY DEF Init, Ledger!Init
<1>2. IInv /\ [Next]_vars => [Ledger!Next]_(Ledger!vars)
  <2>. SUFFICES ASSUME IInv, [Next]_vars
                PROVE  [Ledger!Next]_(Ledger!vars)
    OBVIOUS
  <2>. USE DEF Ledger!Next, Ledger!Grant, Ledger!Execute, Ledger!vars
  <2>1. /\ loop \in [Agent -> Loops] /\ OtherType
        /\ \A c \in Call : ran[c] \in Nat /\ granted[c] \in Nat
    BY TypeParts DEF IInv, TypeInv, OtherType
  <2>2. ASSUME NEW a \in Agent, Execute(a)
        PROVE  Ledger!Next
    <3>1. PICK c \in Call : c = Head(loop[a].todo) /\ loop[a].at = "exec"
      BY <2>1, <2>2, LoopFields, BatchTail DEF IInv, TypeInv, Shape, HasCall, Execute
    <3>2. InHand(c) = 1 /\ Confirmed(c) \in Nat
      BY <3>1 DEF InHand, Confirmed
    <3>3. ran[c] < granted[c]
      BY <2>1, <3>2 DEF IInv, Backed
    <3>. QED
      BY <2>2, <3>1, <3>3 DEF Execute
  <2>3. ASSUME ReplayExecute
        PROVE  Ledger!Next
    <3>1. PICK c \in Call : c = Head(replay.row.pending) /\ replay.at = "exec"
      BY <2>3, BatchTail DEF IInv, TypeInv, RowType, ReplayExecute
    <3>2. Confirmed(c) = 1 /\ InHand(c) \in Nat
      BY <3>1 DEF InHand, Confirmed
    <3>3. ran[c] < granted[c]
      BY <2>1, <3>2 DEF IInv, Backed
    <3>. QED
      BY <2>3, <3>1, <3>3 DEF ReplayExecute
  <2>4. ASSUME NEW a \in Agent, Gate(a)
        PROVE  Ledger!Next \/ UNCHANGED <<granted, ran>>
    <3>1. Head(loop[a].todo) \in Call
      BY <2>1, <2>4, LoopFields, BatchTail DEF IInv, TypeInv, Shape, HasCall, Gate
    <3>. QED
      BY <2>4, <3>1 DEF Gate
  <2>5. CASE Decision \/ ClearRules \/ (\E c \in Call : ReplayRead(c))
    BY <2>5 DEF Decision, Approve, Deny, ClearRules, ReplayRead, Accepted
  <2>6. ASSUME NEW a \in Agent, LoopStep(a) \/ Raise(a), ~Execute(a), ~Gate(a)
        PROVE  UNCHANGED <<granted, ran>>
    BY <2>6 DEF LoopStep, Raise, ModelTurn, SaveTurn, SaveTool, Return, EndTurn, SaveRunning,
       SaveSynthesizing, Summarise, SaveEnd, SaveAnd
  <2>7. ASSUME NEW s \in Stream,
               StartFresh(s) \/ StartResume(s) \/ StreamStep(s) \/ Disconnect(s)
        PROVE  UNCHANGED <<granted, ran>>
    BY <2>7 DEF StartFresh, StartResume, Arrives, StreamStep, SaveStart, SaveAnd, Ask,
       WaitReturns, WaitTimesOut, Disconnect
  <2>8. CASE ReplaySave \/ Crash \/ UNCHANGED vars
    BY <2>8 DEF ReplaySave, Crash, vars
  <2>. QED
    BY <2>2, <2>3, <2>4, <2>5, <2>6, <2>7, <2>8 DEF Next
<1>. QED
  BY <1>1, <1>2, Invariance, PTL DEF Spec, LedgerSpec, Ledger!Spec

\* After a restart the checkpoint tells what has happened: the tool that ran is listed first, and
\* none of the calls behind it has run.
THEOREM OutcomeFound == Spec => []RestartFindsOutcome
<1>1. IInv => RestartFindsOutcome
  BY DEF IInv, Covered, Checked, Unrun, RestartFindsOutcome, ToolIsCovered, OnlyOldestMayHaveRun
<1>. QED
  BY <1>1, Invariance, PTL

\* Without replays, the model never gets a history with an unanswered tool call.
THEOREM NoDanglingCall == Spec => []HistoryComplete
<1>1. IInv => HistoryComplete
  BY DEF IInv, History, HistoryComplete
<1>. QED
  BY <1>1, Invariance, PTL
=============================================================================
