---------------------------- MODULE DevHarness ----------------------------
(* The agentic coding loop of agents/dev_harness for one owner and session:  *)
(* model turns, durable checkpoints, the approval of tool calls, subagents,  *)
(* restarts, and the replay and resume endpoints of agents/main.py.          *)
(*                                                                           *)
(* A step is one model call, one write of a checkpoint, one section of the   *)
(* event loop between two awaits, or one effect of a tool.                   *)
EXTENDS Naturals, Sequences, FiniteSets, Functions

CONSTANTS
    Requests,      \* bound: chat requests made for the session
    MaxLive,       \* bound: requests of the session in progress at once
    Sub,           \* slots for subagents
    Call,          \* tool calls (ids are fresh: call_<uuid> or the provider's)
    ToolOf,        \* the tool of a call
    Modes,         \* permission modes the session may have
    Scopes,        \* what an approval is given for: "once", "session", "workspace"
    Replayer, Nobody,
    MaxTurns,      \* DEFAULT_MAX_ITERATIONS
    MaxSubTurns,   \* _MAX_SUBAGENT_ITERS
    BatchSize,     \* bound: tool calls in one model turn
    MaxReplays,    \* bound: confirmed replays
    MaxCrashes,    \* bound: restarts
    DbFails        \* whether writes to Postgres may fail

VARIABLES
    mode,          \* permission mode of the session
    ckpt,          \* the row of dev_harness_checkpoints
    loop,          \* the local state of each stream and subagent
    owners,        \* _approval_owners and _approval_events: calls somebody waits for
    decided,       \* _approval_decisions
    rules,         \* auto-approve rules: pairs of a tool and a scope
    replay,        \* the replay request in progress
    replays, crashes,
    raced,         \* history: a replay and a live loop of the session met
    issued,        \* history: calls that a model has made
    granted,       \* history: how often a call was allowed
    ran            \* history: how often a call was executed

vars == <<mode, ckpt, loop, owners, decided, rules, replay, replays, crashes, raced, issued,
          granted, ran>>

approvalVars == <<owners, decided, rules>>
replayVars == <<replay, replays, raced>>

Stream == 1..Requests
Agent == Stream \cup Sub
TurnsOf(a) == IF a \in Sub THEN MaxSubTurns ELSE MaxTurns
Statuses == {"running", "awaiting_tools", "recovery_required", "ready_to_resume", "completed",
             "failed"}
Batches == {s \in UNION {[1..n -> Call] : n \in 0..BatchSize} : IsInjective(s)}

NoCkpt == [status |-> "none", pending |-> <<>>, asked |-> {}, answered |-> {}, replayed |-> {},
           by |-> Nobody]
NoReplay == [at |-> "idle", row |-> NoCkpt]

\* Where a loop is; the client reads it (a subagent is read by its caller); turns begun; calls of
\* the turn from the current one on; calls of the history and those with a result in it; results
\* of the turn; who waits for it.
NoLoop == [at |-> "idle", attached |-> TRUE, turn |-> 0, todo |-> <<>>, asked |-> {},
           answered |-> {}, got |-> {}, parent |-> Nobody]

Ended == {"over", "error"}
Yields == {"yielded", "gate", "ask", "ready", "summary"}     \* goes on only while it is read
Places == {"idle", "start", "model", "turn", "tool", "wait", "exec", "running", "close", "budget",
           "final", "fail"} \cup Ended \cup Yields
Live(s) == loop[s].at \notin Ended \cup {"idle"}

ASSUME PartyAssumption ==
    /\ Sub \cap Stream = {}
    /\ Replayer \notin Agent /\ Nobody \notin Agent /\ Replayer # Nobody

ASSUME CallAssumption ==
    /\ Call \subseteq DOMAIN ToolOf
    /\ Modes \subseteq {"default", "plan", "acceptEdits", "bypass"}
    /\ Scopes \subseteq {"once", "session", "workspace"}

ASSUME BoundAssumption ==
    {Requests, MaxTurns, MaxSubTurns, BatchSize, MaxReplays, MaxCrashes} \subseteq Nat

TypeOK ==
    /\ mode \in {"default", "plan", "acceptEdits", "bypass"}
    /\ ckpt \in [status : Statuses \cup {"none"}, pending : Batches, asked : SUBSET Call,
                 answered : SUBSET Call, replayed : SUBSET Call,
                 by : Stream \cup {Replayer, Nobody}]
    /\ loop \in [Agent -> [at : Places, attached : BOOLEAN, turn : Nat, todo : Batches,
                           asked : SUBSET Call, answered : SUBSET Call, got : SUBSET Call,
                           parent : Stream \cup {Replayer, Nobody}]]
    /\ owners \subseteq Call
    /\ decided \in [Call -> {"none", "yes", "no"}]
    /\ rules \subseteq Range(ToolOf) \X {"session", "workspace"}
    /\ replay.at \in {"idle", "exec", "save"}
    /\ replays \in 0..MaxReplays /\ crashes \in 0..MaxCrashes
    /\ raced \in BOOLEAN
    /\ issued \subseteq Call
    /\ granted \in [Call -> Nat] /\ ran \in [Call -> Nat]

Init ==
    /\ mode \in Modes
    /\ ckpt = NoCkpt
    /\ loop = [a \in Agent |-> NoLoop]
    /\ owners = {} /\ rules = {}
    /\ decided = [c \in Call |-> "none"]
    /\ replay = NoReplay
    /\ replays = 0 /\ crashes = 0 /\ raced = FALSE
    /\ issued = {}
    /\ granted = [c \in Call |-> 0] /\ ran = [c \in Call |-> 0]

\* A loop that has ended keeps nothing; one that nobody reads ends at its next yield.
Settled(r) ==
    IF r.at \in Ended \/ (r.at \in Yields /\ ~r.attached)
    THEN [NoLoop EXCEPT !.at = IF r.at = "error" THEN "error" ELSE "over"]
    ELSE r

Becomes(a, r) == loop' = [loop EXCEPT ![a] = Settled(r)]
Goto(a, place) == Becomes(a, [loop[a] EXCEPT !.at = place])

-----------------------------------------------------------------------------
(* The stream: _dev_harness_stream around DevHarness.run.                    *)

\* save_checkpoint for the session of a: `ok` is its answer.  It refuses a status it does not
\* know.  Subagents run without checkpoints.
Saved(a, status, pending, ok) ==
    \/ /\ a \in Sub
       /\ ok
       /\ UNCHANGED ckpt
    \/ /\ a \in Stream
       /\ ok
       /\ status \in Statuses
       /\ ckpt' = [status |-> status, pending |-> pending, asked |-> loop[a].asked,
                   answered |-> loop[a].answered, replayed |-> {}, by |-> a]
    \/ /\ a \in Stream
       /\ ~ok
       /\ (status \notin Statuses) \/ DbFails
       /\ UNCHANGED ckpt

\* A chat request; requests are numbered in the order they arrive.
Arrives(s, calls, results) ==
    /\ loop[s].at = "idle"
    /\ \A earlier \in 1..(s - 1) : loop[earlier].at # "idle"
    /\ Cardinality({x \in Stream : Live(x)}) < MaxLive
    /\ Becomes(s, [NoLoop EXCEPT !.at = "start", !.asked = calls, !.answered = results])
    /\ raced' = (raced \/ replay.at # "idle")
    /\ UNCHANGED <<mode, ckpt, approvalVars, replay, replays, crashes, issued, granted, ran>>

\* It comes with a history of its own, or, with dev_resume, takes that of the checkpoint.
StartFresh(s) == Arrives(s, {}, {})
StartResume(s) == ckpt.status = "ready_to_resume" /\ Arrives(s, ckpt.asked, ckpt.answered)

\* A step of a loop that writes a checkpoint and goes on if that worked.
SaveAnd(a, status, pending, next) ==
    /\ \E ok \in BOOLEAN :
        /\ Saved(a, status, pending, ok)
        /\ Goto(a, IF ok THEN next ELSE "error")
    /\ UNCHANGED <<mode, approvalVars, replayVars, crashes, issued, granted, ran>>

\* The first checkpoint of a request replaces whatever the session had.
SaveStart(s) == loop[s].at = "start" /\ SaveAnd(s, "running", <<>>, "ready")

\* A turn of the model: prose and tool calls, or a failure without a provider left.  A subagent
\* has no Task.
ModelTurn(a) ==
    /\ loop[a].at \in {"ready", "model"}
    /\ loop[a].turn < TurnsOf(a)
    /\ \/ \E calls \in Batches :
            /\ Range(calls) \cap issued = {}
            /\ a \in Sub => "Task" \notin {ToolOf[c] : c \in Range(calls)}
            /\ issued' = issued \cup Range(calls)
            /\ Becomes(a, [loop[a] EXCEPT !.at = "turn", !.turn = @ + 1, !.todo = calls,
                                          !.asked = @ \cup Range(calls), !.got = {}])
       \/ /\ Goto(a, "fail")
          /\ UNCHANGED issued
    /\ UNCHANGED <<mode, ckpt, approvalVars, replayVars, crashes, granted, ran>>

\* The turn is recorded; prose, if any, is then streamed.
SaveTurn(a) ==
    /\ loop[a].at = "turn"
    /\ IF loop[a].todo = <<>>
       THEN SaveAnd(a, "completed", <<>>, "over")
       ELSE \E next \in {"tool", "yielded"} : SaveAnd(a, "awaiting_tools", loop[a].todo, next)

AtTool(a) == loop[a].at \in {"tool", "yielded"} /\ loop[a].todo # <<>>

\* Mutation of SaveTool: the checkpoint lists the calls after the one about to run.
SaveToolLate(a) == AtTool(a) /\ SaveAnd(a, "recovery_required", Tail(loop[a].todo), "gate")

\* Before each call, the calls whose outcome a restart would leave open are recorded.
SaveTool(a) == AtTool(a) /\ SaveAnd(a, "recovery_required", loop[a].todo, "gate")

\* PermissionGate.check: plan mode refuses what may change something.
Refused(c) == mode = "plan" /\ ToolOf[c] \notin {"read_file", "TodoWrite"}

\* _Approval.needs.  Subagents ask nobody: the owner approved the Task.
NeedsApproval(a, c) ==
    /\ a \in Stream
    /\ ToolOf[c] # "TodoWrite"
    /\ mode # "bypass"
    /\ ~(mode = "acceptEdits" /\ ToolOf[c] = "write_file")
    /\ \A scope \in Scopes : <<ToolOf[c], scope>> \notin rules

\* The call at hand is over with some result, which is streamed.
WithResult(a) == [loop[a] EXCEPT !.at = "yielded", !.got = @ \cup {Head(loop[a].todo)},
                                 !.todo = Tail(@)]

Gate(a) ==
    LET c == Head(loop[a].todo) IN
    /\ loop[a].at = "gate"
    /\ \/ /\ Refused(c)
          /\ Becomes(a, WithResult(a))
          /\ UNCHANGED granted
       \/ /\ ~Refused(c)
          /\ NeedsApproval(a, c)
          /\ Goto(a, "ask")
          /\ UNCHANGED granted
       \/ /\ ~Refused(c)
          /\ ~NeedsApproval(a, c)
          /\ granted' = [granted EXCEPT ![c] = @ + 1]
          /\ Goto(a, "exec")
    /\ UNCHANGED <<mode, ckpt, approvalVars, replayVars, crashes, issued, ran>>

-----------------------------------------------------------------------------
(* Approvals: _Approval.wait, the approve and deny endpoints.  The rows of   *)
(* dev_approvals are only written by them, never read, and left out.         *)

Ask(s) ==
    /\ loop[s].at = "ask"
    /\ owners' = owners \cup {Head(loop[s].todo)}
    /\ Goto(s, "wait")
    /\ UNCHANGED <<mode, ckpt, decided, rules, replayVars, crashes, issued, granted, ran>>

\* The owner approves, possibly the tool for all that follows in the session or workspace.
Approve(c, scope) ==
    /\ c \in owners
    /\ decided' = [decided EXCEPT ![c] = "yes"]
    /\ owners' = owners \ {c}
    /\ rules' = rules \cup {<<ToolOf[c], sc>> : sc \in {scope} \ {"once"}}
    /\ granted' = [granted EXCEPT ![c] = @ + 1]
    /\ UNCHANGED <<mode, ckpt, loop, replayVars, crashes, issued, ran>>

Deny(c) ==
    /\ c \in owners
    /\ decided' = [decided EXCEPT ![c] = "no"]
    /\ owners' = owners \ {c}
    /\ UNCHANGED <<mode, ckpt, loop, rules, replayVars, crashes, issued, granted, ran>>

\* DELETE /dev/auto-approve.
ClearRules ==
    /\ rules # {}
    /\ rules' = {}
    /\ UNCHANGED <<mode, ckpt, loop, owners, decided, replayVars, crashes, issued, granted, ran>>

\* The waiter wakes up after a decision.
WaitReturns(s) ==
    LET c == Head(loop[s].todo) IN
    /\ loop[s].at = "wait"
    /\ decided[c] # "none"
    /\ decided' = [decided EXCEPT ![c] = "none"]
    /\ IF decided[c] = "yes" THEN Goto(s, "exec") ELSE Becomes(s, WithResult(s))
    /\ UNCHANGED <<mode, ckpt, owners, rules, replayVars, crashes, issued, granted, ran>>

\* Mutation of WaitTimesOut: event.wait() without a timeout.
WaitForever(s) == loop[s].at = "forever" /\ UNCHANGED vars

\* Mutation of WaitTimesOut: the decision that is taken out defaults to yes.
WaitTimeoutRuns(s) ==
    LET c == Head(loop[s].todo) IN
    /\ loop[s].at = "wait"
    /\ decided' = [decided EXCEPT ![c] = "none"]
    /\ owners' = owners \ {c}
    /\ IF decided[c] = "no" THEN Becomes(s, WithResult(s)) ELSE Goto(s, "exec")
    /\ UNCHANGED <<mode, ckpt, rules, replayVars, crashes, issued, granted, ran>>

\* 120 s have passed; a decision that has not woken the waiter yet is dropped.
WaitTimesOut(s) ==
    LET c == Head(loop[s].todo) IN
    /\ loop[s].at = "wait"
    /\ decided' = [decided EXCEPT ![c] = "none"]
    /\ owners' = owners \ {c}
    /\ Becomes(s, WithResult(s))
    /\ UNCHANGED <<mode, ckpt, rules, replayVars, crashes, issued, granted, ran>>

-----------------------------------------------------------------------------
(* Tools.                                                                    *)

Children(p) == {w \in Sub : loop[w].parent = p}
ChildrenOver(p) == \A w \in Children(p) : loop[w].at \in Ended

\* What an execution of c for p does to the subagents: a Task starts one (_run_subagent).
Spawns(c, p, w) == [loop EXCEPT ![w] = IF ToolOf[c] = "Task"
                                       THEN [NoLoop EXCEPT !.at = "ready", !.parent = p] ELSE @]
Slot(c, w) == loop[w].parent = Nobody \/ ToolOf[c] # "Task"

\* The executor runs the tool: its effects may happen from now on.
Execute(a) ==
    LET c == Head(loop[a].todo) IN
    /\ loop[a].at = "exec"
    /\ ran' = [ran EXCEPT ![c] = @ + 1]
    /\ \E w \in Sub :
        /\ Slot(c, w)
        /\ loop' = [Spawns(c, a, w) EXCEPT ![a].at = "running"]
    /\ UNCHANGED <<mode, ckpt, approvalVars, replayVars, crashes, issued, granted>>

\* Subagents that are over leave; agent a becomes r.
Reap(p, a, r) ==
    loop' = [x \in Agent |-> IF x \in Children(p) THEN NoLoop
                             ELSE IF x = a THEN Settled(r) ELSE loop[x]]

\* The tool returns, and its result is streamed.
Return(a) ==
    /\ loop[a].at = "running"
    /\ ChildrenOver(a)
    /\ Reap(a, a, WithResult(a))
    /\ UNCHANGED <<mode, ckpt, approvalVars, replayVars, crashes, issued, granted, ran>>

\* The executor raises: the stream ends and says so.
Raise(a) ==
    /\ loop[a].at = "running"
    /\ Children(a) = {}
    /\ Goto(a, "fail")
    /\ UNCHANGED <<mode, ckpt, approvalVars, replayVars, crashes, issued, granted, ran>>

\* Mutation of EndTurn: the results of the turn are not added to the history.
EndTurnForgets(a) ==
    /\ loop[a].at = "yielded" /\ loop[a].todo = <<>>
    /\ Goto(a, "close")
    /\ UNCHANGED <<mode, ckpt, approvalVars, replayVars, crashes, issued, granted, ran>>

\* All calls of the turn have a result: add_tool_results.
EndTurn(a) ==
    /\ loop[a].at = "yielded" /\ loop[a].todo = <<>>
    /\ Becomes(a, [loop[a] EXCEPT !.at = "close", !.answered = @ \cup loop[a].got])
    /\ UNCHANGED <<mode, ckpt, approvalVars, replayVars, crashes, issued, granted, ran>>

SaveRunning(a) ==
    /\ loop[a].at = "close"
    /\ SaveAnd(a, "running", <<>>, IF loop[a].turn < TurnsOf(a) THEN "model" ELSE "budget")

\* The budget of turns is used up: a last call without tools is to report progress.
SaveSynthesizing(a) ==
    /\ loop[a].at = "budget"
    /\ SaveAnd(a, "synthesizing", <<>>, "summary")

Summarise(a) ==
    /\ loop[a].at = "summary"
    /\ \E next \in {"final", "fail"} : Goto(a, next)
    /\ UNCHANGED <<mode, ckpt, approvalVars, replayVars, crashes, issued, granted, ran>>

\* The last checkpoint of a loop that is over, well or badly; its answer changes nothing.
SaveEnd(a) ==
    /\ \/ loop[a].at = "final" /\ Goto(a, "over")
          /\ \E ok \in BOOLEAN : Saved(a, "completed", <<>>, ok)
       \/ loop[a].at = "fail" /\ Goto(a, "error")
          /\ \E ok \in BOOLEAN : Saved(a, "failed", <<>>, ok)
    /\ UNCHANGED <<mode, approvalVars, replayVars, crashes, issued, granted, ran>>

\* The client goes away.  The step in progress runs to its next yield.
Disconnect(s) ==
    /\ Live(s) /\ loop[s].at # "start" /\ loop[s].attached
    /\ Becomes(s, [loop[s] EXCEPT !.attached = FALSE])
    /\ UNCHANGED <<mode, ckpt, approvalVars, replayVars, crashes, issued, granted, ran>>

-----------------------------------------------------------------------------
(* Replay of an interrupted call: replay_dev_checkpoint_tool, one request at *)
(* a time (_serialize_dev_replay).                                           *)

\* The request is accepted for call c of the row that was read.
Accepted(c, pending) ==
    /\ replay.at = "idle"
    /\ replays < MaxReplays
    /\ ckpt.status \in {"awaiting_tools", "recovery_required"}
    /\ ToolOf[c] # "TodoWrite"
    /\ ~Refused(c)
    /\ replay' = [at |-> "exec", row |-> [ckpt EXCEPT !.pending = pending]]
    /\ replays' = replays + 1
    /\ raced' = (raced \/ \E s \in Stream : Live(s))
    /\ granted' = [granted EXCEPT ![c] = @ + 1]
    /\ UNCHANGED <<mode, ckpt, loop, approvalVars, crashes, issued, ran>>

\* The owner confirms the replay of the oldest pending call.
ReplayRead(c) ==
    /\ ckpt.pending # <<>> /\ Head(ckpt.pending) = c
    /\ Accepted(c, ckpt.pending)

ReplayExecute ==
    LET c == Head(replay.row.pending) IN
    /\ replay.at = "exec"
    /\ ran' = [ran EXCEPT ![c] = @ + 1]
    /\ replay' = [replay EXCEPT !.at = "save"]
    /\ \E w \in Sub : Slot(c, w) /\ loop' = Spawns(c, Replayer, w)
    /\ UNCHANGED <<mode, ckpt, approvalVars, replays, crashes, raced, issued, granted>>

\* The checkpoint as it was read, without the call: the next one, or the history with the results.
Replayed(r) ==
    LET results == r.replayed \cup {Head(r.pending)} IN
    IF Tail(r.pending) # <<>>
    THEN [r EXCEPT !.status = "recovery_required", !.pending = Tail(@), !.replayed = results,
                   !.by = Replayer]
    ELSE [r EXCEPT !.status = "ready_to_resume", !.pending = <<>>, !.replayed = {},
                   !.answered = @ \cup results, !.by = Replayer]

ReplaySave ==
    /\ replay.at = "save"
    /\ ChildrenOver(Replayer)
    /\ \/ ckpt' = Replayed(replay.row)
       \/ DbFails /\ UNCHANGED ckpt
    /\ replay' = NoReplay
    /\ Reap(Replayer, Replayer, NoLoop)
    /\ UNCHANGED <<mode, approvalVars, replays, raced, crashes, issued, granted, ran>>

-----------------------------------------------------------------------------

\* A restart: the checkpoint and the workspace rules survive.
Crash ==
    /\ crashes < MaxCrashes
    /\ crashes' = crashes + 1
    /\ loop' = [a \in Agent |-> IF a \in Stream /\ Live(a) THEN [NoLoop EXCEPT !.at = "over"]
                                ELSE IF a \in Sub THEN NoLoop ELSE loop[a]]
    /\ owners' = {}
    /\ decided' = [c \in Call |-> "none"]
    /\ rules' = {r \in rules : r[2] = "workspace"}
    /\ replay' = NoReplay
    /\ UNCHANGED <<mode, ckpt, replays, raced, issued, granted, ran>>

LoopStep(a) ==
    \/ ModelTurn(a) \/ SaveTurn(a) \/ SaveTool(a) \/ Gate(a) \/ Execute(a) \/ Return(a)
    \/ EndTurn(a) \/ SaveRunning(a) \/ SaveSynthesizing(a) \/ Summarise(a) \/ SaveEnd(a)

StreamStep(s) == SaveStart(s) \/ Ask(s) \/ WaitReturns(s) \/ WaitTimesOut(s)

Decision == \E c \in Call : Deny(c) \/ \E scope \in Scopes : Approve(c, scope)

Next ==
    \/ \E a \in Agent : LoopStep(a) \/ Raise(a)
    \/ \E s \in Stream : StartFresh(s) \/ StartResume(s) \/ StreamStep(s) \/ Disconnect(s)
    \/ Decision \/ ClearRules
    \/ (\E c \in Call : ReplayRead(c)) \/ ReplayExecute \/ ReplaySave
    \/ Crash

\* Model and tool calls return, or fail on their own timeouts; the event loop goes on.
Fairness ==
    /\ \A a \in Agent : WF_vars(LoopStep(a))
    /\ \A s \in Stream : WF_vars(StreamStep(s))
    /\ WF_vars(ReplayExecute) /\ WF_vars(ReplaySave)

Spec == Init /\ [][Next]_vars
FairSpec == Spec /\ Fairness

-----------------------------------------------------------------------------
(* Properties.                                                               *)

Ledger == INSTANCE ToolLedger

\* Every execution of a tool, in the loop, in a subagent or by a replay, uses up a permission that
\* was given for that call: an approval, the permission mode, or the confirmation of a replay.
LedgerSpec == Ledger!Spec

\* While a tool of a stream runs, the checkpoint says so, unless another request wrote it since:
\* a restart finds the call as the oldest one whose outcome is open.
ToolIsCovered ==
    \A s \in Stream :
        loop[s].at \in {"exec", "running"} /\ ckpt.by = s =>
            ckpt.status = "recovery_required" /\ ckpt.pending = loop[s].todo

\* Of the calls that a checkpoint lists, only the oldest may have run already, so an owner who
\* replays them in order repeats at most one effect.  (Not when a replay meets a live loop.)
OnlyOldestMayHaveRun ==
    ~raced /\ ckpt.pending # <<>> => \A c \in Range(Tail(ckpt.pending)) : ran[c] = 0

\* A restart finds what has happened: the outcome of the call that ran is open in the checkpoint, and
\* of no other.
RestartFindsOutcome == ToolIsCovered /\ OnlyOldestMayHaveRun

\* The model never sees a tool call without its result, as long as no call was replayed.
HistoryComplete ==
    \A a \in Agent :
        loop[a].at \in {"ready", "model", "summary"} /\ replays = 0 =>
            loop[a].asked \subseteq loop[a].answered

\* A stream ends, whatever the owner does and even if its client has gone.
StreamEnds == \A s \in Stream : loop[s].at # "idle" ~> loop[s].at \in Ended

\* A stream that has used up its turns reports progress instead of an error.
BudgetIsNoError == [][\A s \in Stream : ~(loop[s].at = "budget" /\ loop'[s].at = "error")]_vars

\* A resumed turn gives the model a result for every call of the turn.
ResumedHistoryComplete ==
    \A a \in Agent : loop[a].at \in {"ready", "model", "summary"} =>
        loop[a].asked \subseteq loop[a].answered
=============================================================================
