--------------------------- MODULE CircuitBreaker ---------------------------
(* The circuit breaker in front of eviction and warmup calls                 *)
(* (agents/utils/gpu_queue.py _CircuitBreaker, _guarded_post) and of the     *)
(* memory recall in church.py: one circuit and the threads that call through *)
(* it.  Each method runs under the breaker's lock; the call itself does not. *)
EXTENDS Naturals, Sequences

CONSTANTS
    Caller,        \* threads that call the service
    Threshold,     \* FAIL_THRESHOLD
    Window,        \* FAIL_WINDOW_S, in ticks
    OpenFor        \* OPEN_DURATION_S, in ticks

VARIABLES
    state,         \* "closed", "open" or "half_open"
    failures,      \* failures counted
    sinceFirst,    \* age of first_failure_at, Window + 1 once it is beyond the window
    sinceOpened,   \* age of opened_at, OpenFor once the circuit may be probed
    calling,       \* callers whose call is under way
    up,            \* whether the service answers
    streak         \* history: ages of the last failures since a success, the oldest first

vars == <<state, failures, sinceFirst, sinceOpened, calling, up, streak>>

TypeOK ==
    /\ state \in {"closed", "open", "half_open"}
    /\ failures \in Nat
    /\ sinceFirst \in 0..(Window + 1) /\ sinceOpened \in 0..OpenFor
    /\ calling \subseteq Caller
    /\ up \in BOOLEAN
    /\ Len(streak) <= Threshold /\ \A i \in DOMAIN streak : streak[i] \in 0..(Window + 1)

Init ==
    /\ state = "closed"
    /\ failures = 0
    /\ sinceFirst = Window + 1 /\ sinceOpened = OpenFor
    /\ calling = {}
    /\ up = TRUE
    /\ streak = <<>>

\* allow: an open circuit refuses until its time is over, and then goes half-open; a refused call
\* changes nothing.
Allow(c) ==
    /\ c \notin calling
    /\ calling' = calling \cup {c}
    /\ \/ state # "open" /\ UNCHANGED state
       \/ state = "open" /\ sinceOpened = OpenFor /\ state' = "half_open"
    /\ UNCHANGED <<failures, sinceFirst, sinceOpened, up, streak>>

\* Mutation of RecordSuccess: a success is counted only while the circuit is closed.
RecordSuccessClosed(c) ==
    /\ c \in calling /\ up
    /\ calling' = calling \ {c}
    /\ streak' = <<>>
    /\ failures' = IF state = "closed" THEN 0 ELSE failures
    /\ UNCHANGED <<state, sinceFirst, sinceOpened, up>>

\* Mutation of RecordSuccess: the count of failures stays.
RecordSuccessKeeps(c) ==
    /\ c \in calling /\ up
    /\ calling' = calling \ {c}
    /\ state' = "closed"
    /\ streak' = <<>>
    /\ UNCHANGED <<failures, sinceFirst, sinceOpened, up>>

\* The call returns and record_success closes the circuit, whenever the call was begun.
RecordSuccess(c) ==
    /\ c \in calling /\ up
    /\ calling' = calling \ {c}
    /\ state' = "closed" /\ failures' = 0
    /\ sinceFirst' = Window + 1 /\ sinceOpened' = OpenFor
    /\ streak' = <<>>
    /\ UNCHANGED up

LastOf(s) == SubSeq(s, Len(s) - Threshold + 1, Len(s))
Failed == IF Len(streak) < Threshold THEN Append(streak, 0) ELSE LastOf(Append(streak, 0))

\* The call fails or times out, and record_failure counts it.
RecordFailure(c) ==
    /\ c \in calling /\ ~up
    /\ calling' = calling \ {c}
    /\ streak' = Failed
    /\ UNCHANGED up
    /\ \/ /\ state = "half_open"
          /\ state' = "open" /\ sinceOpened' = 0
          /\ UNCHANGED <<failures, sinceFirst>>
       \/ /\ state # "half_open"
          /\ failures' = IF sinceFirst > Window THEN 1 ELSE failures + 1
          /\ sinceFirst' = IF sinceFirst > Window THEN 0 ELSE sinceFirst
          /\ IF state = "closed" /\ failures' >= Threshold
             THEN state' = "open" /\ sinceOpened' = 0
             ELSE UNCHANGED <<state, sinceOpened>>

Capped(age, cap) == IF age < cap THEN age + 1 ELSE cap

Tick ==
    /\ sinceFirst' = Capped(sinceFirst, Window + 1)
    /\ sinceOpened' = Capped(sinceOpened, OpenFor)
    /\ streak' = [i \in DOMAIN streak |-> Capped(streak[i], Window + 1)]
    /\ UNCHANGED <<state, failures, calling, up>>

\* The service goes down, or comes back.
Flaps == up' = ~up /\ UNCHANGED <<state, failures, sinceFirst, sinceOpened, calling, streak>>

Ends(c) == RecordSuccess(c) \/ RecordFailure(c)

Next == (\E c \in Caller : Allow(c) \/ Ends(c)) \/ Tick \/ Flaps

-----------------------------------------------------------------------------

\* The circuit opens only on Threshold failures in a row, all of them within the window.
OpensOnlyOnStreak ==
    [][state = "closed" /\ state' = "open" => Len(streak') = Threshold /\ streak'[1] <= Window]_vars

\* When the service stays up and callers keep calling, the circuit ends up closed.
Recovers == <>[]up => <>[](state = "closed")

\* A circuit on probation lets one call through at a time.  (The code lets all through.)
OneProbe == [][state = "half_open" /\ calling' # calling => calling = {} \/ calling' \subseteq calling]_vars

\* Threshold failures in a row open the circuit.  (Not when they take longer than the window.)
StreakOpens == Len(streak) = Threshold => state # "closed"
=============================================================================
