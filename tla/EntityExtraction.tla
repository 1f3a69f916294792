-------------------------- MODULE EntityExtraction --------------------------
(* The calls of run_entity_extraction for one owner: each takes the memories *)
(* that are not extracted yet, newest first and here one to a batch, asks a  *)
(* model for their entities, and stores them in a transaction per batch.     *)
(* What a call knows of the entities is a cache of its own, which outlives a *)
(* transaction that is rolled back.  Relations and the row locks of updates  *)
(* are left out: a batch that they delay may be interleaved so, and one that *)
(* they end (a relation of an entity that is in the cache and in no row, or  *)
(* stored twice) is one that breaks.                                         *)
EXTENDS Naturals, FiniteSets, SequencesExt

CONSTANTS
    Call,          \* calls of the extraction that may be in progress
    Label,         \* entities that a model may find
    Memories       \* bound: memories that are stored

VARIABLES
    extracted,     \* memories marked entity_extracted, of 1..Memories, oldest first
    table,         \* entities that are committed
    call           \* where each call is, its memories, its cache and its transaction

vars == <<extracted, table, call>>

\* left: what the model found and is still to be stored; known: the keys of label_cache;
\* new: what the open transaction inserted; failed: a batch of the call was rolled back.
Rest == [at |-> "idle", todo |-> <<>>, left |-> <<>>, known |-> {}, new |-> {}, failed |-> FALSE]

TypeOK ==
    /\ extracted \subseteq 1..Memories /\ table \subseteq Label
    /\ call \in [Call -> [at : {"idle", "load", "ask", "lookup", "wait"},
                          todo : Seq(1..Memories), left : Seq(Label), known : SUBSET Label,
                          new : SUBSET Label, failed : BOOLEAN]]

Init ==
    /\ extracted = {} /\ table = {}
    /\ call = [c \in Call |-> Rest]

Waiting == (1..Memories) \ extracted

Fetch(c) ==
    /\ call[c].at = "idle" /\ Waiting # {}
    /\ call' = [call EXCEPT ![c] = [Rest EXCEPT !.at = "load", !.todo = SetToSortSeq(Waiting, >)]]
    /\ UNCHANGED <<extracted, table>>

Entered(c) == UNION {call[d].new : d \in Call \ {c}}

\* The labels that are in the table, read in a session of their own.
LoadCache(c) ==
    /\ call[c].at = "load"
    /\ call' = [call EXCEPT ![c].at = "ask", ![c].known = table]
    /\ UNCHANGED <<extracted, table>>

\* The model names any entities in any order; an error of it looks like an empty answer.
AskModel(c) ==
    /\ call[c].at = "ask"
    /\ \E found \in SetToAllKPermutations(Label) :
        call' = [call EXCEPT ![c].at = "lookup", ![c].left = found]
    /\ UNCHANGED <<extracted, table>>

\* On to the next batch, with the same cache.
Advanced(c) == IF Len(call[c].todo) = 1 THEN Rest
               ELSE [call[c] EXCEPT !.at = "ask", !.todo = Tail(@), !.left = <<>>, !.new = {}]

\* An exception: the transaction is rolled back, the batch is skipped, the cache stays.
Rollback(c) ==
    /\ call' = [call EXCEPT ![c] =
            IF Len(call[c].todo) = 1 THEN Rest ELSE [Advanced(c) EXCEPT !.failed = TRUE]]
    /\ UNCHANGED <<extracted, table>>

Dealing(c, at) == call[c].at = at /\ call[c].left # <<>>
Now(c) == Head(call[c].left)
Dealt(c) == [call[c] EXCEPT !.at = "lookup", !.left = Tail(@), !.known = @ \cup {Now(c)}]

There(c) == Now(c) \in call[c].known \cup table

\* A row that is there is updated; one that only the cache believes in is not, and nobody notices.
Update(c) ==
    /\ Dealing(c, "lookup") /\ There(c)
    /\ call' = [call EXCEPT ![c] = Dealt(c)]
    /\ UNCHANGED <<extracted, table>>

\* A row that the select does not find.  The insertion of one that is in the transaction of another
\* call waits for that transaction, by the unique index.
Miss(c) == Dealing(c, "lookup") /\ ~There(c)

WaitFor(c) ==
    /\ Miss(c) /\ Now(c) \in Entered(c)
    /\ call' = [call EXCEPT ![c].at = "wait"]
    /\ UNCHANGED <<extracted, table>>

Insert(c) ==
    /\ Miss(c) \/ (Dealing(c, "wait") /\ Now(c) \notin table)
    /\ Now(c) \notin Entered(c)
    /\ call' = [call EXCEPT ![c] = [Dealt(c) EXCEPT !.new = @ \cup {Now(c)}]]
    /\ UNCHANGED <<extracted, table>>

\* The other transaction has committed: the unique index refuses a second row.
Refused(c) == Dealing(c, "wait") /\ Now(c) \in table /\ Rollback(c)

\* The database ends one of the transactions that wait for each other.
Deadlocked(c) ==
    /\ \A d \in Call : Dealing(d, "wait") /\ Now(d) \in Entered(d)
    /\ Rollback(c)

\* What the batch found, the mark on its memory and the commit are one transaction.
Commit(c) ==
    /\ call[c].at = "lookup" /\ call[c].left = <<>>
    /\ table' = table \cup call[c].new
    /\ extracted' = extracted \cup {Head(call[c].todo)}
    /\ call' = [call EXCEPT ![c] = Advanced(c)]

\* An entity or a relation that cannot be stored, or a lost connection to the database.
BatchBreaks(c) == call[c].at \in {"lookup", "wait"} /\ Rollback(c)

Restart ==
    /\ call' = [c \in Call |-> Rest]
    /\ UNCHANGED <<extracted, table>>

Next ==
    \/ Restart
    \/ \E c \in Call :
        \/ Fetch(c) \/ LoadCache(c) \/ AskModel(c) \/ Update(c) \/ WaitFor(c) \/ Insert(c)
        \/ Refused(c) \/ Deadlocked(c) \/ Commit(c) \/ BatchBreaks(c)

-----------------------------------------------------------------------------

\* The cache of a call names rows of the table or of its transaction, as long as no batch of the
\* call has failed: a mention that its memory is marked for is counted on a row.
CacheIsTrue == \A c \in Call : ~call[c].failed => call[c].known \subseteq table \cup call[c].new

\* The same after a batch has failed.  Refuted: label_cache keeps the ids of a batch that was
\* rolled back, and the next batch of the call counts a mention on no row and stores nothing.
CacheIsAlwaysTrue == \A c \in Call : call[c].known \subseteq table \cup call[c].new
=============================================================================
