------------------------- MODULE PendingExtraction -------------------------
(* Conversations that the MemPalace service queues for the nightly batch     *)
(* (queue_extraction and process_pending_extractions), with the model that   *)
(* reads them and a database that may refuse what it found.                  *)
EXTENDS Naturals, FiniteSets, SequencesExt, FiniteSetsExt

CONSTANTS
    Batch,         \* calls of process_pending that may be in progress
    Rows,          \* bound: conversations that are queued
    Limit,         \* conversations that a call looks at
    Poison,        \* conversations whose memories are always refused
    MaxOutages     \* bound: outages of the model host, restarts of the service

VARIABLES
    answering,     \* the model host answers
    queued,        \* conversations 1..queued are in pending_extractions, oldest first
    processed,     \* conversations with a processed_at
    memories,      \* how often the memories of each conversation were stored
    batch,         \* where each call is, the rows it has still to do and what it found
    outages

vars == <<answering, queued, processed, memories, batch, outages>>

Row == 1..Rows
Waiting == (1..queued) \ processed
Rest == [at |-> "idle", todo |-> <<>>, found |-> "nothing"]

TypeOK ==
    /\ answering \in BOOLEAN
    /\ queued \in 0..Rows /\ processed \subseteq 1..queued
    /\ memories \in [Row -> 0..Cardinality(Batch)]
    /\ batch \in [Batch -> [at : {"idle", "extract", "embed", "commit"}, todo : Seq(Row),
                            found : {"nothing", "something", "error"}]]
    /\ outages \in 0..MaxOutages

Init ==
    /\ answering = TRUE
    /\ queued = 0 /\ processed = {}
    /\ memories = [r \in Row |-> 0]
    /\ batch = [b \in Batch |-> Rest]
    /\ outages = 0

QueueExtraction ==
    /\ queued < Rows
    /\ queued' = queued + 1
    /\ UNCHANGED <<answering, processed, memories, batch, outages>>

\* The oldest waiting rows, up to the limit.
Oldest == LET line == SetToSortSeq(Waiting, <)
          IN SubSeq(line, 1, Min({Limit, Cardinality(Waiting)}))

Select(b) ==
    /\ batch[b].at = "idle" /\ Waiting # {}
    /\ batch' = [batch EXCEPT ![b] = [at |-> "extract", todo |-> Oldest, found |-> "nothing"]]
    /\ UNCHANGED <<answering, queued, processed, memories, outages>>

\* On to the next row of the batch.
Advanced(b) == IF Len(batch[b].todo) = 1 THEN Rest
               ELSE [at |-> "extract", todo |-> Tail(batch[b].todo), found |-> "nothing"]

\* extract_memories: an outage looks like a conversation with nothing to remember.
Extract(b) ==
    /\ batch[b].at = "extract"
    /\ \E found \in {"nothing", "something", "error"} :
        /\ found = "error" <=> ~answering
        /\ Head(batch[b].todo) \in Poison => found # "nothing"
        /\ batch' = [batch EXCEPT ![b].found = found,
                                  ![b].at = IF found = "something" THEN "embed" ELSE "commit"]
    /\ UNCHANGED <<answering, queued, processed, memories, outages>>

\* Mutation of RowFails: the exception ends the batch.
RowFailsBatch(b) ==
    /\ batch' = [batch EXCEPT ![b] = Rest]
    /\ UNCHANGED <<answering, queued, processed, memories, outages>>

\* The exception is logged, the row stays, and the batch goes on.
RowFails(b) ==
    /\ batch' = [batch EXCEPT ![b] = Advanced(b)]
    /\ UNCHANGED <<answering, queued, processed, memories, outages>>

Embed(b) ==
    /\ batch[b].at = "embed"
    /\ \/ /\ answering
          /\ batch' = [batch EXCEPT ![b].at = "commit"]
          /\ UNCHANGED <<answering, queued, processed, memories, outages>>
       \/ ~answering /\ RowFails(b)

Refused(b) == batch[b].found = "something" /\ Head(batch[b].todo) \in Poison

\* The memories, the log entry and the stamp are one transaction.
Commit(b) ==
    /\ batch[b].at = "commit" /\ ~Refused(b)
    /\ memories' = [memories EXCEPT ![Head(batch[b].todo)] = @ + IF batch[b].found = "something" THEN 1 ELSE 0]
    /\ processed' = processed \cup {Head(batch[b].todo)}
    /\ batch' = [batch EXCEPT ![b] = Advanced(b)]
    /\ UNCHANGED <<answering, queued, outages>>

CommitRefused(b) ==
    /\ batch[b].at = "commit" /\ Refused(b)
    /\ RowFails(b)

\* The model host goes down or comes back.
Outage == answering /\ outages < MaxOutages /\ answering' = FALSE /\ outages' = outages + 1
          /\ UNCHANGED <<queued, processed, memories, batch>>

Return == ~answering /\ answering' = TRUE /\ UNCHANGED <<queued, processed, memories, batch, outages>>

\* The service restarts: the calls are lost, what was committed stays.
Restart ==
    /\ outages < MaxOutages
    /\ outages' = outages + 1
    /\ batch' = [b \in Batch |-> Rest]
    /\ UNCHANGED <<answering, queued, processed, memories>>

Call(b) == Extract(b) \/ Embed(b) \/ Commit(b) \/ CommitRefused(b)

Next ==
    \/ QueueExtraction \/ Outage \/ Return \/ Restart
    \/ \E b \in Batch : Select(b) \/ Call(b)

-----------------------------------------------------------------------------

\* A conversation is processed sooner or later, unless the database always refuses its memories:
\* neither those that are refused, nor outages, nor restarts keep the others waiting for ever.
PendingDrained == \A r \in Row \ Poison : queued >= r ~> r \in processed

\* A conversation is stored once.  Refuted: calls that overlap look at the same rows.
StoredOnce == \A r \in Row : memories[r] <= 1

\* A row that could not be extracted is left for the next batch.  Refuted: an outage of the model
\* host is taken for an empty answer, and the row is stamped with nothing stored.
FailedStaysPending == [][
    \A b \in Batch :
        batch[b].found = "error" => Head(batch[b].todo) \notin processed' \ processed]_vars
=============================================================================
