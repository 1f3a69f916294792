---------------------------- MODULE MemoryEdits ----------------------------
(* One memory of the MemPalace service and its audit trail                   *)
(* (control_plane/mempalace/app/main.py): store_memory, update_memory and    *)
(* delete_memory.  A request reads the row, may wait for an embedding, and   *)
(* writes the row together with an entry of the trail.  The trail is shown   *)
(* by created_at, the time at which the transaction of the entry began: in   *)
(* PostgreSQL that is what now() says.                                       *)
EXTENDS Naturals, Sequences, SequencesExt

CONSTANTS
    Request,       \* concurrent PATCH and DELETE requests
    Text           \* texts that a memory can have

VARIABLES
    memory,        \* the text in the row, "absent" before it is stored, "deleted" after
    audit,         \* entries of memory_audit_log, in the order of their commits
    begun,         \* transactions that have begun; a transaction is dated by its number
    editor         \* where each request is, its transaction, the text it read and the one it wants

vars == <<memory, audit, begun, editor>>

Nothing == {"absent", "deleted"}
EditorAt == {"idle", "embed", "retag", "delete", "over"}

\* `content` is FALSE when changed_fields has no new content; `since` is created_at.
Entry == [action : {"created", "edited", "deleted"}, old : Text \cup Nothing,
          new : Text \cup Nothing, content : BOOLEAN, since : Nat]
Editor == [at : EditorAt, since : Nat, seen : Text \cup Nothing, want : Text \cup Nothing]

TypeOK ==
    /\ memory \in Text \cup Nothing
    /\ audit \in Seq(Entry)
    /\ begun \in Nat
    /\ editor \in [Request -> Editor]

Init ==
    /\ memory = "absent"
    /\ audit = <<>>
    /\ begun = 0
    /\ editor = [r \in Request |-> [at |-> "idle", since |-> 0, seen |-> "absent", want |-> "absent"]]

Log(action, old, new, content, since) ==
    audit' = Append(audit, [action |-> action, old |-> old, new |-> new, content |-> content,
                            since |-> since])

\* store_memory: the row and its first entry are one transaction.
Store ==
    /\ memory = "absent"
    /\ begun' = begun + 1
    /\ \E t \in Text : memory' = t /\ Log("created", "absent", t, TRUE, begun')
    /\ UNCHANGED editor

\* A row that the extraction stores has no entry.
StoreExtracted ==
    /\ memory = "absent"
    /\ memory' \in Text
    /\ UNCHANGED <<audit, begun, editor>>

Goes(r, place) == editor' = [editor EXCEPT ![r].at = place]

\* The SELECT of update_memory or delete_memory begins the transaction.  Nothing locks the row.
Read(r) ==
    /\ editor[r].at = "idle" /\ memory # "absent"
    /\ begun' = begun + 1
    /\ \/ /\ memory \notin Nothing
          /\ \E place \in {"embed", "retag", "delete"}, t \in Text :
              /\ place = "embed" <=> t # memory
              /\ editor' = [editor EXCEPT ![r] = [at |-> place, since |-> begun',
                                                   seen |-> memory, want |-> t]]
       \/ memory = "deleted" /\ Goes(r, "over")
    /\ UNCHANGED <<memory, audit>>

\* The embedding service does not answer, or the request asks for what is there: no change.
GiveUp(r) ==
    /\ editor[r].at \in {"embed", "retag"}
    /\ Goes(r, "over")
    /\ UNCHANGED <<memory, audit, begun>>

\* Mutation of WriteGone: the entry is in a transaction of its own.
WriteGoneAudited(r) ==
    /\ editor[r].at \in {"embed", "retag"} /\ memory \in Nothing
    /\ Goes(r, "over")
    /\ Log("edited", editor[r].seen, editor[r].want, editor[r].at = "embed", editor[r].since)
    /\ UNCHANGED <<memory, begun>>

\* The UPDATE finds no row: the ORM raises, and the entry is rolled back with it.
WriteGone(r) ==
    /\ editor[r].at \in {"embed", "retag"} /\ memory \in Nothing
    /\ Goes(r, "over")
    /\ UNCHANGED <<memory, audit, begun>>

\* The UPDATE names the columns that the request changed.  The entry has the texts that it read.
Write(r) ==
    /\ editor[r].at \in {"embed", "retag"} /\ memory \notin Nothing
    /\ memory' = IF editor[r].at = "embed" THEN editor[r].want ELSE memory
    /\ Log("edited", editor[r].seen, editor[r].want, editor[r].at = "embed", editor[r].since)
    /\ Goes(r, "over")
    /\ UNCHANGED begun

\* The DELETE does not care how many rows it finds.
Delete(r) ==
    /\ editor[r].at = "delete"
    /\ memory' = "deleted"
    /\ Log("deleted", editor[r].seen, "deleted", TRUE, editor[r].since)
    /\ Goes(r, "over")
    /\ UNCHANGED begun

Edits(r) == Read(r) \/ GiveUp(r) \/ WriteGone(r) \/ Write(r) \/ Delete(r)

Next == Store \/ StoreExtracted \/ \E r \in Request : Edits(r)

-----------------------------------------------------------------------------

\* The trail as get_audit_log shows it, here oldest first.
Trail == SortSeq(audit, LAMBDA d, e : d.since < e.since)

\* Of the entries about the content, entry k is the newest in the trail.
NewestShown(k) ==
    audit[k].content /\ \A j \in DOMAIN audit : audit[j].content => audit[j].since <= audit[k].since

\* The entry about the content that the trail shows as the newest has the text that the memory
\* holds, or else one that overlapped with it has: its request began before and was committed after.
\* So edits that do not overlap are shown as they happened, and one that was overtaken by a delete
\* leaves neither its text nor an entry.
EditsAudited ==
    \A k \in DOMAIN audit : NewestShown(k) =>
        \/ memory = audit[k].new
        \/ \E j \in (k + 1)..Len(audit) :
            audit[j].content /\ audit[j].since < audit[k].since /\ memory = audit[j].new

\* The newest entry about the content has the text that the memory holds.  Refuted: of two edits
\* that overlap, the one that began first may be committed last.
TrailShowsContent == \A k \in DOMAIN audit : NewestShown(k) => memory = audit[k].new

\* The newest entry of the trail has the text that the memory holds.  Refuted by that, and by a
\* change of another field: it logs the text that it read, which an edit may have replaced.
TrailShowsText == audit # <<>> => Last(Trail).new = memory

\* Each entry continues the one before it.  Refuted: two edits read the same text, and two
\* deletes are both logged.
TrailIsChain ==
    LET shown == SelectSeq(Trail, LAMBDA e : e.content)
    IN \A k \in 2..Len(shown) : shown[k].old = shown[k - 1].new
=============================================================================
