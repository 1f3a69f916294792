--------------------------- MODULE SnapshotStore ---------------------------
(* save_snapshot of the MemPalace service for one agent: writers that number *)
(* their versions themselves and rely on a unique constraint.                *)
EXTENDS Naturals, FiniteSets

CONSTANTS
    Writer,
    Tries          \* attempts of a request; the code makes five

VARIABLES
    owned,         \* the snapshots have an owner_id; the constraint ignores rows without
    versions,      \* version of each row, by its writer
    saver          \* where each request is, the version it will insert, its failed attempts

vars == <<owned, versions, saver>>

Saved == {w \in Writer : versions[w] # 0}

TypeOK ==
    /\ owned \in BOOLEAN
    /\ versions \in [Writer -> 0..Cardinality(Writer)]
    /\ saver \in [Writer -> [at : {"read", "insert", "saved", "refused"},
                             version : 0..Cardinality(Writer), failed : 0..Tries]]

Init ==
    /\ owned \in BOOLEAN
    /\ versions = [w \in Writer |-> 0]
    /\ saver = [w \in Writer |-> [at |-> "read", version |-> 0, failed |-> 0]]

Highest == CHOOSE v \in 0..Cardinality(Writer) :
               /\ v = 0 \/ \E w \in Writer : versions[w] = v
               /\ \A w \in Writer : versions[w] <= v

ReadHighest(w) ==
    /\ saver[w].at = "read"
    /\ saver' = [saver EXCEPT ![w].at = "insert", ![w].version = Highest + 1]
    /\ UNCHANGED <<owned, versions>>

\* The commit violates uq_snap_agent_owner_version.
Taken(w) == owned /\ \E v \in Writer : versions[v] = saver[w].version

Insert(w) ==
    /\ saver[w].at = "insert" /\ ~Taken(w)
    /\ versions' = [versions EXCEPT ![w] = saver[w].version]
    /\ saver' = [saver EXCEPT ![w].at = "saved"]
    /\ UNCHANGED owned

\* After the last attempt the request answers 503.
Conflict(w) ==
    /\ saver[w].at = "insert" /\ Taken(w)
    /\ saver' = [saver EXCEPT ![w].failed = @ + 1,
                              ![w].at = IF saver[w].failed + 1 = Tries THEN "refused" ELSE "read"]
    /\ UNCHANGED <<owned, versions>>

Next == \E w \in Writer : ReadHighest(w) \/ Insert(w) \/ Conflict(w)

-----------------------------------------------------------------------------

\* The snapshots of an owner are numbered without a gap or a double, and a writer is refused only
\* after as many others were saved as it made attempts.
SnapshotsKept ==
    owned =>
        /\ {versions[w] : w \in Saved} = 1..Cardinality(Saved)
        /\ \A w \in Writer : saver[w].at = "refused" => Cardinality(Saved) >= Tries

\* The docstring of save_snapshot calls it race-safe.  Refuted for snapshots without an owner.
OneRowPerVersion == \A v, w \in Saved : versions[v] = versions[w] => v = w
=============================================================================
