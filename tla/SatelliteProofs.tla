-------------------------- MODULE SatelliteProofs --------------------------
(***************************************************************************)
(* Proofs about the satellite services, for any values of the constants:    *)
(* what the memory service keeps is accounted for, and the voice assistant  *)
(* sends and hands off only what was agreed.                                *)
(***************************************************************************)
EXTENDS ServicesProofs, FiniteSetTheorems

-----------------------------------------------------------------------------
(* MemoryEdits.  The requests in progress and the entries are of different   *)
(* transactions, so a new entry is the newest that the trail shows or one    *)
(* that it shows before the newest, of a request that overlapped with it.    *)

InTransaction(r) == editor[r].at \in {"embed", "retag", "delete"}

EditsTypes ==
    /\ memory \in Text \cup Edits!Nothing
    /\ audit \in Seq(Edits!Entry)
    /\ begun \in Nat
    /\ editor \in [Thread -> Edits!Editor]
    /\ \A r \in Thread : InTransaction(r) => editor[r].seen \in Text /\ editor[r].want \in Text

Dated ==
    /\ \A r \in Thread : InTransaction(r) =>
        /\ editor[r].since <= begun
        /\ \A k \in 1..Len(audit) : audit[k].since # editor[r].since
    /\ \A r, s \in Thread :
        InTransaction(r) /\ InTransaction(s) /\ editor[r].since = editor[s].since => r = s
    /\ \A k \in 1..Len(audit) : audit[k].since <= begun

EditsInv ==
    /\ EditsTypes
    /\ Dated
    /\ memory = "absent" => audit = <<>> /\ \A r \in Thread : editor[r].at = "idle"
    /\ Edits!EditsAudited

LEMMA EditsInit == Edits!Init => EditsInv
<1> SUFFICES ASSUME Edits!Init
             PROVE  EditsInv
  OBVIOUS
<1> USE DEF Edits!Init
<1>1. EditsTypes
  BY DEF EditsTypes, InTransaction, Edits!Nothing, Edits!Editor, Edits!EditorAt
<1>2. Dated
  BY DEF Dated, InTransaction
<1>3. Edits!EditsAudited
  BY DEF Edits!EditsAudited
<1> QED
  BY <1>1, <1>2, <1>3 DEF EditsInv

\* Entries and requests are dated.
LEMMA Dates ==
  /\ \A e \in Edits!Entry : e.since \in Nat
  /\ audit \in Seq(Edits!Entry) => \A k \in 1..Len(audit) : audit[k].since \in Nat
  /\ editor \in [Thread -> Edits!Editor] => \A r \in Thread : editor[r].since \in Nat
<1>1. \A e \in Edits!Entry : e.since \in Nat
  BY DEF Edits!Entry
<1>2. \A e \in Edits!Editor : e.since \in Nat
  BY DEF Edits!Editor
<1>3. audit \in Seq(Edits!Entry) => \A k \in 1..Len(audit) : audit[k] \in Edits!Entry
  OBVIOUS
<1> QED
  BY <1>1, <1>2, <1>3

\* What an entry of a transaction that has none does to the account of the text.
LEMMA LogAccounts ==
  ASSUME NEW e \in Edits!Entry, audit \in Seq(Edits!Entry), audit' = Append(audit, e),
         Edits!EditsAudited,
         \A k \in 1..Len(audit) : audit[k].since # e.since,
         e.content => memory' = e.new,
         ~e.content => memory' = memory
  PROVE  Edits!EditsAudited'
<1>1. /\ audit' \in Seq(Edits!Entry) /\ Len(audit) \in Nat /\ Len(audit') = Len(audit) + 1
      /\ audit'[Len(audit) + 1] = e
      /\ \A i \in 1..Len(audit) : audit'[i] = audit[i]
      /\ DOMAIN audit' = 1..(Len(audit) + 1) /\ DOMAIN audit = 1..Len(audit)
  OBVIOUS
<1>2. e.since \in Nat /\ \A i \in 1..Len(audit) : audit[i].since \in Nat
  BY Dates
<1>3. ASSUME NEW k \in 1..(Len(audit) + 1), Edits!NewestShown(k)'
      PROVE  \/ memory' = audit'[k].new
             \/ \E j \in (k + 1)..Len(audit') :
                  /\ audit'[j].content /\ audit'[j].since < audit'[k].since
                  /\ memory' = audit'[j].new
  <2>1. /\ audit'[k].content
        /\ \A j \in 1..(Len(audit) + 1) : audit'[j].content => audit'[j].since <= audit'[k].since
    BY <1>1, <1>3 DEF Edits!NewestShown
  <2>2. CASE k = Len(audit) + 1
    BY <1>1, <2>1, <2>2
  <2>3. CASE k \in 1..Len(audit) /\ e.content
    <3>1. e.since < audit[k].since
      <4>1. e.since <= audit[k].since
        BY <1>1, <2>1, <2>3
      <4> QED
        BY <1>2, <2>3, <4>1
    <3>2. Len(audit) + 1 \in (k + 1)..Len(audit')
      BY <1>1, <2>3
    <3> QED
      BY <1>1, <2>3, <3>1, <3>2
  <2>4. CASE k \in 1..Len(audit) /\ ~e.content
    <3>1. Edits!NewestShown(k)
      BY <1>1, <2>1, <2>4 DEF Edits!NewestShown
    <3>2. \/ memory = audit[k].new
          \/ \E j \in (k + 1)..Len(audit) :
              audit[j].content /\ audit[j].since < audit[k].since /\ memory = audit[j].new
      BY <1>1, <2>4, <3>1 DEF Edits!EditsAudited
    <3>3. CASE memory = audit[k].new
      BY <1>1, <2>4, <3>3
    <3>4. CASE \E j \in (k + 1)..Len(audit) :
              audit[j].content /\ audit[j].since < audit[k].since /\ memory = audit[j].new
      <4>1. PICK j \in (k + 1)..Len(audit) :
              audit[j].content /\ audit[j].since < audit[k].since /\ memory = audit[j].new
        BY <3>4
      <4>2. j \in 1..Len(audit) /\ j \in (k + 1)..Len(audit')
        BY <1>1, <2>4
      <4> QED
        BY <1>1, <2>4, <4>1, <4>2
    <3> QED
      BY <3>2, <3>3, <3>4
  <2> QED
    BY <1>1, <2>2, <2>3, <2>4
<1> QED
  BY <1>1, <1>3 DEF Edits!EditsAudited

\* The entry of a request in progress.
LEMMA LogKeeps ==
  ASSUME EditsInv, NEW r \in Thread, InTransaction(r), NEW e \in Edits!Entry,
         e.since = editor[r].since, audit' = Append(audit, e), begun' = begun,
         editor' = [editor EXCEPT ![r].at = "over"],
         memory # "absent", memory' \in Text \cup {"deleted"},
         e.content => memory' = e.new,
         ~e.content => memory' = memory
  PROVE  EditsInv'
<1> USE DEF EditsInv, EditsTypes
<1>1. Edits!EditsAudited'
  BY LogAccounts DEF Dated
<1>2. /\ audit' \in Seq(Edits!Entry) /\ Len(audit') = Len(audit) + 1 /\ Len(audit) \in Nat
      /\ audit'[Len(audit) + 1] = e
      /\ \A i \in 1..Len(audit) : audit'[i] = audit[i]
  OBVIOUS
<1>3. /\ editor' \in [Thread -> Edits!Editor]
      /\ \A s \in Thread : InTransaction(s)' => s # r /\ InTransaction(s) /\ editor'[s] = editor[s]
  BY DEF InTransaction, Edits!Editor, Edits!EditorAt
<1>4. EditsTypes'
  BY <1>2, <1>3 DEF Edits!Nothing
<1>5. Dated'
  <2>1. \A k \in 1..Len(audit') : k = Len(audit) + 1 \/ k \in 1..Len(audit)
    BY <1>2
  <2>2. ASSUME NEW s \in Thread, InTransaction(s)'
        PROVE  /\ editor'[s].since <= begun'
               /\ \A k \in 1..Len(audit') : audit'[k].since # editor'[s].since
    BY <1>2, <1>3, <2>1, <2>2 DEF Dated
  <2>3. \A s, t \in Thread :
          InTransaction(s)' /\ InTransaction(t)' /\ editor'[s].since = editor'[t].since => s = t
    BY <1>3 DEF Dated
  <2>4. \A k \in 1..Len(audit') : audit'[k].since <= begun'
    BY <1>2, <2>1 DEF Dated
  <2> QED
    BY <2>2, <2>3, <2>4 DEF Dated
<1> QED
  BY <1>1, <1>4, <1>5, TextAssumption

LEMMA EditsStep == EditsInv /\ [Edits!Next]_editsVars => EditsInv'
<1> SUFFICES ASSUME EditsInv, [Edits!Next]_editsVars
             PROVE  EditsInv'
  OBVIOUS
<1> USE TextAssumption DEF EditsInv, EditsTypes, Edits!Nothing
<1>1. CASE Edits!Store
  <2>1. PICK t \in Text : memory' = t /\ Edits!Log("created", "absent", t, TRUE, begun')
    BY <1>1 DEF Edits!Store
  <2> DEFINE e == [action |-> "created", old |-> "absent", new |-> t, content |-> TRUE, since |-> begun']
  <2>2. /\ begun' = begun + 1 /\ UNCHANGED editor /\ audit = <<>>
        /\ \A r \in Thread : editor[r].at = "idle"
    BY <1>1 DEF Edits!Store
  <2>3. e \in Edits!Entry /\ e.content /\ e.new = t /\ e.since = begun + 1
    BY <2>2 DEF Edits!Entry, Edits!Nothing
  <2>4. audit' = Append(audit, e)
    BY <2>1 DEF Edits!Log
  <2> HIDE DEF e
  <2>5. Edits!EditsAudited'
    BY <2>1, <2>2, <2>3, <2>4, LogAccounts
  <2>6. audit' \in Seq(Edits!Entry) /\ Len(audit') = 1 /\ audit'[1] = e
    BY <2>2, <2>3, <2>4
  <2>7. \A r \in Thread : ~InTransaction(r)'
    BY <2>2 DEF InTransaction
  <2>8. Dated'
    BY <2>2, <2>3, <2>6, <2>7 DEF Dated
  <2> QED
    BY <2>1, <2>2, <2>5, <2>6, <2>7, <2>8
<1>2. CASE Edits!StoreExtracted
  BY <1>2 DEF Edits!StoreExtracted, Edits!EditsAudited, Dated, InTransaction
<1>3. ASSUME NEW r \in Thread, Edits!Read(r)
      PROVE  EditsInv'
  <2>1. UNCHANGED <<memory, audit>> /\ memory # "absent" /\ begun' = begun + 1
    BY <1>3 DEF Edits!Read
  <2>2. Edits!EditsAudited'
    BY <2>1 DEF Edits!EditsAudited, Edits!NewestShown
  <2>3. CASE editor' = [editor EXCEPT ![r].at = "over"]
    <3>1. /\ editor' \in [Thread -> Edits!Editor]
          /\ \A s \in Thread : InTransaction(s)' => InTransaction(s) /\ editor'[s] = editor[s]
      BY <2>3 DEF InTransaction, Edits!Editor, Edits!EditorAt
    <3>2. Dated'
      BY <2>1, <3>1, Dates DEF Dated
    <3> QED
      BY <2>1, <2>2, <3>1, <3>2
  <2>4. ASSUME NEW at \in {"embed", "retag", "delete"}, NEW t \in Text, memory \in Text,
               editor' = [editor EXCEPT ![r] = [at |-> at, since |-> begun', seen |-> memory, want |-> t]]
        PROVE  EditsInv'
    <3>1. editor'[r] = [at |-> at, since |-> begun + 1, seen |-> memory, want |-> t]
      BY <2>1, <2>4
    <3>2. \A s \in Thread : s # r => editor'[s] = editor[s] /\ InTransaction(s)' = InTransaction(s)
      BY <2>4 DEF InTransaction
    <3>3. editor' \in [Thread -> Edits!Editor]
      BY <2>1, <2>4 DEF Edits!Editor, Edits!EditorAt, Edits!Nothing
    <3>4. Dated'
      <4>1. \A s \in Thread : editor[s].since \in Nat
        BY Dates
      <4>2. \A k \in 1..Len(audit) : audit[k].since \in Nat /\ audit[k].since <= begun
        BY Dates DEF Dated
      <4>3. ASSUME NEW s \in Thread, InTransaction(s)'
            PROVE  /\ editor'[s].since <= begun'
                   /\ \A k \in 1..Len(audit) : audit[k].since # editor'[s].since
        BY <2>1, <3>1, <3>2, <4>1, <4>2, <4>3 DEF Dated
      <4>4. ASSUME NEW s \in Thread, s # r, InTransaction(s)'
            PROVE  editor'[s].since # editor'[r].since
        BY <3>1, <3>2, <4>1, <4>4 DEF Dated
      <4>5. ASSUME NEW s \in Thread, NEW u \in Thread, InTransaction(s)', InTransaction(u)',
                   editor'[s].since = editor'[u].since
            PROVE  s = u
        BY <3>2, <4>4, <4>5 DEF Dated
      <4> QED
        BY <2>1, <4>2, <4>3, <4>5 DEF Dated
    <3>5. \A s \in Thread : InTransaction(s)' => editor'[s].seen \in Text /\ editor'[s].want \in Text
      BY <3>1, <3>2, <2>4
    <3> QED
      BY <2>1, <2>2, <3>3, <3>4, <3>5
  <2> QED
    BY <1>3, <2>3, <2>4 DEF Edits!Read, Edits!Goes
<1>4. ASSUME NEW r \in Thread, Edits!GiveUp(r) \/ Edits!WriteGone(r)
      PROVE  EditsInv'
  <2>1. /\ UNCHANGED <<memory, audit, begun>> /\ editor[r].at \in {"embed", "retag"}
        /\ editor' = [editor EXCEPT ![r].at = "over"]
    BY <1>4 DEF Edits!GiveUp, Edits!WriteGone, Edits!Goes
  <2>2. Edits!EditsAudited'
    BY <2>1 DEF Edits!EditsAudited, Edits!NewestShown
  <2>3. /\ editor' \in [Thread -> Edits!Editor]
        /\ \A s \in Thread : InTransaction(s)' => InTransaction(s) /\ editor'[s] = editor[s]
    BY <2>1 DEF InTransaction, Edits!Editor, Edits!EditorAt
  <2>4. Dated'
    BY <2>1, <2>3 DEF Dated
  <2> QED
    BY <2>1, <2>2, <2>3, <2>4
<1>5. ASSUME NEW r \in Thread, Edits!Write(r)
      PROVE  EditsInv'
  <2> DEFINE e == [action |-> "edited", old |-> editor[r].seen, new |-> editor[r].want,
                   content |-> editor[r].at = "embed", since |-> editor[r].since]
  <2>1. /\ editor[r].at \in {"embed", "retag"} /\ memory \in Text /\ InTransaction(r)
        /\ memory' = IF editor[r].at = "embed" THEN editor[r].want ELSE memory
        /\ editor' = [editor EXCEPT ![r].at = "over"] /\ begun' = begun
    BY <1>5 DEF Edits!Write, Edits!Goes, InTransaction
  <2>2. /\ e \in Edits!Entry /\ e.new = editor[r].want /\ (e.content <=> editor[r].at = "embed")
        /\ e.since = editor[r].since
    BY DEF Edits!Entry, Edits!Editor
  <2>3. audit' = Append(audit, e)
    BY <1>5 DEF Edits!Write, Edits!Log
  <2> HIDE DEF e
  <2>4. memory' \in Text
    BY <2>1
  <2> QED
    BY <2>1, <2>2, <2>3, <2>4, LogKeeps
<1>6. ASSUME NEW r \in Thread, Edits!Delete(r)
      PROVE  EditsInv'
  <2> DEFINE e == [action |-> "deleted", old |-> editor[r].seen, new |-> "deleted", content |-> TRUE,
                   since |-> editor[r].since]
  <2>1. /\ editor[r].at = "delete" /\ memory # "absent" /\ InTransaction(r) /\ memory' = "deleted"
        /\ editor' = [editor EXCEPT ![r].at = "over"] /\ begun' = begun
    BY <1>6 DEF Edits!Delete, Edits!Goes, InTransaction
  <2>2. e \in Edits!Entry /\ e.new = "deleted" /\ e.content /\ e.since = editor[r].since
    BY DEF Edits!Entry, Edits!Editor
  <2>3. audit' = Append(audit, e)
    BY <1>6 DEF Edits!Delete, Edits!Log
  <2> HIDE DEF e
  <2> QED
    BY <2>1, <2>2, <2>3, LogKeeps
<1>7. CASE UNCHANGED editsVars
  BY <1>7 DEF editsVars, Edits!EditsAudited, Edits!NewestShown, Dated, InTransaction
<1> QED
  BY <1>1, <1>2, <1>3, <1>4, <1>5, <1>6, <1>7 DEF Edits!Next, Edits!Edits

-----------------------------------------------------------------------------
(* SnapshotStore.  A request that was turned away k times has seen k versions *)
(* taken since it began.                                                     *)

\* The operator of the instance is the one of the library's theorems.
LEMMA CardinalityIs == \A S : Snapshots!Cardinality(S) = Cardinality(S)
  BY DEF Snapshots!Cardinality, Cardinality

Count == Cardinality(Snapshots!Saved)

SaverType == [at : {"read", "insert", "saved", "refused"}, version : Nat, failed : Nat]

SnapTypes == versions \in [Writer -> Nat] /\ saver \in [Writer -> SaverType]

\* The versions of the saved rows are those up to their number.
Gapless == {versions[w] : w \in Snapshots!Saved} = 1..Count

\* How far a request has got, and what that says of the rows.
Attempts ==
    \A w \in Writer :
        /\ versions[w] # 0 <=> saver[w].at = "saved"
        /\ saver[w].at = "read" => saver[w].failed <= Count
        /\ saver[w].at = "insert" =>
              saver[w].version \in 1..(Count + 1) /\ saver[w].failed < saver[w].version
        /\ saver[w].at = "refused" => Count >= Tries

SnapInv == owned => SnapTypes /\ Gapless /\ Attempts

LEMMA CountIs ==
  /\ IsFiniteSet(Snapshots!Saved)
  /\ Count \in Nat /\ Cardinality(Writer) \in Nat /\ Count <= Cardinality(Writer)
<1>1. Snapshots!Saved \subseteq Writer
  BY DEF Snapshots!Saved
<1> QED
  BY <1>1, WriterAssumption, FS_Subset, FS_CardinalityType DEF Count

LEMMA SnapInit == Snapshots!Init => SnapInv
<1> SUFFICES ASSUME Snapshots!Init
             PROVE  SnapInv
  OBVIOUS
<1>1. Snapshots!Saved = {}
  BY DEF Snapshots!Init, Snapshots!Saved
<1>2. Count = 0
  BY <1>1, FS_EmptySet DEF Count
<1> QED
  BY <1>1, <1>2 DEF Snapshots!Init, SnapInv, SnapTypes, SaverType, Gapless, Attempts

\* The highest version that is taken is the number of rows.
LEMMA HighestIs == ASSUME SnapTypes, Gapless PROVE Snapshots!Highest = Count
<1> DEFINE Is(v) == /\ v = 0 \/ \E w \in Writer : versions[w] = v
                    /\ \A w \in Writer : versions[w] <= v
<1>2. \A w \in Writer : versions[w] \in Nat /\ (versions[w] # 0 => versions[w] \in 1..Count)
  BY DEF SnapTypes, Gapless, Snapshots!Saved
<1>3. Count # 0 => \E w \in Writer : versions[w] = Count
  <2> SUFFICES ASSUME Count # 0
               PROVE  \E w \in Writer : versions[w] = Count
    OBVIOUS
  <2>1. Count \in {versions[w] : w \in Snapshots!Saved}
    BY CountIs DEF Gapless
  <2> QED
    BY <2>1 DEF Snapshots!Saved
<1>4. Count \in 0..Cardinality(Writer) /\ Is(Count)
  BY <1>2, <1>3, CountIs
<1>5. ASSUME NEW v \in 0..Cardinality(Writer), Is(v)
      PROVE  v = Count
  <2>1. v <= Count
    BY <1>2, <1>5, CountIs
  <2>2. Count <= v
    BY <1>3, <1>5, CountIs
  <2> QED
    BY <2>1, <2>2, CountIs
<1>6. \E v \in 0..Cardinality(Writer) : Is(v)
  BY <1>4
<1>7. Snapshots!Highest \in 0..Cardinality(Writer) /\ Is(Snapshots!Highest)
  BY <1>6, CardinalityIs, Zenon DEF Snapshots!Highest
<1> QED
  BY <1>5, <1>7

\* A row with the next version.
LEMMA InsertKeeps ==
  ASSUME owned, SnapInv, NEW w \in Writer, Snapshots!Insert(w)
  PROVE  SnapInv'
<1>1. SnapTypes /\ Gapless /\ Attempts /\ owned'
  BY DEF SnapInv, Snapshots!Insert
<1>2. /\ saver[w].at = "insert" /\ versions[w] = 0
      /\ saver[w].version \in 1..(Count + 1)
      /\ versions' = [versions EXCEPT ![w] = saver[w].version]
      /\ saver' = [saver EXCEPT ![w].at = "saved"]
  BY <1>1 DEF Snapshots!Insert, Attempts
<1>3. saver[w].version \notin 1..Count
  BY <1>1 DEF Snapshots!Insert, Snapshots!Taken, Gapless, Snapshots!Saved
<1>4. saver[w].version = Count + 1
  BY <1>2, <1>3, CountIs
<1>5. w \notin Snapshots!Saved /\ Snapshots!Saved' = Snapshots!Saved \cup {w}
  BY <1>1, <1>2, <1>4, CountIs DEF Snapshots!Saved, SnapTypes
<1>6. Count' = Count + 1
  BY <1>5, CountIs, FS_AddElement DEF Count
<1>7. SnapTypes'
  BY <1>1, <1>2, <1>4, CountIs DEF SnapTypes, SaverType
<1>8. Gapless'
  <2>1. {versions'[v] : v \in Snapshots!Saved'} = {versions[v] : v \in Snapshots!Saved} \cup {Count + 1}
    BY <1>1, <1>2, <1>4, <1>5 DEF Snapshots!Saved, SnapTypes
  <2>2. 1..(Count + 1) = (1..Count) \cup {Count + 1}
    BY CountIs
  <2> QED
    BY <1>1, <1>6, <2>1, <2>2 DEF Gapless
<1>9. Attempts'
  BY <1>1, <1>2, <1>4, <1>6, CountIs, WriterAssumption DEF Attempts, SnapTypes, SaverType
<1> QED
  BY <1>7, <1>8, <1>9 DEF SnapInv

\* A request that reads, or is turned away.
LEMMA AttemptKeeps ==
  ASSUME owned, SnapInv, NEW w \in Writer, Snapshots!ReadHighest(w) \/ Snapshots!Conflict(w)
  PROVE  SnapInv'
<1>1. SnapTypes /\ Gapless /\ Attempts /\ owned' /\ versions' = versions
  BY DEF SnapInv, Snapshots!ReadHighest, Snapshots!Conflict
<1>2. Count' = Count /\ Gapless'
  BY <1>1 DEF Count, Gapless, Snapshots!Saved
<1>3. CASE Snapshots!ReadHighest(w)
  <2>1. /\ saver[w].at = "read" /\ saver[w].failed \in Nat /\ saver[w].failed <= Count
        /\ saver' = [saver EXCEPT ![w].at = "insert", ![w].version = Count + 1]
    BY <1>1, <1>3, HighestIs DEF Snapshots!ReadHighest, Attempts, SnapTypes, SaverType
  <2>2. SnapTypes'
    <3>1. Count + 1 \in Nat
      BY CountIs
    <3> QED
      BY <1>1, <2>1, <3>1 DEF SnapTypes, SaverType
  <2>3. Attempts'
    BY <1>1, <1>2, <2>1, CountIs DEF Attempts, SnapTypes, SaverType
  <2> QED
    BY <1>2, <2>2, <2>3 DEF SnapInv
<1>4. CASE Snapshots!Conflict(w)
  <2>1. /\ saver[w].at = "insert" /\ saver[w].failed \in Nat /\ saver[w].failed < saver[w].version
        /\ saver' = [saver EXCEPT ![w].failed = @ + 1,
                                  ![w].at = IF saver[w].failed + 1 = Tries THEN "refused" ELSE "read"]
    BY <1>1, <1>4 DEF Snapshots!Conflict, Attempts, SnapTypes, SaverType
  <2>2. saver[w].version \in 1..Count
    <3>1. PICK v \in Writer : versions[v] = saver[w].version
      BY <1>4 DEF Snapshots!Conflict, Snapshots!Taken
    <3>2. saver[w].version \in Nat /\ saver[w].version # 0
      BY <1>1, <2>1, CountIs DEF Attempts, SnapTypes, SaverType
    <3> QED
      BY <1>1, <3>1, <3>2 DEF Gapless, Snapshots!Saved
  <2>3. saver[w].failed + 1 <= Count
    BY <2>1, <2>2, CountIs
  <2>4. SnapTypes'
    BY <1>1, <2>1 DEF SnapTypes, SaverType
  <2>5. Attempts'
    BY <1>1, <1>2, <2>1, <2>3, CountIs, WriterAssumption DEF Attempts, SnapTypes, SaverType
  <2> QED
    BY <1>2, <2>4, <2>5 DEF SnapInv
<1> QED
  BY <1>3, <1>4

LEMMA SnapStep == SnapInv /\ [Snapshots!Next]_snapshotsVars => SnapInv'
<1> SUFFICES ASSUME SnapInv, [Snapshots!Next]_snapshotsVars
             PROVE  SnapInv'
  OBVIOUS
<1>1. owned' = owned
  BY DEF Snapshots!Next, Snapshots!ReadHighest, Snapshots!Insert, Snapshots!Conflict, snapshotsVars
<1>2. CASE ~owned
  BY <1>1, <1>2 DEF SnapInv
<1>3. CASE UNCHANGED snapshotsVars
  BY <1>3 DEF snapshotsVars, SnapInv, SnapTypes, Gapless, Attempts, Count, Snapshots!Saved
<1>4. CASE owned /\ Snapshots!Next
  BY <1>4, InsertKeeps, AttemptKeeps DEF Snapshots!Next
<1> QED
  BY <1>2, <1>3, <1>4

-----------------------------------------------------------------------------
(* EntityExtraction.  Whatever enters the cache of a call is in the table or   *)
(* enters its transaction, until one of its batches fails.                   *)

CallFields == {"at", "todo", "left", "known", "new", "failed"}

\* A call that has not failed knows what is in the table or in its transaction.
Truthful(c) == ~extraction[c].failed => extraction[c].known \subseteq entities \cup extraction[c].new

EntitiesInv ==
    /\ extraction = [c \in Thread |-> extraction[c]]
    /\ \A c \in Thread : DOMAIN extraction[c] = CallFields /\ Truthful(c)

LEMMA EntitiesInit == Entities!Init => EntitiesInv
  BY DEF Entities!Init, Entities!Rest, EntitiesInv, CallFields, Truthful

\* A step of call c: the others are as they were, and the table has grown at most.
LEMMA OneCallMoves ==
  ASSUME EntitiesInv, NEW c \in Thread, NEW next,
         extraction' = [extraction EXCEPT ![c] = next],
         entities \subseteq entities',
         DOMAIN next = CallFields,
         ~next.failed => next.known \subseteq entities' \cup next.new
  PROVE  EntitiesInv'
<1>1. \A d \in Thread : extraction'[d] = IF d = c THEN next ELSE extraction[d]
  BY DEF EntitiesInv
<1>2. extraction' = [d \in Thread |-> extraction'[d]]
  BY DEF EntitiesInv
<1>3. ASSUME NEW d \in Thread
      PROVE  DOMAIN extraction'[d] = CallFields /\ Truthful(d)'
  BY <1>1 DEF EntitiesInv, Truthful
<1> QED
  BY <1>2, <1>3 DEF EntitiesInv

\* The state of a call after its batch.
LEMMA AdvancedIs ==
  ASSUME EntitiesInv, NEW c \in Thread
  PROVE  /\ DOMAIN Entities!Advanced(c) = CallFields
         /\ \/ Entities!Advanced(c).known = {}
            \/ /\ Entities!Advanced(c).known = extraction[c].known
               /\ Entities!Advanced(c).failed = extraction[c].failed
  BY DEF Entities!Advanced, Entities!Rest, EntitiesInv, CallFields

LEMMA RollbackKeeps ==
  ASSUME EntitiesInv, NEW c \in Thread, Entities!Rollback(c)
  PROVE  EntitiesInv'
<1> DEFINE next == IF Len(extraction[c].todo) = 1 THEN Entities!Rest
                   ELSE [Entities!Advanced(c) EXCEPT !.failed = TRUE]
<1>1. extraction' = [extraction EXCEPT ![c] = next] /\ entities' = entities
  BY DEF Entities!Rollback
<1>2. DOMAIN next = CallFields /\ (next.failed \/ next.known = {})
  BY AdvancedIs DEF Entities!Rest, CallFields
<1> HIDE DEF next
<1> QED
  BY <1>1, <1>2, OneCallMoves

\* The state of a call after a label.
LEMMA DealtIs ==
  ASSUME EntitiesInv, NEW c \in Thread
  PROVE  /\ DOMAIN Entities!Dealt(c) = CallFields
         /\ Entities!Dealt(c).known = extraction[c].known \cup {Entities!Now(c)}
         /\ Entities!Dealt(c).new = extraction[c].new
         /\ Entities!Dealt(c).failed = extraction[c].failed
  BY DEF Entities!Dealt, EntitiesInv, CallFields

\* A call goes on with its cache and its transaction as they are.
LEMMA SameCacheKeeps ==
  ASSUME EntitiesInv, NEW c \in Thread, NEW next,
         extraction' = [extraction EXCEPT ![c] = next], entities' = entities,
         DOMAIN next = CallFields, next.known = extraction[c].known,
         next.new = extraction[c].new, next.failed = extraction[c].failed
  PROVE  EntitiesInv'
<1>1. ~next.failed => next.known \subseteq entities' \cup next.new
  BY DEF EntitiesInv, Truthful
<1> QED
  BY <1>1, OneCallMoves

LEMMA EntitiesStep == EntitiesInv /\ [Entities!Next]_entitiesVars => EntitiesInv'
<1> SUFFICES ASSUME EntitiesInv, [Entities!Next]_entitiesVars
             PROVE  EntitiesInv'
  OBVIOUS
<1>1. CASE Entities!Restart
  BY <1>1 DEF Entities!Restart, Entities!Rest, EntitiesInv, CallFields, Truthful
<1>2. ASSUME NEW c \in Thread, Entities!Fetch(c)
      PROVE  EntitiesInv'
  <2>1. PICK todo_ : /\ entities' = entities
                     /\ extraction' = [extraction EXCEPT ![c] =
                                        [Entities!Rest EXCEPT !.at = "load", !.todo = todo_]]
    BY <1>2 DEF Entities!Fetch
  <2> DEFINE next == [Entities!Rest EXCEPT !.at = "load", !.todo = todo_]
  <2>2. DOMAIN next = CallFields /\ next.known = {}
    BY DEF Entities!Rest, CallFields
  <2> HIDE DEF next
  <2> QED
    BY <2>1, <2>2, OneCallMoves DEF next
<1>3. ASSUME NEW c \in Thread, Entities!LoadCache(c)
      PROVE  EntitiesInv'
  <2> DEFINE next == [extraction[c] EXCEPT !.at = "ask", !.known = entities]
  <2>1. extraction' = [extraction EXCEPT ![c] = next] /\ entities' = entities
    BY <1>3 DEF Entities!LoadCache, EntitiesInv
  <2>2. DOMAIN next = CallFields /\ next.known = entities
    BY DEF EntitiesInv, CallFields
  <2> HIDE DEF next
  <2> QED
    BY <2>1, <2>2, OneCallMoves
<1>4. ASSUME NEW c \in Thread, Entities!AskModel(c)
      PROVE  EntitiesInv'
  <2>1. PICK found : /\ entities' = entities
                     /\ extraction' = [extraction EXCEPT ![c].at = "lookup", ![c].left = found]
    BY <1>4 DEF Entities!AskModel
  <2> DEFINE next == [extraction[c] EXCEPT !.at = "lookup", !.left = found]
  <2>2. extraction' = [extraction EXCEPT ![c] = next]
    BY <2>1 DEF EntitiesInv
  <2>3. /\ DOMAIN next = CallFields /\ next.known = extraction[c].known
        /\ next.new = extraction[c].new /\ next.failed = extraction[c].failed
    BY DEF EntitiesInv, CallFields
  <2> HIDE DEF next
  <2> QED
    BY <2>1, <2>2, <2>3, SameCacheKeeps
<1>5. ASSUME NEW c \in Thread, Entities!Update(c)
      PROVE  EntitiesInv'
  <2> DEFINE next == Entities!Dealt(c)
  <2>1. extraction' = [extraction EXCEPT ![c] = next] /\ entities' = entities
    BY <1>5 DEF Entities!Update
  <2>2. Entities!Now(c) \in extraction[c].known \cup entities
    BY <1>5 DEF Entities!Update, Entities!There
  <2>3. ~next.failed => next.known \subseteq entities \cup next.new
    BY <2>2, DealtIs DEF EntitiesInv, Truthful
  <2>4. DOMAIN next = CallFields
    BY DealtIs
  <2> HIDE DEF next
  <2> QED
    BY <2>1, <2>3, <2>4, OneCallMoves
<1>6. ASSUME NEW c \in Thread, Entities!WaitFor(c)
      PROVE  EntitiesInv'
  <2> DEFINE next == [extraction[c] EXCEPT !.at = "wait"]
  <2>1. extraction' = [extraction EXCEPT ![c] = next] /\ entities' = entities
    BY <1>6 DEF Entities!WaitFor, EntitiesInv
  <2>2. /\ DOMAIN next = CallFields /\ next.known = extraction[c].known
        /\ next.new = extraction[c].new /\ next.failed = extraction[c].failed
    BY DEF EntitiesInv, CallFields
  <2> HIDE DEF next
  <2> QED
    BY <2>1, <2>2, SameCacheKeeps
<1>7. ASSUME NEW c \in Thread, Entities!Insert(c)
      PROVE  EntitiesInv'
  <2> DEFINE next == [Entities!Dealt(c) EXCEPT !.new = @ \cup {Entities!Now(c)}]
  <2>1. extraction' = [extraction EXCEPT ![c] = next] /\ entities' = entities
    BY <1>7 DEF Entities!Insert
  <2>2. /\ DOMAIN next = CallFields
        /\ next.known = extraction[c].known \cup {Entities!Now(c)}
        /\ next.new = extraction[c].new \cup {Entities!Now(c)}
        /\ next.failed = extraction[c].failed
    BY DealtIs DEF CallFields
  <2>3. ~next.failed => next.known \subseteq entities \cup next.new
    BY <2>2 DEF EntitiesInv, Truthful
  <2> HIDE DEF next
  <2> QED
    BY <2>1, <2>2, <2>3, OneCallMoves
<1>8. ASSUME NEW c \in Thread, Entities!Refused(c) \/ Entities!Deadlocked(c) \/ Entities!BatchBreaks(c)
      PROVE  EntitiesInv'
  BY <1>8, RollbackKeeps DEF Entities!Refused, Entities!Deadlocked, Entities!BatchBreaks
<1>9. ASSUME NEW c \in Thread, Entities!Commit(c)
      PROVE  EntitiesInv'
  <2> DEFINE next == Entities!Advanced(c)
  <2>1. /\ extraction' = [extraction EXCEPT ![c] = next]
        /\ entities' = entities \cup extraction[c].new
    BY <1>9 DEF Entities!Commit
  <2>2. ~next.failed => next.known \subseteq entities'
    BY <2>1, AdvancedIs DEF EntitiesInv, Truthful
  <2>3. DOMAIN next = CallFields
    BY AdvancedIs
  <2> HIDE DEF next
  <2> QED
    BY <2>1, <2>2, <2>3, OneCallMoves
<1>10. CASE UNCHANGED entitiesVars
  BY <1>10 DEF entitiesVars, EntitiesInv, Truthful
<1> QED
  BY <1>1, <1>2, <1>3, <1>4, <1>5, <1>6, <1>7, <1>8, <1>9, <1>10 DEF Entities!Next

-----------------------------------------------------------------------------

MemoryInv == EditsInv /\ SnapInv /\ EntitiesInv

\* The memory service accounts for what it keeps, for any numbers of requests, writers and calls: the
\* entry that the trail shows as the newest has the text of the memory, or one of a request that
\* overlapped with it has; the snapshots of an owner are numbered without a gap; and a call believes
\* in rows that are there.
THEOREM MemoryIsAccounted == FairSpec => []MemoryAccounted
<1>1. Init => MemoryInv
  BY EditsInit, SnapInit, EntitiesInit DEF Init, MemoryInv
<1>2. MemoryInv /\ [Next]_vars => MemoryInv'
  BY EditsStep, SnapStep, EntitiesStep, OneSteps DEF MemoryInv
<1>3. MemoryInv => MemoryAccounted
  <2>1. SnapInv => Snapshots!SnapshotsKept
    BY CardinalityIs DEF SnapInv, Gapless, Attempts, Count, Snapshots!SnapshotsKept
  <2>2. EntitiesInv => Entities!CacheIsTrue
    BY DEF EntitiesInv, Truthful, Entities!CacheIsTrue
  <2> QED
    BY <2>1, <2>2 DEF MemoryInv, EditsInv, MemoryAccounted
<1> QED
  BY <1>1, <1>2, <1>3, PTL DEF FairSpec

-----------------------------------------------------------------------------
(* HomeBrain.  The record offers for approval only an image that its task     *)
(* found close; what a task found is not changed afterwards.                 *)

TaskType == [device : Device \cup {NoDevice}, search : BOOLEAN,
             at : {"new", "job", "note", "send", "unload", "tell", "over"},
             match : {"none", "strong", "close", "weak", "unscored"},
             word : {"none", "image", "told", "lost"}]

DeliveryType == [status : {"idle", "generating", "review", "no_match", "sent", "failed",
                           "awaiting_target", "awaiting_source"},
                 device : Device \cup {NoDevice}, image : Nat, search : BOOLEAN]

ApprovalType == [image : Nat, device : Device \cup {NoDevice}, at : {"send", "over"}]

BrainTypes == tasks \in Seq(TaskType) /\ delivery \in DeliveryType /\ approvals \in Seq(ApprovalType)

Found(t) == t \in DOMAIN tasks /\ tasks[t].at \notin {"new", "job"}

\* A task sends by itself what it generated, a strong match or one that nobody could look at.
Matched ==
    \A t \in DOMAIN tasks : tasks[t].at = "send" => tasks[t].match \in {"none", "strong", "unscored"}

\* What may be approved, is being sent with approval, and was sent.
Offered == delivery.status = "review" => Found(delivery.image) /\ tasks[delivery.image].match = "close"

Agreed ==
    \A k \in DOMAIN approvals : Found(approvals[k].image) /\ tasks[approvals[k].image].match = "close"

Sent ==
    \A s \in sent :
        /\ Found(s.image) /\ tasks[s.image].match # "weak"
        /\ tasks[s.image].match = "close" => s.approved

BrainInv == BrainTypes /\ Matched /\ Offered /\ Agreed /\ Sent

LEMMA BrainInit == Brain!Init => BrainInv
  BY DEF Brain!Init, Brain!Idle, BrainInv, BrainTypes, DeliveryType, Matched, Offered, Agreed, Sent

\* What a task found stays so.
KeepsFound ==
    \A t \in DOMAIN tasks :
        Found(t) => Found(t)' /\ tasks'[t].match = tasks[t].match

\* A step that offers nothing new, approves nothing and sends nothing.
LEMMA PromisesKept ==
  ASSUME BrainInv, KeepsFound, UNCHANGED <<approvals, sent>>,
         delivery' = delivery \/ delivery'.status # "review"
  PROVE  Offered' /\ Agreed' /\ Sent'
  BY DEF BrainInv, KeepsFound, Offered, Agreed, Sent, Found

\* A turn or a task that leaves the tasks and the approvals alone.
LEMMA RecordChanges ==
  ASSUME BrainInv, delivery' \in DeliveryType, delivery'.status # "review",
         UNCHANGED <<tasks, approvals, sent>>
  PROVE  BrainInv'
<1>1. Offered' /\ Agreed' /\ Sent'
  BY PromisesKept DEF KeepsFound, Found
<1>2. BrainTypes' /\ Matched'
  BY DEF BrainInv, BrainTypes, Matched
<1> QED
  BY <1>1, <1>2 DEF BrainInv

\* A turn that begins a task.
LEMMA NewTaskKeeps ==
  ASSUME BrainInv, NEW d \in Device \cup {NoDevice}, NEW search \in BOOLEAN, Brain!NewTask(d, search),
         UNCHANGED <<approvals, sent>>
  PROVE  BrainInv'
<1> DEFINE new == [device |-> d, search |-> search, at |-> "new", match |-> "none", word |-> "none"]
<1>1. new \in TaskType /\ new.at = "new"
  BY DEF TaskType
<1>2. tasks' = Append(tasks, new) /\ delivery' = delivery
  BY DEF Brain!NewTask
<1> HIDE DEF new
<1>3. /\ tasks' \in Seq(TaskType) /\ DOMAIN tasks = 1..Len(tasks) /\ DOMAIN tasks' = 1..(Len(tasks) + 1)
      /\ tasks'[Len(tasks) + 1] = new /\ Len(tasks) \in Nat
      /\ \A t \in DOMAIN tasks : t \in DOMAIN tasks' /\ tasks'[t] = tasks[t]
  BY <1>1, <1>2 DEF BrainInv, BrainTypes
<1>4. Offered' /\ Agreed' /\ Sent'
  BY <1>2, <1>3, PromisesKept DEF KeepsFound, Found
<1>5. Matched'
  BY <1>1, <1>3 DEF BrainInv, Matched
<1> QED
  BY <1>2, <1>3, <1>4, <1>5 DEF BrainInv, BrainTypes

\* A sequence with one element changed.
LEMMA OneElementChanges ==
  ASSUME NEW S, NEW s \in Seq(S), NEW i \in DOMAIN s, NEW e \in S
  PROVE  /\ [s EXCEPT ![i] = e] \in Seq(S)
         /\ DOMAIN [s EXCEPT ![i] = e] = DOMAIN s
         /\ [s EXCEPT ![i] = e][i] = e
         /\ \A j \in DOMAIN s : j # i => [s EXCEPT ![i] = e][j] = s[j]
  OBVIOUS

\* A task that goes on with the match that it has.
LEMMA TaskMovesOn ==
  ASSUME BrainInv, NEW t \in DOMAIN tasks, NEW at \in {"job", "unload", "tell", "over"},
         at = "job" => tasks[t].at = "new",
         \/ Brain!Goes(t, at)
         \/ at = "over" /\ \E word \in {"image", "told", "lost"} : Brain!Ends(t, word)
  PROVE  tasks' \in Seq(TaskType) /\ KeepsFound /\ Matched'
<1>1. tasks \in Seq(TaskType) /\ tasks[t] \in TaskType
  BY DEF BrainInv, BrainTypes
<1>2. PICK new \in TaskType :
        new.at = at /\ new.match = tasks[t].match /\ tasks' = [tasks EXCEPT ![t] = new]
  <2>1. CASE Brain!Goes(t, at)
    <3> DEFINE new == [tasks[t] EXCEPT !.at = at]
    <3>1. new \in TaskType /\ new.at = at /\ new.match = tasks[t].match
      BY <1>1 DEF TaskType
    <3> QED
      BY <1>1, <2>1, <3>1 DEF Brain!Goes
  <2>2. ASSUME NEW word \in {"image", "told", "lost"}, at = "over", Brain!Ends(t, word)
        PROVE  \E new \in TaskType :
                  new.at = at /\ new.match = tasks[t].match /\ tasks' = [tasks EXCEPT ![t] = new]
    <3> DEFINE new == [tasks[t] EXCEPT !.at = "over", !.word = word]
    <3>1. new \in TaskType /\ new.at = at /\ new.match = tasks[t].match
      BY <1>1, <2>2 DEF TaskType
    <3> QED
      BY <1>1, <2>2, <3>1 DEF Brain!Ends
  <2> QED
    BY <2>1, <2>2
<1>3. /\ tasks' \in Seq(TaskType) /\ DOMAIN tasks' = DOMAIN tasks
      /\ tasks'[t].at = at /\ tasks'[t].match = tasks[t].match
      /\ \A u \in DOMAIN tasks : u # t => tasks'[u] = tasks[u]
  BY <1>1, <1>2, OneElementChanges
<1> QED
  BY <1>3 DEF KeepsFound, Found, BrainInv, Matched

\* A task that has found an image.
LEMMA TaskFindsKeeps ==
  ASSUME BrainInv, NEW t \in DOMAIN tasks, Brain!TaskFinds(t)
  PROVE  BrainInv'
<1>1. /\ tasks[t].at = "job" /\ UNCHANGED <<approvals, sent>>
      /\ t \in Nat /\ delivery \in DeliveryType
  BY DEF Brain!TaskFinds, BrainInv, BrainTypes
<1>2. PICK at \in {"send", "note"}, match \in {"none", "strong", "unscored", "close", "weak"} :
        /\ tasks' = [tasks EXCEPT ![t].at = at, ![t].match = match]
        /\ at = "send" <=> match \in {"none", "strong", "unscored"}
        /\ \/ at = "send" /\ UNCHANGED delivery
           \/ /\ at = "note"
              /\ delivery' = [delivery EXCEPT !.image = t,
                                  !.status = IF match = "close" THEN "review" ELSE "no_match"]
  BY DEF Brain!TaskFinds
<1>3. /\ tasks' \in Seq(TaskType) /\ DOMAIN tasks' = DOMAIN tasks
      /\ tasks'[t].at = at /\ tasks'[t].match = match
      /\ \A u \in DOMAIN tasks : u # t => tasks'[u] = tasks[u]
  <2> DEFINE new == [tasks[t] EXCEPT !.at = at, !.match = match]
  <2>1. tasks \in Seq(TaskType) /\ tasks[t] \in TaskType
    BY DEF BrainInv, BrainTypes
  <2>2. new \in TaskType /\ new.at = at /\ new.match = match
    BY <2>1 DEF TaskType
  <2>3. tasks' = [tasks EXCEPT ![t] = new]
    BY <1>2, <2>1
  <2> HIDE DEF new
  <2> QED
    BY <2>1, <2>2, <2>3, OneElementChanges
<1>4. KeepsFound
  BY <1>1, <1>3 DEF KeepsFound, Found
<1>5. Matched'
  BY <1>2, <1>3 DEF BrainInv, Matched
<1>6. Agreed' /\ Sent'
  BY <1>1, <1>4 DEF BrainInv, KeepsFound, Agreed, Sent, Found
<1>7. CASE at = "send"
  BY <1>1, <1>2, <1>3, <1>4, <1>5, <1>7, PromisesKept DEF BrainInv, BrainTypes
<1>8. CASE at = "note"
  <2>1. delivery'.image = t /\ (delivery'.status = "review" => match = "close")
    BY <1>1, <1>2, <1>8 DEF DeliveryType
  <2>2. delivery' \in DeliveryType
    BY <1>1, <1>2, <1>8 DEF DeliveryType
  <2>3. Offered'
    BY <1>2, <1>3, <1>8, <2>1 DEF Offered, Found
  <2> QED
    BY <1>1, <1>3, <1>5, <1>6, <2>2, <2>3 DEF BrainInv, BrainTypes
<1> QED
  BY <1>2, <1>7, <1>8

\* The other steps of a task.
LEMMA TaskKeeps ==
  ASSUME BrainInv, NEW t \in DOMAIN tasks, Brain!TaskStep(t) \/ Brain!TaskRefused(t)
  PROVE  BrainInv'
<1>1. t \in Nat /\ tasks[t] \in TaskType /\ delivery \in DeliveryType /\ approvals \in Seq(ApprovalType)
  BY DEF BrainInv, BrainTypes
<1>2. ASSUME NEW at \in {"job", "unload", "tell", "over"},
             at = "job" => tasks[t].at = "new",
             \/ Brain!Goes(t, at)
             \/ at = "over" /\ \E word \in {"image", "told", "lost"} : Brain!Ends(t, word),
             UNCHANGED <<approvals, sent>>,
             delivery' = delivery \/ (delivery' \in DeliveryType /\ delivery'.status # "review")
      PROVE  BrainInv'
  <2>1. tasks' \in Seq(TaskType) /\ KeepsFound /\ Matched'
    BY <1>2, TaskMovesOn
  <2> QED
    BY <1>1, <1>2, <2>1, PromisesKept DEF BrainInv, BrainTypes
<1>3. ASSUME Brain!TaskFails(t)
      PROVE  BrainInv'
  <2>1. delivery' \in DeliveryType /\ delivery'.status = "failed"
    BY <1>1, <1>3 DEF Brain!TaskFails, DeliveryType
  <2> QED
    BY <1>2, <1>3, <2>1 DEF Brain!TaskFails
<1>4. CASE Brain!TaskBegins(t)
  <2>1. delivery' \in DeliveryType /\ delivery'.status = "generating"
    BY <1>1, <1>4 DEF Brain!TaskBegins, DeliveryType, TaskType
  <2> QED
    BY <1>2, <1>4, <2>1 DEF Brain!TaskBegins
<1>5. CASE Brain!TaskTimesOut(t) \/ Brain!TaskRefused(t)
  BY <1>3, <1>5 DEF Brain!TaskTimesOut, Brain!TaskRefused
<1>6. CASE Brain!TaskUnloads(t)
  <2>1. delivery' \in DeliveryType /\ delivery'.status = "sent"
    BY <1>1, <1>6 DEF Brain!TaskUnloads, DeliveryType
  <2> QED
    BY <1>2, <1>6, <2>1 DEF Brain!TaskUnloads
<1>7. CASE Brain!TaskTells(t)
  BY <1>2, <1>3, <1>7 DEF Brain!TaskTells
<1>8. CASE Brain!TaskSends(t) /\ ~Brain!TaskFails(t)
  <2>1. tasks[t].at = "send" /\ tasks[t].match \in {"none", "strong", "unscored"}
    BY <1>8 DEF Brain!TaskSends, BrainInv, Matched
  <2>2. PICK at \in {"over", "unload"} :
           /\ Brain!Goes(t, at) \/ (at = "over" /\ \E word \in {"image", "told", "lost"} : Brain!Ends(t, word))
           /\ delivery' = delivery \/ delivery' = [delivery EXCEPT !.status = "sent", !.image = t]
           /\ UNCHANGED approvals
    BY <1>8 DEF Brain!TaskSends
  <2>3. sent' = sent \cup {[image |-> t, device |-> tasks[t].device, approved |-> FALSE]}
    BY <1>8 DEF Brain!TaskSends
  <2>4. tasks' \in Seq(TaskType) /\ KeepsFound /\ Matched'
    BY <2>2, TaskMovesOn
  <2>5. delivery' = delivery \/ (delivery' \in DeliveryType /\ delivery'.status = "sent")
    BY <1>1, <2>2 DEF DeliveryType
  <2>6. Offered' /\ Agreed'
    BY <2>2, <2>4, <2>5 DEF BrainInv, KeepsFound, Offered, Agreed, Found
  <2>7. Found(t)' /\ tasks'[t].match \in {"none", "strong", "unscored"}
    BY <2>1, <2>4 DEF KeepsFound, Found
  <2>8. Sent'
    BY <2>3, <2>4, <2>7 DEF BrainInv, KeepsFound, Sent, Found
  <2> QED
    BY <1>1, <2>2, <2>4, <2>5, <2>6, <2>8 DEF BrainInv, BrainTypes
<1> QED
  BY <1>3, <1>4, <1>5, <1>6, <1>7, <1>8 DEF Brain!TaskStep

\* A turn that approves, and its notification.
LEMMA ApproveKeeps == BrainInv /\ Brain!Approve => BrainInv'
<1> SUFFICES ASSUME BrainInv, Brain!Approve
             PROVE  BrainInv'
  OBVIOUS
<1> DEFINE new == [image |-> delivery.image, device |-> delivery.device, at |-> "send"]
<1>1. new \in ApprovalType /\ new.image = delivery.image
  BY DEF BrainInv, BrainTypes, DeliveryType, ApprovalType
<1>2. approvals' = Append(approvals, new) /\ UNCHANGED <<delivery, tasks, sent>>
  BY DEF Brain!Approve
<1>3. Found(delivery.image) /\ tasks[delivery.image].match = "close"
  BY DEF Brain!Approve, Brain!Approvable, BrainInv, Offered
<1> HIDE DEF new
<1>4. /\ approvals' \in Seq(ApprovalType)
      /\ \A k \in DOMAIN approvals' : approvals'[k] = new \/ (k \in DOMAIN approvals /\ approvals'[k] = approvals[k])
  BY <1>1, <1>2 DEF BrainInv, BrainTypes
<1>5. Agreed'
  BY <1>1, <1>2, <1>3, <1>4 DEF BrainInv, Agreed, Found
<1> QED
  BY <1>2, <1>4, <1>5 DEF BrainInv, BrainTypes, Matched, Offered, Sent, Found

LEMMA ApprovedKeeps ==
  ASSUME BrainInv, NEW k \in DOMAIN approvals, Brain!Approved(k)
  PROVE  BrainInv'
<1>1. /\ approvals' \in Seq(ApprovalType) /\ DOMAIN approvals' = DOMAIN approvals
      /\ \A j \in DOMAIN approvals : approvals'[j].image = approvals[j].image
  <2> DEFINE new == [approvals[k] EXCEPT !.at = "over"]
  <2>1. approvals \in Seq(ApprovalType) /\ approvals[k] \in ApprovalType
    BY DEF BrainInv, BrainTypes
  <2>2. new \in ApprovalType /\ new.image = approvals[k].image
    BY <2>1 DEF ApprovalType
  <2>3. approvals' = [approvals EXCEPT ![k] = new]
    BY <2>1 DEF Brain!Approved
  <2> HIDE DEF new
  <2> QED
    BY <2>1, <2>2, <2>3, OneElementChanges
<1>2. /\ tasks' = tasks
      /\ delivery' = delivery \/ (delivery' \in DeliveryType /\ delivery'.status # "review")
  BY DEF Brain!Approved, BrainInv, BrainTypes, DeliveryType
<1>3. \A s \in sent' : s \in sent \/ (s.image = approvals[k].image /\ s.approved)
  BY DEF Brain!Approved
<1>4. Agreed'
  BY <1>1, <1>2 DEF BrainInv, Agreed, Found
<1>5. Sent'
  BY <1>2, <1>3 DEF BrainInv, Agreed, Sent, Found
<1> QED
  BY <1>1, <1>2, <1>4, <1>5 DEF BrainInv, BrainTypes, Matched, Offered, Found

\* A restart.
LEMMA RestartKeeps == BrainInv /\ Brain!Restart => BrainInv'
<1> SUFFICES ASSUME BrainInv, Brain!Restart
             PROVE  BrainInv'
  OBVIOUS
<1>1. /\ tasks \in Seq(TaskType) /\ DOMAIN tasks = 1..Len(tasks) /\ Len(tasks) \in Nat
      /\ approvals \in Seq(ApprovalType) /\ DOMAIN approvals = 1..Len(approvals) /\ Len(approvals) \in Nat
      /\ \A t \in DOMAIN tasks : tasks[t] \in TaskType
      /\ \A k \in DOMAIN approvals : approvals[k] \in ApprovalType
  BY DEF BrainInv, BrainTypes
<1>2. /\ DOMAIN tasks' = DOMAIN tasks
      /\ \A t \in DOMAIN tasks :
          tasks'[t] \in TaskType /\ tasks'[t].at = "over" /\ tasks'[t].match = tasks[t].match
  BY <1>1 DEF Brain!Restart, Brain!Lost, TaskType
<1>3. tasks' \in Seq(TaskType)
  BY <1>1, <1>2 DEF Brain!Restart
<1>4. /\ DOMAIN approvals' = DOMAIN approvals
      /\ \A k \in DOMAIN approvals :
          approvals'[k] \in ApprovalType /\ approvals'[k].image = approvals[k].image
  BY <1>1 DEF Brain!Restart, ApprovalType
<1>5. approvals' \in Seq(ApprovalType)
  BY <1>1, <1>4 DEF Brain!Restart
<1>6. delivery' \in DeliveryType /\ delivery'.status = "idle" /\ sent' = sent
  BY DEF Brain!Restart, Brain!Idle, DeliveryType
<1>7. Matched' /\ Offered'
  BY <1>2, <1>6 DEF Matched, Offered
<1>8. Agreed' /\ Sent'
  BY <1>2, <1>4, <1>6 DEF BrainInv, Agreed, Sent, Found
<1> QED
  BY <1>3, <1>5, <1>6, <1>7, <1>8 DEF BrainInv, BrainTypes

LEMMA TurnKeeps == BrainInv /\ Brain!Turn => BrainInv'
<1> SUFFICES ASSUME BrainInv, Brain!Turn
             PROVE  BrainInv'
  OBVIOUS
<1>1. delivery \in DeliveryType
  BY DEF BrainInv, BrainTypes
<1>2. CASE Brain!Supersede
  BY <1>2, RecordChanges DEF Brain!Supersede, Brain!Idle, DeliveryType
<1>3. CASE Brain!GenerateInstead
  BY <1>1, <1>3, NewTaskKeeps DEF Brain!GenerateInstead, DeliveryType
<1>4. ASSUME NEW d \in Device, Brain!NameTarget(d)
      PROVE  BrainInv'
  BY <1>1, <1>4, NewTaskKeeps DEF Brain!NameTarget, DeliveryType
<1>5. ASSUME NEW search \in BOOLEAN, Brain!ChooseSource(search)
      PROVE  BrainInv'
  BY <1>1, <1>5, NewTaskKeeps DEF Brain!ChooseSource, DeliveryType
<1>6. ASSUME NEW d \in Device \cup {Default}, NEW search \in BOOLEAN, Brain!AskFor(search, d)
      PROVE  BrainInv'
  <2>1. CASE d # NoDevice /\ Brain!NewTask(d, search) /\ UNCHANGED <<approvals, sent>>
    BY <2>1, NewTaskKeeps, DeviceAssumption
  <2>2. CASE delivery' = [Brain!Idle EXCEPT !.status = "awaiting_target", !.search = search]
             /\ UNCHANGED <<tasks, approvals, sent>>
    <3>1. delivery' \in DeliveryType /\ delivery'.status = "awaiting_target"
      BY <2>2 DEF Brain!Idle, DeliveryType
    <3> QED
      BY <2>2, <3>1, RecordChanges
  <2> QED
    BY <1>6, <2>1, <2>2 DEF Brain!AskFor
<1>7. ASSUME NEW d \in Device \cup {Default}, Brain!AskForPicture(d)
      PROVE  BrainInv'
  <2>1. delivery' \in DeliveryType /\ delivery'.status = "awaiting_source"
    BY <1>7, DeviceAssumption DEF Brain!AskForPicture, Brain!Idle, DeliveryType
  <2> QED
    BY <1>7, <2>1, RecordChanges DEF Brain!AskForPicture
<1> QED
  BY <1>2, <1>3, <1>4, <1>5, <1>6, <1>7, ApproveKeeps, ApprovedKeeps DEF Brain!Turn

LEMMA BrainStep == BrainInv /\ [Brain!Next]_brainVars => BrainInv'
<1> SUFFICES ASSUME BrainInv, [Brain!Next]_brainVars
             PROVE  BrainInv'
  OBVIOUS
<1>1. CASE UNCHANGED brainVars
  BY <1>1 DEF brainVars, BrainInv, BrainTypes, Matched, Offered, Agreed, Sent, Found
<1> QED
  BY <1>1, TurnKeeps, RestartKeeps, TaskKeeps, TaskFindsKeeps DEF Brain!Next, Brain!ServiceAnswers

-----------------------------------------------------------------------------
(* SwarmClarify.  Only the turn that parked an ask, or the one that answers   *)
(* for it, has it in hand, and it was not handed over before.                *)

ClarifyInv ==
    /\ asks \in Nat /\ parked \in Clarify!Ask \cup {0}
    /\ handoffs \in [Clarify!Ask -> [at : {"none", "assess", "parked", "fold", "over"}, times : Nat]]
    /\ parked # 0 => handoffs[parked].at = "parked"
    /\ \A a \in Clarify!Ask :
          /\ a > asks => handoffs[a].at = "none"
          /\ handoffs[a].at # "over" => handoffs[a].times = 0
          /\ handoffs[a].times <= 1

LEMMA ClarifyInit == Clarify!Init => ClarifyInv
  BY DEF Clarify!Init, ClarifyInv, Clarify!Ask

LEMMA ClarifyStep == ClarifyInv /\ [Clarify!Next]_clarifyVars => ClarifyInv'
<1> SUFFICES ASSUME ClarifyInv, [Clarify!Next]_clarifyVars
             PROVE  ClarifyInv'
  OBVIOUS
<1> USE AsksAssumption DEF ClarifyInv, Clarify!Ask
<1>1. CASE Clarify!AskSwarm
  BY <1>1 DEF Clarify!AskSwarm
<1>2. CASE Clarify!AnswerClarify
  BY <1>2 DEF Clarify!AnswerClarify
<1>3. CASE Clarify!DropClarify
  BY <1>3 DEF Clarify!DropClarify
<1>4. ASSUME NEW a \in Clarify!Ask, Clarify!Assessed(a)
      PROVE  ClarifyInv'
  <2>1. handoffs[a].at = "assess" /\ handoffs[a].times = 0 /\ asks' = asks
    BY <1>4 DEF Clarify!Assessed
  <2>2. CASE parked' = a /\ handoffs' = [handoffs EXCEPT ![a].at = "parked"]
    BY <2>1, <2>2
  <2>3. CASE parked' = 0 /\ handoffs' = Clarify!HandOff(a)
    BY <2>1, <2>3 DEF Clarify!HandOff
  <2> QED
    BY <1>4, <2>2, <2>3 DEF Clarify!Assessed
<1>5. ASSUME NEW a \in Clarify!Ask, Clarify!Folded(a)
      PROVE  ClarifyInv'
  BY <1>5 DEF Clarify!Folded, Clarify!HandOff
<1>6. CASE UNCHANGED clarifyVars
  BY <1>6 DEF clarifyVars
<1> QED
  BY <1>1, <1>2, <1>3, <1>4, <1>5, <1>6 DEF Clarify!Next

-----------------------------------------------------------------------------

\* The voice assistant sends an image that was found not to match never, and one that was found to
\* match nearly only with approval; and it hands an ask to the swarm once: for any numbers of devices, deliveries,
\* approvals and asks, however the turns of several rooms interleave with the tasks.
THEOREM AssistantKeepsItsWord == FairSpec => []SentAsAgreed
<1>1. Init => BrainInv /\ ClarifyInv
  BY BrainInit, ClarifyInit DEF Init
<1>2. BrainInv /\ ClarifyInv /\ [Next]_vars => BrainInv' /\ ClarifyInv'
  BY BrainStep, ClarifyStep, OneSteps
<1>3. BrainInv /\ ClarifyInv => SentAsAgreed
  BY DEF BrainInv, Sent, ClarifyInv, SentAsAgreed, Brain!WeakNeverSent, Clarify!HandedOnce
<1> QED
  BY <1>1, <1>2, <1>3, PTL DEF FairSpec
=============================================================================
