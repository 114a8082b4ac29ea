--------------------------- MODULE MemoryStoreProofs ---------------------------
(***************************************************************************)
(* Proofs about MemoryStore, for every set of meetings, memories, hashes   *)
(* and contents and every set of batches.                                  *)
(***************************************************************************)
EXTENDS MemoryStore, SequencesExt, OrderingProofs

------------------------------------------------------------------------------
(* Sequences, for the modules that build on this one. *)
\* The sequence s has each element of S once, in some order.
Lists(s, S) ==
  /\ s \in Seq(S)
  /\ {s[i] : i \in DOMAIN s} = S
  /\ \A i, j \in DOMAIN s : s[i] = s[j] => i = j

LEMMA SequenceOfSet ==
  ASSUME NEW S, IsFiniteSet(S)
  PROVE  Lists(SetToSeq(S), S)
<1> DEFINE n == Cardinality(S)
           s == SetToSeq(S)
<1>1. n \in Nat /\ ExistsBijection(1 .. n, S)
  BY FS_CardinalityType
<1>2. \E f \in [1 .. n -> S] : IsInjective(f)
  BY <1>1 DEF ExistsBijection, Bijection, Injection
<1>3. s \in [1 .. n -> S] /\ IsInjective(s)
  BY <1>2 DEF SetToSeq
<1>4. s \in Injection(1 .. n, S)
  BY <1>3 DEF Injection
<1>5. Cardinality(1 .. n) = n /\ IsFiniteSet(1 .. n)
  BY <1>1, FS_Interval
<1> HIDE DEF s
<1>6. s \in Surjection(1 .. n, S)
  BY <1>4, <1>5, FS_Injection
<1> HIDE DEF n
<1> QED
  BY <1>1, <1>3, <1>6 DEF s, Surjection, IsInjective, Lists

LEMMA ElementsFinite ==
  ASSUME NEW T, NEW s \in Seq(T)
  PROVE  IsFiniteSet(ToSet(s))
<1>1. s \in Surjection(1 .. Len(s), ToSet(s)) /\ Len(s) \in Nat
  BY DEF Surjection, ToSet
<1> QED
  BY <1>1, FS_NatSurjection DEF ExistsSurjection

------------------------------------------------------------------------------
(* Type correctness. *)

\* Rows survive the removal of others as rows, with at most the pointer cleared.
LEMMA WithoutType ==
  ASSUME TypeOK, NEW gone \in SUBSET MemoryId
  PROVE  Without(gone) \in [MemoryId -> MemoryRow \cup {NULL}]
<1> SUFFICES ASSUME NEW m \in MemoryId
             PROVE  Without(gone)[m] \in MemoryRow \cup {NULL}
  BY DEF Without
<1>1. CASE m \in gone
  BY <1>1 DEF Without
<1>2. CASE m \notin gone /\ m \in Stored /\ memories[m].superseded_by \in gone
  BY <1>2 DEF Without, Stored, TypeOK, MemoryRow
<1>3. CASE m \notin gone /\ ~(m \in Stored /\ memories[m].superseded_by \in gone)
  BY <1>3 DEF Without, TypeOK
<1> QED
  BY <1>1, <1>2, <1>3

\* A record of a batch has an id and a row, and so do records passed singly.
LEMMA BatchType ==
  /\ \A batch \in Batch : batch \in Seq(StoredMemory)
  /\ \A memory \in Records : memory \in StoredMemory /\ Coupled(memory.row)
  /\ \A memory \in Records : <<memory>> \in Seq(StoredMemory)
<1>1. \A batch \in Batch : batch \in Seq(StoredMemory)
  BY BatchAssumption
<1>2. \A memory \in Records : memory \in StoredMemory /\ Coupled(memory.row)
  BY BatchAssumption DEF Records
<1> QED
  BY <1>1, <1>2

LEMMA AnswerType ==
  ASSUME TypeOK, NEW r \in Reply, Answer(r)
  PROVE  TypeOK'
BY DEF TypeOK, Answer, tables

LEMMA SaveManyType ==
  ASSUME TypeOK, NEW batch \in Seq(StoredMemory), SaveMany(batch)
  PROVE  TypeOK'
<1>1. CASE ~Insertable(batch)
  BY <1>1, AnswerType DEF SaveMany, Reply
<1>2. CASE Insertable(batch)
  <2> DEFINE new == {batch[i].memory_id : i \in DOMAIN batch}
             rowOf(m) ==
               batch[CHOOSE i \in DOMAIN batch : batch[i].memory_id = m].row
             children ==
               {<<batch[i].memory_id, batch[i].row.content>> : i \in DOMAIN batch}
  <2>1. /\ memories' = [m \in MemoryId |-> IF m \in new THEN rowOf(m) ELSE memories[m]]
        /\ evidence' = evidence \cup children
        /\ metadata' = metadata \cup children
        /\ meetings' = meetings
        /\ reply' \in Reply
    BY <1>2 DEF SaveMany, InsertMemories, Reply, Answer
  <2>2. \A i \in DOMAIN batch : batch[i] \in StoredMemory
    OBVIOUS
  <2>3. \A m \in new : rowOf(m) \in MemoryRow
    BY <2>2 DEF StoredMemory
  <2>4. children \subseteq MemoryId \X Content
    BY <2>2 DEF StoredMemory, MemoryRow
  <2> HIDE DEF new, rowOf, children
  <2> QED
    BY <2>1, <2>3, <2>4 DEF TypeOK
<1> QED
  BY <1>1, <1>2

LEMMA UpdateType ==
  ASSUME TypeOK, NEW memory \in StoredMemory, Update(memory)
  PROVE  TypeOK'
<1>1. ASSUME NEW r \in Reply, Answer(r)
      PROVE  TypeOK'
  BY <1>1, AnswerType
<1>2. ASSUME memories' = [memories EXCEPT ![memory.memory_id] = memory.row],
             evidence' = (evidence \ OwnedBy(evidence, {memory.memory_id}))
                           \cup {<<memory.memory_id, memory.row.content>>},
             metadata' = (metadata \ OwnedBy(metadata, {memory.memory_id}))
                           \cup {<<memory.memory_id, memory.row.content>>},
             reply' = "ok", UNCHANGED meetings
      PROVE  TypeOK'
  <2>1. memory.memory_id \in MemoryId /\ memory.row \in MemoryRow
    BY DEF StoredMemory
  <2>2. memories' \in [MemoryId -> MemoryRow \cup {NULL}]
    BY <1>2, <2>1 DEF TypeOK
  <2>3. <<memory.memory_id, memory.row.content>> \in MemoryId \X Content
    BY <2>1 DEF MemoryRow
  <2> QED
    BY <1>2, <2>2, <2>3 DEF TypeOK, Reply
<1> QED
  BY <1>1, <1>2 DEF Update, Reply

LEMMA SetStatusType ==
  ASSUME TypeOK, NEW id \in MemoryId, NEW status \in MemoryStatus,
         NEW by \in MemoryId \cup {NULL}, SetStatus(id, status, by)
  PROVE  TypeOK'
<1>1. ASSUME NEW r \in Reply, Answer(r)
      PROVE  TypeOK'
  BY <1>1, AnswerType
<1>2. ASSUME id \in Stored,
             memories' = [memories EXCEPT ![id].status = status,
                                          ![id].superseded_by = by],
             reply' = "ok", UNCHANGED <<meetings, evidence, metadata>>
      PROVE  TypeOK'
  <2>1. memories[id] \in MemoryRow
    BY <1>2 DEF TypeOK, Stored
  <2>2. memories'[id] \in MemoryRow
    BY <1>2, <2>1 DEF TypeOK, MemoryRow
  <2> QED
    BY <1>2, <2>2 DEF TypeOK, Reply
<1> QED
  BY <1>1, <1>2 DEF SetStatus, Reply

LEMMA DeletionType ==
  ASSUME TypeOK, NEW gone \in SUBSET MemoryId,
         memories' = Without(gone),
         evidence' = evidence \ OwnedBy(evidence, gone),
         metadata' = metadata \ OwnedBy(metadata, gone),
         meetings' \in [MeetingId -> Hash \cup {NULL}],
         reply' \in Reply
  PROVE  TypeOK'
BY WithoutType DEF TypeOK

\* Every step keeps the tables well typed.
LEMMA NextType == TypeOK /\ [Next]_vars => TypeOK'
<1> SUFFICES ASSUME TypeOK, [Next]_vars
             PROVE  TypeOK'
  OBVIOUS
<1>1. ASSUME NEW batch \in Batch, SaveMany(batch)
      PROVE  TypeOK'
  BY <1>1, BatchType, SaveManyType
<1>2. ASSUME NEW memory \in Records, Save(memory)
      PROVE  TypeOK'
  BY <1>2, BatchType, SaveManyType DEF Save
<1>3. ASSUME NEW memory \in Records, Update(memory)
      PROVE  TypeOK'
  BY <1>3, BatchType, UpdateType
<1>4. ASSUME NEW id \in MemoryId, Delete(id)
      PROVE  TypeOK'
  BY <1>4, DeletionType DEF Delete, TypeOK, Reply
<1>5. ASSUME NEW id \in MemoryId, Lifecycle(id)
      PROVE  TypeOK'
  <2>1. PICK status \in MemoryStatus, by \in MemoryId \cup {NULL} :
          SetStatus(id, status, by)
    BY <1>5 DEF Lifecycle, Archive, Resolve, MarkDeleted, Restore, Supersede,
                MemoryStatus
  <2> QED
    BY <2>1, SetStatusType
<1>6. ASSUME NEW x \in MeetingId, NEW hash \in Hash, SaveMeeting(x, hash)
      PROVE  TypeOK'
  BY <1>6 DEF SaveMeeting, Answer, tables, TypeOK, Reply
<1>7. ASSUME NEW x \in MeetingId, DeleteMeeting(x)
      PROVE  TypeOK'
  <2>1. MemoriesOf(x) \in SUBSET MemoryId
    BY DEF MemoriesOf, Stored
  <2> QED
    BY <1>7, <2>1, DeletionType DEF DeleteMeeting, TypeOK, Reply
<1>8. CASE UNCHANGED vars
  BY <1>8 DEF vars, TypeOK
<1> QED
  BY <1>1, <1>2, <1>3, <1>4, <1>5, <1>6, <1>7, <1>8 DEF Next

\* The tables of a store only ever hold values of the types the schema gives
\* them, whatever the callers' batches.
THEOREM TypeCorrect == Spec => []TypeOK
<1>1. Init => TypeOK
  BY DEF Init, TypeOK, Reply
<1> QED
  BY <1>1, NextType, PTL DEF Spec

------------------------------------------------------------------------------
(***************************************************************************)
(* The inductive invariant.  The parts lean on each other: a cascade keeps *)
(* ReferentialIntegrity because it removes exactly MemoriesOf(x), and an   *)
(* insertion keeps ChildrenExact because a fresh id owns no child.         *)
(***************************************************************************)
IInv ==
  /\ TypeOK
  /\ ReferentialIntegrity
  /\ ChildrenExact
  /\ TranscriptUnique
  /\ PointerOnlyWhenSuperseded

\* What `Without` leaves: the other rows, unchanged but for cleared pointers.
LEMMA WithoutRows ==
  ASSUME TypeOK, NEW gone \in SUBSET MemoryId, memories' = Without(gone)
  PROVE  /\ Stored' = Stored \ gone
         /\ \A m \in Stored \ gone :
              /\ memories'[m].meeting_id = memories[m].meeting_id
              /\ memories'[m].content = memories[m].content
              /\ memories'[m].status = memories[m].status
              /\ memories'[m].superseded_by =
                   IF memories[m].superseded_by \in gone THEN NULL
                   ELSE memories[m].superseded_by
<1>1. ASSUME NEW m \in MemoryId
      PROVE  memories'[m] = IF m \in gone THEN NULL
                            ELSE IF m \in Stored /\ memories[m].superseded_by \in gone
                            THEN [memories[m] EXCEPT !.superseded_by = NULL]
                            ELSE memories[m]
  BY DEF Without
<1>2. ASSUME NEW m \in Stored \ gone
      PROVE  /\ m \in Stored'
             /\ memories'[m].meeting_id = memories[m].meeting_id
             /\ memories'[m].content = memories[m].content
             /\ memories'[m].status = memories[m].status
             /\ memories'[m].superseded_by =
                  IF memories[m].superseded_by \in gone THEN NULL
                  ELSE memories[m].superseded_by
  <2>1. m \in MemoryId /\ memories[m] \in MemoryRow
    BY DEF Stored, TypeOK
  <2>2. memories'[m] \in MemoryRow
    BY <1>1, <2>1 DEF MemoryRow
  <2> QED
    BY <1>1, <2>1, <2>2, NullAssumption DEF MemoryRow, Stored
<1>3. \A m \in MemoryId : m \in gone \/ m \notin Stored => m \notin Stored'
  BY <1>1 DEF Stored
<1> QED
  BY <1>2, <1>3 DEF Stored

\* The invariant speaks of the tables only.
LEMMA AnswerInv ==
  ASSUME IInv, NEW r \in Reply, Answer(r)
  PROVE  IInv'
<1>1. UNCHANGED tables
  BY DEF Answer
<1> QED
  BY <1>1, AnswerType DEF IInv, ReferentialIntegrity, ChildrenExact, tables,
     TranscriptUnique, PointerOnlyWhenSuperseded, Stored, Registered

Ids(batch) == {batch[i].memory_id : i \in DOMAIN batch}

\* What save_many leaves: the stored rows, and for each id the row sent for it.
LEMMA InsertedRows ==
  ASSUME NEW batch \in Seq(StoredMemory), Insertable(batch), InsertMemories(batch)
  PROVE  /\ Ids(batch) \subseteq MemoryId \ Stored
         /\ \A i \in DOMAIN batch : memories'[batch[i].memory_id] = batch[i].row
         /\ \A m \in MemoryId \ Ids(batch) : memories'[m] = memories[m]
         /\ Stored' = Stored \cup Ids(batch)
<1> DEFINE rowOf(m) ==
             batch[CHOOSE i \in DOMAIN batch : batch[i].memory_id = m].row
<1>1. memories' = [m \in MemoryId |-> IF m \in Ids(batch) THEN rowOf(m) ELSE memories[m]]
  BY DEF InsertMemories, Ids
<1>2. \A i \in DOMAIN batch : batch[i] \in StoredMemory
  OBVIOUS
\* No id occurs twice, so the row stored for an id is the row sent for it.
<1>3. ASSUME NEW i \in DOMAIN batch, NEW j \in DOMAIN batch,
             batch[i].memory_id = batch[j].memory_id
      PROVE  i = j
  <2>1. ASSUME NEW k \in DOMAIN batch, NEW l \in DOMAIN batch, k < l
        PROVE  batch[k].memory_id # batch[l].memory_id
    <3>1. k \in 1 .. l - 1
      BY <2>1
    <3> QED
      BY <3>1 DEF Insertable
  <2>2. i \in Nat /\ j \in Nat
    OBVIOUS
  <2> QED
    BY <1>3, <2>1, <2>2
<1>4. ASSUME NEW i \in DOMAIN batch
      PROVE  memories'[batch[i].memory_id] = batch[i].row
  <2> DEFINE k == CHOOSE k \in DOMAIN batch : batch[k].memory_id = batch[i].memory_id
  <2>1. k \in DOMAIN batch /\ batch[k].memory_id = batch[i].memory_id
    OBVIOUS
  <2>2. k = i
    BY <1>3, <2>1
  <2>3. batch[i].memory_id \in Ids(batch) \cap MemoryId
    BY <1>2 DEF StoredMemory, Ids
  <2> QED
    BY <1>1, <2>2, <2>3
<1>5. Ids(batch) \subseteq MemoryId \ Stored
  BY <1>2 DEF Insertable, StoredMemory, Ids
<1>6. \A m \in MemoryId \ Ids(batch) : memories'[m] = memories[m]
  BY <1>1
<1>7. \A m \in Ids(batch) : memories'[m] # NULL
  BY <1>2, <1>4, NullAssumption DEF StoredMemory, Ids
<1>8. Stored' = Stored \cup Ids(batch)
  BY <1>5, <1>6, <1>7 DEF Stored
<1> QED
  BY <1>4, <1>5, <1>6, <1>8

\* Records none of which points at another can be inserted in any order.
LEMMA SetInsertable ==
  ASSUME NEW R \in SUBSET StoredMemory, NEW batch, Lists(batch, R),
         \A r, s \in R : r.memory_id = s.memory_id => r = s,
         \A r \in R : /\ r.memory_id \notin Stored
                       /\ r.row.meeting_id \in Registered
                       /\ r.row.superseded_by = NULL
  PROVE  Insertable(batch)
<1>1. /\ batch \in Seq(R)
      /\ \A i, j \in DOMAIN batch : batch[i] = batch[j] => i = j
  BY DEF Lists
<1> SUFFICES ASSUME NEW i \in DOMAIN batch
             PROVE  /\ batch[i].memory_id \notin Stored \cup {batch[j].memory_id : j \in 1 .. i - 1}
                    /\ batch[i].row.meeting_id \in Registered
                    /\ batch[i].row.superseded_by = NULL
  BY DEF Insertable
<1>2. batch[i] \in R /\ i \in Nat
  BY <1>1
<1>3. ASSUME NEW j \in 1 .. i - 1
      PROVE  batch[j].memory_id # batch[i].memory_id
  <2>1. j \in DOMAIN batch /\ j # i /\ batch[j] \in R
    BY <1>1
  <2> QED
    BY <1>1, <1>2, <2>1
<1> QED
  BY <1>2, <1>3

IdsOf(R) == {r.memory_id : r \in R}
ChildrenOf(R) == {<<r.memory_id, r.row.content>> : r \in R}

\* What a set of records leaves, in whatever order it is inserted.
LEMMA InsertedSet ==
  ASSUME NEW R \in SUBSET StoredMemory, NEW batch, Lists(batch, R),
         Insertable(batch), InsertMemories(batch)
  PROVE  /\ IdsOf(R) \subseteq MemoryId \ Stored
         /\ \A r \in R : memories'[r.memory_id] = r.row
         /\ \A m \in Stored : memories'[m] = memories[m]
         /\ Stored' = Stored \cup IdsOf(R)
         /\ evidence' = evidence \cup ChildrenOf(R)
<1>1. /\ batch \in Seq(R)
      /\ {batch[i] : i \in DOMAIN batch} = R
  BY DEF Lists
<1>2. /\ Ids(batch) \subseteq MemoryId \ Stored
      /\ \A i \in DOMAIN batch : memories'[batch[i].memory_id] = batch[i].row
      /\ \A m \in MemoryId \ Ids(batch) : memories'[m] = memories[m]
      /\ Stored' = Stored \cup Ids(batch)
  <2>1. batch \in Seq(StoredMemory)
    BY <1>1
  <2> QED
    BY <2>1, InsertedRows
<1>3. evidence' = evidence \cup {<<batch[i].memory_id, batch[i].row.content>> : i \in DOMAIN batch}
  BY DEF InsertMemories
<1>4. IdsOf(R) = Ids(batch)
  BY <1>1 DEF IdsOf, Ids
<1>5. ChildrenOf(R) = {<<batch[i].memory_id, batch[i].row.content>> : i \in DOMAIN batch}
  BY <1>1 DEF ChildrenOf
<1>6. \A r \in R : \E i \in DOMAIN batch : batch[i] = r
  BY <1>1
<1> QED
  BY <1>2, <1>3, <1>4, <1>5, <1>6 DEF Stored

LEMMA InsertInv ==
  ASSUME IInv, NEW batch \in Seq(StoredMemory), SaveMany(batch),
         \A i \in DOMAIN batch : Coupled(batch[i].row)
  PROVE  IInv'
<1>1. TypeOK'
  BY SaveManyType DEF IInv
<1>2. CASE ~Insertable(batch)
  BY <1>2, AnswerInv DEF SaveMany, Reply
<1>3. CASE Insertable(batch)
  <2> DEFINE new == Ids(batch)
             children ==
               {<<batch[i].memory_id, batch[i].row.content>> : i \in DOMAIN batch}
  <2>1. /\ InsertMemories(batch)
        /\ evidence' = evidence \cup children
        /\ metadata' = metadata \cup children
        /\ meetings' = meetings
    BY <1>3 DEF SaveMany, InsertMemories, Answer
  <2>2. /\ \A i \in DOMAIN batch : memories'[batch[i].memory_id] = batch[i].row
        /\ \A m \in Stored : m \in MemoryId /\ m \notin new /\ memories'[m] = memories[m]
        /\ Stored' = Stored \cup new
    BY <1>3, <2>1, InsertedRows DEF Stored
  <2>3. Registered' = Registered
    BY <2>1 DEF Registered
  <2>4. ASSUME NEW i \in DOMAIN batch
        PROVE  /\ batch[i].row.meeting_id \in Registered
               /\ batch[i].row.superseded_by \in Stored \cup new \cup {NULL}
    <3>1. {batch[j].memory_id : j \in 1 .. i - 1} \subseteq new /\ batch[i].memory_id \in new
      BY DEF Ids
    <3> QED
      BY <1>3, <3>1 DEF Insertable
  <2>5. ReferentialIntegrity'
    <3>1. \A m \in new : \E i \in DOMAIN batch : m = batch[i].memory_id
      BY DEF Ids
    <3> QED
      BY <2>2, <2>3, <2>4, <3>1 DEF IInv, ReferentialIntegrity
  <2>6. ChildrenExact'
    <3> DEFINE owed == {<<m, memories[m].content>> : m \in Stored}
    <3>1. evidence = owed /\ metadata = owed
      BY DEF IInv, ChildrenExact
    <3>2. {<<m, memories'[m].content>> : m \in Stored'} = owed \cup children
      <4>1. {<<m, memories'[m].content>> : m \in new} = children
        BY <2>2 DEF Ids
      <4>2. {<<m, memories'[m].content>> : m \in Stored} = owed
        BY <2>2
      <4> HIDE DEF new, children, owed
      <4> QED
        BY <2>2, <4>1, <4>2
    <3> HIDE DEF owed, children
    <3> QED
      BY <2>1, <3>1, <3>2 DEF ChildrenExact
  <2>7. TranscriptUnique'
    BY <2>1, <2>3 DEF IInv, TranscriptUnique
  <2>8. PointerOnlyWhenSuperseded'
    <3>1. \A m \in new : Coupled(memories'[m])
      BY <2>2 DEF Ids
    <3> QED
      BY <2>2, <3>1 DEF IInv, PointerOnlyWhenSuperseded, Coupled
  <2> QED
    BY <1>1, <2>5, <2>6, <2>7, <2>8 DEF IInv
<1> QED
  BY <1>2, <1>3

LEMMA UpdateInv ==
  ASSUME IInv, NEW memory \in StoredMemory, Update(memory), Coupled(memory.row)
  PROVE  IInv'
<1> DEFINE id == memory.memory_id
           row == memory.row
<1>1. TypeOK'
  BY UpdateType DEF IInv
<1>2. ASSUME NEW r \in Reply, Answer(r)
      PROVE  IInv'
  BY <1>2, AnswerInv
<1>3. ASSUME id \in Stored,
             row.meeting_id \in Registered,
             row.superseded_by \in Stored \cup {NULL},
             memories' = [memories EXCEPT ![id] = row],
             evidence' = (evidence \ OwnedBy(evidence, {id})) \cup {<<id, row.content>>},
             metadata' = (metadata \ OwnedBy(metadata, {id})) \cup {<<id, row.content>>},
             UNCHANGED meetings
      PROVE  IInv'
  <2>1. id \in MemoryId /\ row \in MemoryRow /\ row # NULL
    BY NullAssumption DEF StoredMemory
  <2>2. memories'[id] = row /\ \A m \in MemoryId \ {id} : memories'[m] = memories[m]
    BY <1>3, <2>1 DEF IInv, TypeOK
  <2>3. Stored' = Stored /\ Registered' = Registered
    BY <1>3, <2>1, <2>2 DEF Stored, Registered
  <2>4. ReferentialIntegrity'
    BY <1>3, <2>2, <2>3 DEF IInv, ReferentialIntegrity, Stored
  <2>5. ChildrenExact'
    <3> DEFINE owed == {<<m, memories[m].content>> : m \in Stored}
    <3>1. \A m \in Stored \ {id} : memories'[m] = memories[m]
      BY <2>2 DEF Stored
    <3>2. {<<m, memories'[m].content>> : m \in Stored'}
            = {<<m, memories[m].content>> : m \in Stored \ {id}}
                \cup {<<id, row.content>>}
      BY <1>3, <2>2, <2>3, <3>1
    <3>3. {<<m, memories[m].content>> : m \in Stored \ {id}}
            = owed \ OwnedBy(owed, {id})
      BY DEF OwnedBy
    <3> QED
      BY <1>3, <3>2, <3>3 DEF IInv, ChildrenExact
  <2>6. TranscriptUnique'
    BY <1>3, <2>3 DEF IInv, TranscriptUnique
  <2>7. PointerOnlyWhenSuperseded'
    BY <2>2, <2>3 DEF IInv, PointerOnlyWhenSuperseded, Coupled, Stored
  <2> QED
    BY <1>1, <2>4, <2>5, <2>6, <2>7 DEF IInv
<1> QED
  BY <1>2, <1>3 DEF Update, Reply

\* Deleting one memory, or the memories of a meeting with the meeting itself.
LEMMA DeletionInv ==
  ASSUME IInv, NEW gone \in SUBSET MemoryId,
         memories' = Without(gone),
         evidence' = evidence \ OwnedBy(evidence, gone),
         metadata' = metadata \ OwnedBy(metadata, gone),
         reply' \in Reply,
         \/ UNCHANGED meetings
         \/ \E x \in MeetingId :
              meetings' = [meetings EXCEPT ![x] = NULL] /\ gone = MemoriesOf(x)
  PROVE  IInv'
<1>1. meetings' \in [MeetingId -> Hash \cup {NULL}]
  BY DEF IInv, TypeOK
<1>2. TypeOK'
  BY <1>1, DeletionType DEF IInv
<1>3. Stored' = Stored \ gone
  BY WithoutRows DEF IInv
<1>4. \A m \in Stored' :
        /\ memories'[m].meeting_id = memories[m].meeting_id
        /\ memories'[m].content = memories[m].content
        /\ memories'[m].status = memories[m].status
        /\ memories'[m].superseded_by =
             IF memories[m].superseded_by \in gone THEN NULL
             ELSE memories[m].superseded_by
  BY <1>3, WithoutRows DEF IInv
<1>5. ReferentialIntegrity'
  <2> SUFFICES ASSUME NEW m \in Stored'
               PROVE  /\ memories'[m].meeting_id \in Registered'
                      /\ memories'[m].superseded_by \in Stored' \cup {NULL}
    BY DEF ReferentialIntegrity
  <2>1. /\ m \in Stored \ gone
        /\ memories[m].meeting_id \in Registered
        /\ memories[m].superseded_by \in Stored \cup {NULL}
    BY <1>3 DEF IInv, ReferentialIntegrity
  <2>2. memories'[m].superseded_by \in Stored' \cup {NULL}
    BY <1>3, <1>4, <2>1
  <2>3. memories'[m].meeting_id \in Registered'
    <3>1. CASE UNCHANGED meetings
      BY <3>1, <1>4, <2>1 DEF Registered
    <3>2. ASSUME NEW x \in MeetingId, meetings' = [meetings EXCEPT ![x] = NULL],
                 gone = MemoriesOf(x)
          PROVE  memories'[m].meeting_id \in Registered'
      <4>1. memories[m].meeting_id # x
        BY <3>2, <2>1 DEF MemoriesOf
      <4> QED
        BY <3>2, <4>1, <1>4, <2>1 DEF Registered, IInv, TypeOK
    <3> QED
      BY <3>1, <3>2
  <2> QED
    BY <2>2, <2>3
<1>6. ChildrenExact'
  <2> DEFINE owed == {<<m, memories[m].content>> : m \in Stored}
  <2>1. {<<m, memories'[m].content>> : m \in Stored'} = owed \ OwnedBy(owed, gone)
    <3>1. {<<m, memories'[m].content>> : m \in Stored'}
            = {<<m, memories[m].content>> : m \in Stored \ gone}
      BY <1>3, <1>4
    <3> QED
      BY <3>1 DEF OwnedBy
  <2> QED
    BY <2>1 DEF IInv, ChildrenExact
<1>7. TranscriptUnique'
  <2>1. \A x \in Registered' : x \in Registered /\ meetings'[x] = meetings[x]
    BY DEF Registered, IInv, TypeOK
  <2> QED
    BY <2>1 DEF IInv, TranscriptUnique
<1>8. PointerOnlyWhenSuperseded'
  BY <1>3, <1>4 DEF IInv, PointerOnlyWhenSuperseded, Coupled
<1> QED
  BY <1>2, <1>5, <1>6, <1>7, <1>8 DEF IInv

\* The lifecycle calls of the interface: a pointer comes with SUPERSEDED only.
LEMMA SetStatusInv ==
  ASSUME IInv, NEW id \in MemoryId, NEW status \in MemoryStatus,
         NEW by \in MemoryId \cup {NULL}, SetStatus(id, status, by),
         by # NULL => status = "SUPERSEDED"
  PROVE  IInv'
<1>1. TypeOK'
  BY SetStatusType DEF IInv
<1>2. ASSUME NEW r \in Reply, Answer(r)
      PROVE  IInv'
  BY <1>2, AnswerInv
<1>3. ASSUME id \in Stored, by \in Stored \cup {NULL},
             memories' = [memories EXCEPT ![id].status = status,
                                          ![id].superseded_by = by],
             UNCHANGED <<meetings, evidence, metadata>>
      PROVE  IInv'
  <2>1. memories[id] \in MemoryRow
    BY <1>3 DEF IInv, TypeOK, Stored
  <2>2. /\ memories'[id] \in MemoryRow
        /\ memories'[id].status = status
        /\ memories'[id].superseded_by = by
        /\ memories'[id].meeting_id = memories[id].meeting_id
        /\ memories'[id].content = memories[id].content
        /\ \A m \in MemoryId \ {id} : memories'[m] = memories[m]
    BY <1>3, <2>1 DEF IInv, TypeOK, MemoryRow
  <2>3. Stored' = Stored /\ Registered' = Registered
    BY <1>3, <2>2, NullAssumption DEF Stored, Registered
  <2>4. ReferentialIntegrity'
    <3> SUFFICES ASSUME NEW m \in Stored'
                 PROVE  /\ memories'[m].meeting_id \in Registered'
                        /\ memories'[m].superseded_by \in Stored' \cup {NULL}
      BY DEF ReferentialIntegrity
    <3>1. /\ m \in Stored
          /\ memories[m].meeting_id \in Registered
          /\ memories[m].superseded_by \in Stored \cup {NULL}
      BY <2>3 DEF IInv, ReferentialIntegrity
    <3>2. CASE m = id
      BY <1>3, <2>2, <2>3, <3>1, <3>2
    <3>3. CASE m # id
      BY <2>2, <2>3, <3>1, <3>3 DEF Stored
    <3> QED
      BY <3>2, <3>3
  <2>5. ChildrenExact'
    <3>1. \A m \in Stored : memories'[m].content = memories[m].content
      BY <2>2 DEF Stored
    <3>2. {<<m, memories'[m].content>> : m \in Stored'}
            = {<<m, memories[m].content>> : m \in Stored}
      BY <2>3, <3>1
    <3> QED
      BY <1>3, <3>2 DEF IInv, ChildrenExact
  <2>6. TranscriptUnique'
    BY <1>3, <2>3 DEF IInv, TranscriptUnique
  <2>7. PointerOnlyWhenSuperseded'
    BY <2>2, <2>3 DEF IInv, PointerOnlyWhenSuperseded, Coupled, Stored
  <2> QED
    BY <1>1, <2>4, <2>5, <2>6, <2>7 DEF IInv
<1> QED
  BY <1>2, <1>3 DEF SetStatus, Reply

LEMMA SaveMeetingInv ==
  ASSUME IInv, NEW x \in MeetingId, NEW hash \in Hash, SaveMeeting(x, hash)
  PROVE  IInv'
<1>1. ASSUME NEW r \in Reply, Answer(r)
      PROVE  IInv'
  BY <1>1, AnswerInv
<1>2. ASSUME x \notin Registered, \A y \in MeetingId : meetings[y] # hash,
             meetings' = [meetings EXCEPT ![x] = hash], reply' = "ok",
             UNCHANGED <<memories, evidence, metadata>>
      PROVE  IInv'
  <2>1. TypeOK'
    BY <1>2 DEF IInv, TypeOK, Reply
  <2>2. Registered' = Registered \cup {x} /\ Stored' = Stored
    BY <1>2, NullAssumption DEF IInv, TypeOK, Registered, Stored
  <2>3. TranscriptUnique'
    BY <1>2, <2>2 DEF IInv, TypeOK, TranscriptUnique, Registered
  <2>4. ReferentialIntegrity' /\ ChildrenExact' /\ PointerOnlyWhenSuperseded'
    BY <1>2, <2>2 DEF IInv, ReferentialIntegrity, ChildrenExact,
       PointerOnlyWhenSuperseded
  <2> QED
    BY <2>1, <2>3, <2>4 DEF IInv
<1>3. CASE x \in Registered \/ \E y \in MeetingId : meetings[y] = hash
  BY <1>1, <1>3 DEF SaveMeeting, Reply
<1>4. CASE ~(x \in Registered \/ \E y \in MeetingId : meetings[y] = hash)
  BY <1>2, <1>4 DEF SaveMeeting
<1> QED
  BY <1>3, <1>4

LEMMA NextInv == IInv /\ [Next]_vars => IInv'
<1> SUFFICES ASSUME IInv, [Next]_vars
             PROVE  IInv'
  OBVIOUS
<1>1. ASSUME NEW batch \in Batch, SaveMany(batch)
      PROVE  IInv'
  BY <1>1, BatchType, BatchAssumption, InsertInv
<1>2. ASSUME NEW memory \in Records, Save(memory)
      PROVE  IInv'
  <2>1. \A i \in DOMAIN <<memory>> : <<memory>>[i] = memory
    OBVIOUS
  <2>2. \A i \in DOMAIN <<memory>> : Coupled(<<memory>>[i].row)
    BY <2>1, BatchType
  <2>3. <<memory>> \in Seq(StoredMemory) /\ SaveMany(<<memory>>)
    BY <1>2, BatchType DEF Save
  <2> QED
    BY <2>2, <2>3, InsertInv
<1>3. ASSUME NEW memory \in Records, Update(memory)
      PROVE  IInv'
  BY <1>3, BatchType, UpdateInv
<1>4. ASSUME NEW id \in MemoryId, Delete(id)
      PROVE  IInv'
  BY <1>4, DeletionInv DEF Delete, Reply
<1>5. ASSUME NEW id \in MemoryId, Lifecycle(id)
      PROVE  IInv'
  <2>1. PICK status \in MemoryStatus, by \in MemoryId \cup {NULL} :
          SetStatus(id, status, by) /\ (by # NULL => status = "SUPERSEDED")
    BY <1>5 DEF Lifecycle, Archive, Resolve, MarkDeleted, Restore, Supersede,
                MemoryStatus
  <2> QED
    BY <2>1, SetStatusInv
<1>6. ASSUME NEW x \in MeetingId, NEW hash \in Hash, SaveMeeting(x, hash)
      PROVE  IInv'
  BY <1>6, SaveMeetingInv
<1>7. ASSUME NEW x \in MeetingId, DeleteMeeting(x)
      PROVE  IInv'
  <2>1. MemoriesOf(x) \in SUBSET MemoryId
    BY DEF MemoriesOf, Stored
  <2> QED
    BY <1>7, <2>1, DeletionInv DEF DeleteMeeting, Reply
<1>8. CASE UNCHANGED vars
  BY <1>8, NextType DEF vars, IInv, ReferentialIntegrity, ChildrenExact,
     TranscriptUnique, PointerOnlyWhenSuperseded, Stored, Registered
<1> QED
  BY <1>1, <1>2, <1>3, <1>4, <1>5, <1>6, <1>7, <1>8 DEF Next

LEMMA InvHolds == Spec => []IInv
<1>1. Init => IInv
  BY DEF Init, IInv, TypeOK, Reply, ReferentialIntegrity, ChildrenExact,
     TranscriptUnique, PointerOnlyWhenSuperseded, Stored, Registered
<1> QED
  BY <1>1, NextInv, PTL DEF Spec

\* Foreign keys never dangle, through every cascade and cleared pointer.
THEOREM IntegrityHolds == Spec => []ReferentialIntegrity
BY InvHolds, PTL DEF IInv

\* No operation leaves evidence or metadata of a memory that is gone, or of
\* what a memory used to say.
THEOREM ChildrenHold == Spec => []ChildrenExact
BY InvHolds, PTL DEF IInv

\* save_meeting never registers one transcript under two meeting ids.
THEOREM TranscriptsUnique == Spec => []TranscriptUnique
BY InvHolds, PTL DEF IInv

\* No live memory points at a successor.
THEOREM PointersCoupled == Spec => []PointerOnlyWhenSuperseded
BY InvHolds, PTL DEF IInv

------------------------------------------------------------------------------
(***************************************************************************)
(* The tables implement the registry.  By ChildrenExact, the record that   *)
(* `get` assembles from three tables is whole; each kind of change to the  *)
(* tables is then one change to the records.                               *)
(***************************************************************************)
WholeRecord(row) ==
  [row |-> row, evidence |-> {row.content}, metadata |-> {row.content}]

\* Of the child rows a table owes, a memory owns exactly its own.
LEMMA OwnedContents ==
  ASSUME NEW rows, NEW S, NEW f, rows = {<<n, f[n].content>> : n \in S}, NEW m
  PROVE  {e[2] : e \in OwnedBy(rows, {m})} = IF m \in S THEN {f[m].content} ELSE {}
<1>1. CASE m \in S
  <2>1. OwnedBy(rows, {m}) = {<<m, f[m].content>>}
    BY <1>1 DEF OwnedBy
  <2>2. <<m, f[m].content>>[2] = f[m].content
    OBVIOUS
  <2> DEFINE own == OwnedBy(rows, {m})
             pair == <<m, f[m].content>>
  <2>3. own = {pair} /\ pair[2] = f[m].content
    BY <2>1, <2>2
  <2> HIDE DEF own, pair
  <2>4. {e[2] : e \in own} = {f[m].content}
    BY <2>3
  <2> QED
    BY <1>1, <2>4 DEF own
<1>2. CASE m \notin S
  <2>1. OwnedBy(rows, {m}) = {}
    BY <1>2 DEF OwnedBy
  <2> QED
    BY <1>2, <2>1
<1> QED
  BY <1>1, <1>2

LEMMA GetWhole ==
  ASSUME ChildrenExact, NEW m \in MemoryId
  PROVE  Get(m) = IF m \in Stored THEN WholeRecord(memories[m]) ELSE NULL
<1>1. m \in Stored => /\ {e[2] : e \in OwnedBy(evidence, {m})} = {memories[m].content}
                      /\ {d[2] : d \in OwnedBy(metadata, {m})} = {memories[m].content}
  BY OwnedContents DEF ChildrenExact
<1> QED
  BY <1>1 DEF Get, WholeRecord

LEMMA GetWholeNext ==
  ASSUME ChildrenExact', NEW m \in MemoryId
  PROVE  Get(m)' = IF m \in Stored' THEN WholeRecord(memories'[m]) ELSE NULL
<1>1. m \in Stored' => /\ {e[2] : e \in OwnedBy(evidence', {m})} = {memories'[m].content}
                       /\ {d[2] : d \in OwnedBy(metadata', {m})} = {memories'[m].content}
  BY OwnedContents DEF ChildrenExact
<1> QED
  BY <1>1 DEF Get, WholeRecord, OwnedBy

records == [m \in MemoryId |-> Get(m)]

\* The abstract state, before and after a step, in terms of the rows alone.
LEMMA RecordsWhole ==
  ASSUME IInv, IInv'
  PROVE  /\ \A m \in MemoryId :
              /\ records[m] = IF m \in Stored THEN WholeRecord(memories[m]) ELSE NULL
              /\ records'[m] = IF m \in Stored' THEN WholeRecord(memories'[m]) ELSE NULL
         /\ \A m \in Stored : memories[m] \in MemoryRow /\ records[m] # NULL
         /\ \A m \in Stored' : memories'[m] \in MemoryRow /\ records'[m] # NULL
         /\ Registry!Present = Stored
         /\ Registry!Row = MemoryRow
<1>1. \A m \in MemoryId :
        /\ records[m] = IF m \in Stored THEN WholeRecord(memories[m]) ELSE NULL
        /\ records'[m] = IF m \in Stored' THEN WholeRecord(memories'[m]) ELSE NULL
  BY GetWhole, GetWholeNext DEF IInv, records
<1>2. /\ \A m \in Stored : memories[m] \in MemoryRow
      /\ \A m \in Stored' : memories'[m] \in MemoryRow
  BY DEF IInv, TypeOK, Stored
<1>3. \A row \in MemoryRow : WholeRecord(row) # NULL
  <2> SUFFICES ASSUME NEW row \in MemoryRow
               PROVE  WholeRecord(row) # NULL
    OBVIOUS
  <2>1. row.content \in Content
    BY DEF MemoryRow
  <2>2. {row.content} \in SUBSET Content
    BY <2>1
  <2>3. WholeRecord(row)
          \in [row : MemoryRow, evidence : SUBSET Content, metadata : SUBSET Content]
    BY <2>2 DEF WholeRecord
  <2> QED
    BY <2>3, NullAssumption
<1>4. \A m \in Stored : m \in MemoryId /\ records[m] # NULL
  BY <1>1, <1>2, <1>3 DEF Stored
<1>5. \A m \in Stored' : m \in MemoryId /\ records'[m] # NULL
  BY <1>1, <1>2, <1>3 DEF Stored
<1>6. Registry!Present = Stored
  BY <1>1, <1>4 DEF Registry!Present, records
<1>7. Registry!Row = MemoryRow
  BY DEF Registry!Row, MemoryRow
<1> QED
  BY <1>1, <1>2, <1>4, <1>5, <1>6, <1>7

\* A row in place is a whole record that names only what exists.
LEMMA RowWhole ==
  ASSUME IInv, IInv', NEW m \in Stored', UNCHANGED meetings,
         NEW ids, Stored' \subseteq ids
  PROVE  Registry!Whole(records'[m], ids)
<1>1. m \in MemoryId /\ records'[m] = WholeRecord(memories'[m])
  BY RecordsWhole DEF Stored
<1>2. memories'[m] \in MemoryRow /\ Registry!Row = MemoryRow
  BY RecordsWhole
<1>3. /\ memories'[m].meeting_id \in Registered'
      /\ memories'[m].superseded_by \in Stored' \cup {NULL}
  BY DEF IInv, ReferentialIntegrity
<1>4. meetings[memories'[m].meeting_id] # NULL
  BY <1>3 DEF Registered
<1> QED
  BY <1>1, <1>2, <1>3, <1>4 DEF Registry!Whole, WholeRecord

LEMMA RemovalStep ==
  ASSUME IInv, IInv', NEW gone \in SUBSET MemoryId, memories' = Without(gone)
  PROVE  records' = Registry!Remaining(gone)
<1> SUFFICES ASSUME NEW m \in MemoryId
             PROVE  records'[m] = Registry!Remaining(gone)[m]
  BY DEF records, Registry!Remaining
<1>1. Registry!Remaining(gone)[m] =
        IF m \in gone THEN NULL
        ELSE IF m \in Stored /\ records[m].row.superseded_by \in gone
        THEN [records[m] EXCEPT !.row.superseded_by = NULL]
        ELSE records[m]
  BY RecordsWhole DEF Registry!Remaining, records
<1>2. Stored' = Stored \ gone
  BY WithoutRows DEF IInv
<1>3. CASE m \in gone \/ m \notin Stored
  BY <1>1, <1>2, <1>3, RecordsWhole
<1>4. CASE m \in Stored \ gone
  <2>1. records[m] = WholeRecord(memories[m]) /\ records'[m] = WholeRecord(memories'[m])
    BY <1>2, <1>4, RecordsWhole
  <2>2. memories'[m] = IF memories[m].superseded_by \in gone
                       THEN [memories[m] EXCEPT !.superseded_by = NULL]
                       ELSE memories[m]
    BY <1>4 DEF Without
  <2>3. memories[m] \in MemoryRow
    BY <1>4, RecordsWhole
  <2> QED
    BY <1>1, <1>4, <2>1, <2>2, <2>3 DEF WholeRecord, MemoryRow
<1> QED
  BY <1>3, <1>4

\* One row rewritten in place is one Revise step.
LEMMA ReviseStep ==
  ASSUME IInv, IInv', NEW id \in Stored, UNCHANGED meetings,
         Stored' = Stored,
         \A m \in MemoryId \ {id} : memories'[m] = memories[m]
  PROVE  Registry!Revise(id)
<1>1. id \in MemoryId /\ id \in Registry!Present
  BY RecordsWhole DEF Stored
<1>2. \A n \in MemoryId \ {id} : records'[n] = records[n]
  BY RecordsWhole
<1>3. records'[id] # NULL /\ Registry!Whole(records'[id], Stored)
  BY RecordsWhole, RowWhole
<1>4. Registry!Present = Stored
  BY RecordsWhole
<1> QED
  BY <1>1, <1>2, <1>3, <1>4 DEF Registry!Revise, records

LEMMA RememberStep ==
  ASSUME IInv, IInv', NEW batch \in Seq(StoredMemory),
         Insertable(batch), InsertMemories(batch), UNCHANGED meetings
  PROVE  \E S \in SUBSET (MemoryId \ Registry!Present) : Registry!Remember(S)
<1> DEFINE S == Ids(batch)
<1>1. /\ S \subseteq MemoryId \ Stored
      /\ \A m \in MemoryId \ S : memories'[m] = memories[m]
      /\ Stored' = Stored \cup S
  BY InsertedRows
<1> HIDE DEF S
<1>2. \A m \in MemoryId \ S : records'[m] = records[m]
  BY <1>1, RecordsWhole
<1>3. \A m \in S : records'[m] # NULL /\ Registry!Whole(records'[m], Stored \cup S)
  BY <1>1, RecordsWhole, RowWhole
<1>4. Registry!Present = Stored
  BY RecordsWhole
<1>5. Registry!Remember(S)
  BY <1>2, <1>3, <1>4 DEF Registry!Remember, records
<1> QED
  BY <1>1, <1>4, <1>5

\* Every committed operation is one step of the registry, every call that
\* raises is a stutter.
LEMMA StepRefines ==
  IInv /\ IInv' /\ [Next]_vars => [Registry!Next]_<<meetings, records>>
<1> SUFFICES ASSUME IInv, IInv', [Next]_vars
             PROVE  Registry!Next \/ UNCHANGED <<meetings, records>>
  OBVIOUS
<1>1. ASSUME UNCHANGED tables
      PROVE  UNCHANGED <<meetings, records>>
  BY <1>1 DEF tables, records, Get, Stored, OwnedBy
<1>2. ASSUME NEW batch \in Seq(StoredMemory), SaveMany(batch)
      PROVE  Registry!Next \/ UNCHANGED <<meetings, records>>
  BY <1>1, <1>2, RememberStep DEF SaveMany, Answer, Registry!Next
<1>3. ASSUME NEW batch \in Batch, SaveMany(batch)
      PROVE  Registry!Next \/ UNCHANGED <<meetings, records>>
  BY <1>2, <1>3, BatchType
<1>4. ASSUME NEW memory \in Records, Save(memory)
      PROVE  Registry!Next \/ UNCHANGED <<meetings, records>>
  BY <1>2, <1>4, BatchType DEF Save
<1>5. ASSUME NEW memory \in Records, Update(memory)
      PROVE  Registry!Next \/ UNCHANGED <<meetings, records>>
  <2> DEFINE id == memory.memory_id
  <2>1. CASE UNCHANGED tables
    BY <1>1, <2>1
  <2>2. CASE ~UNCHANGED tables
    <3>1. /\ id \in Stored
          /\ memories' = [memories EXCEPT ![id] = memory.row]
          /\ UNCHANGED meetings
      BY <1>5, <2>2 DEF Update, Answer
    <3>2. memory.row # NULL /\ id \in MemoryId
      BY BatchType, NullAssumption DEF StoredMemory
    <3>3. memories'[id] = memory.row /\ \A m \in MemoryId \ {id} : memories'[m] = memories[m]
      BY <3>1, <3>2 DEF IInv, TypeOK
    <3>4. Stored' = Stored
      BY <3>1, <3>2, <3>3 DEF Stored
    <3> QED
      BY <3>1, <3>2, <3>3, <3>4, ReviseStep DEF Registry!Next
  <2> QED
    BY <2>1, <2>2
<1>6. ASSUME NEW id \in MemoryId, Lifecycle(id)
      PROVE  Registry!Next \/ UNCHANGED <<meetings, records>>
  <2>1. CASE UNCHANGED tables
    BY <1>1, <2>1
  <2>2. CASE ~UNCHANGED tables
    <3>1. PICK status \in MemoryStatus, by \in MemoryId \cup {NULL} :
            SetStatus(id, status, by)
      BY <1>6 DEF Lifecycle, Archive, Resolve, MarkDeleted, Restore, Supersede,
                  MemoryStatus
    <3>2. /\ id \in Stored
          /\ memories' = [memories EXCEPT ![id].status = status,
                                           ![id].superseded_by = by]
          /\ UNCHANGED meetings
      BY <2>2, <3>1 DEF SetStatus, Answer
    <3>3. \A m \in MemoryId \ {id} : memories'[m] = memories[m]
      BY <3>2 DEF IInv, TypeOK
    <3>4. memories'[id] # NULL
      <4>1. memories[id] \in MemoryRow
        BY <3>2, RecordsWhole
      <4>2. memories'[id] \in MemoryRow
        BY <3>2, <4>1 DEF IInv, TypeOK, MemoryRow
      <4> QED
        BY <4>2, NullAssumption
    <3>5. Stored' = Stored
      BY <3>2, <3>3, <3>4 DEF Stored
    <3> QED
      BY <3>2, <3>3, <3>5, ReviseStep DEF Registry!Next
  <2> QED
    BY <2>1, <2>2
<1>7. ASSUME NEW id \in MemoryId, Delete(id)
      PROVE  Registry!Next \/ UNCHANGED <<meetings, records>>
  <2>1. records' = Registry!Remaining({id}) /\ UNCHANGED meetings
    BY <1>7, RemovalStep DEF Delete
  <2>2. Registry!Forget(id)
    BY <2>1 DEF Registry!Forget, records
  <2> QED
    BY <2>2 DEF Registry!Next
<1>8. ASSUME NEW x \in MeetingId, NEW hash \in Hash, SaveMeeting(x, hash)
      PROVE  Registry!Next \/ UNCHANGED <<meetings, records>>
  <2>1. CASE UNCHANGED tables
    BY <1>1, <2>1
  <2>2. CASE ~UNCHANGED tables
    <3>1. /\ x \notin Registered /\ \A y \in MeetingId : meetings[y] # hash
          /\ meetings' = [meetings EXCEPT ![x] = hash]
          /\ UNCHANGED <<memories, evidence, metadata>>
      BY <1>8, <2>2 DEF SaveMeeting, Answer
    <3>2. records' = records
      BY <3>1 DEF records, Get, Stored, OwnedBy
    <3>3. meetings[x] = NULL
      BY <3>1 DEF Registered
    <3>4. Registry!Register(x, hash)
      BY <3>1, <3>2, <3>3 DEF Registry!Register, records
    <3> QED
      BY <3>4 DEF Registry!Next
  <2> QED
    BY <2>1, <2>2
<1>9. ASSUME NEW x \in MeetingId, DeleteMeeting(x)
      PROVE  Registry!Next \/ UNCHANGED <<meetings, records>>
  <2>1. MemoriesOf(x) \in SUBSET MemoryId
    BY DEF MemoriesOf, Stored
  <2>2. records' = Registry!Remaining(MemoriesOf(x))
    BY <1>9, <2>1, RemovalStep DEF DeleteMeeting
  <2>3. MemoriesOf(x) = {m \in Registry!Present : records[m].row.meeting_id = x}
    <3>1. \A m \in Stored : m \in MemoryId /\ records[m].row = memories[m]
      <4> TAKE m \in Stored
      <4>1. m \in MemoryId
        BY DEF Stored
      <4>2. records[m] = WholeRecord(memories[m])
        BY <4>1, RecordsWhole
      <4> QED
        BY <4>1, <4>2 DEF WholeRecord
    <3> QED
      BY <3>1, RecordsWhole DEF MemoriesOf
  <2>4. Registry!Unregister(x)
    BY <1>9, <2>2, <2>3 DEF Registry!Unregister, records, DeleteMeeting
  <2> QED
    BY <2>4 DEF Registry!Next
<1>10. CASE UNCHANGED vars
  BY <1>1, <1>10 DEF vars, tables
<1> QED
  BY <1>3, <1>4, <1>5, <1>6, <1>7, <1>8, <1>9, <1>10 DEF Next

\* The tables implement the registry: a reader of whole records cannot tell
\* them from it.
THEOREM StoreImplementsRegistry == Spec => ImplementsRegistry
<1>1. Init => Registry!Init
  BY DEF Init, Registry!Init, Get, Stored
<1>2. IInv /\ IInv' /\ [Next]_vars
        => [Registry!Next]_<<meetings, [m \in MemoryId |-> Get(m)]>>
  BY StepRefines DEF records
<1> QED
  BY <1>1, <1>2, InvHolds, PTL DEF Spec, ImplementsRegistry, Registry!Spec
==============================================================================
