-------------------------- MODULE MeetingImportProofs --------------------------
(***************************************************************************)
(* Importers and deleting clients on one database, for any processes,      *)
(* files and crashes: evidence follows its memories, writers exclude each  *)
(* other, and a meeting holds its whole transcript or nothing.             *)
(***************************************************************************)
EXTENDS MeetingImport, MemoryStoreProofs

ImportTypeOK ==
  /\ TypeOK
  /\ pc \in [Worker -> Ended \cup Busy]
  /\ file \in [Worker -> File]
  /\ to_store \in [Worker -> SUBSET StoredMemory]
  /\ victims \in [Deleter -> SUBSET MemoryId]
  /\ doomed \in [Deleter -> MeetingId \cup {NULL}]
  /\ crashes \in Nat
  /\ deleted \in BOOLEAN

\* What a worker has yet to store comes from its file.
BatchFromFile == \A w \in Worker : to_store[w] \subseteq ToSet(Extracted[file[w]])

\* A writer's meeting is registered for its file and holds nothing yet; what it
\* is about to store is each point of its transcript, once.
WriterPrepared ==
  \A w \in Worker : Writing(w) =>
    /\ meetings[IdOf[file[w]]] = HashOf[file[w]]
    /\ MemoriesOf(IdOf[file[w]]) = {}
    /\ At(w, "insert memories") => to_store[w] = Kept(Extracted[file[w]], {})

\* A memory id belongs to one meeting for good; so does what a deletion has read.
Owns(x, m) ==
  \E f \in File : IdOf[f] = x /\ \E r \in ToSet(Extracted[f]) : r.memory_id = m
OwnersFixed ==
  /\ \A m \in Stored : Owns(memories[m].meeting_id, m)
  /\ \A d \in Deleter : \A m \in victims[d] : Owns(doomed[d], m)

\* Only crashes abandon meetings, each at most one.
Loss == IsFiniteSet(Abandoned) /\ Cardinality(Abandoned) <= crashes

\* What holds until somebody deletes a meeting.
Undisturbed ==
  /\ WriterPrepared
  /\ \A v, w \in Worker :
       Writing(v) /\ Writing(w) /\ IdOf[file[v]] = IdOf[file[w]] => v = w
  /\ \A x \in Registered : MemoriesOf(x) = {} \/ Complete(x)
  /\ \A w \in Worker : pc[w] # "StorageError"
  /\ Loss

\* The inductive invariant.
ImportInv ==
  /\ ImportTypeOK
  /\ ReferentialIntegrity
  /\ EvidenceExact
  /\ BatchFromFile
  /\ OwnersFixed
  /\ ~deleted => Undisturbed

LEMMA FileTypes ==
  ASSUME NEW f \in File
  PROVE  /\ IdOf[f] \in MeetingId /\ HashOf[f] \in Hash
         /\ Extracted[f] \in Seq(StoredMemory)
         /\ \A r \in ToSet(Extracted[f]) :
              /\ r \in StoredMemory
              /\ r.row.meeting_id = IdOf[f]
              /\ r.row.superseded_by = NULL
         /\ \A r, s \in ToSet(Extracted[f]) : r.memory_id = s.memory_id => r = s
<1>1. Extracted[f] \in Seq(StoredMemory)
  BY FileAssumption
<1>2. \A i \in DOMAIN Extracted[f] : Extracted[f][i] \in StoredMemory
  BY <1>1
<1> QED
  BY <1>1, <1>2, FileAssumption DEF ToSet

LEMMA OneOwner ==
  ASSUME NEW x, NEW y, NEW m, Owns(x, m), Owns(y, m)
  PROVE  x = y
<1>1. PICK f \in File : IdOf[f] = x /\ \E i \in DOMAIN Extracted[f] : Extracted[f][i].memory_id = m
  BY DEF Owns, ToSet
<1>2. PICK g \in File : IdOf[g] = y /\ \E i \in DOMAIN Extracted[g] : Extracted[g][i].memory_id = m
  BY DEF Owns, ToSet
<1> QED
  BY <1>1, <1>2, FileAssumption

LEMMA KeptPart ==
  ASSUME NEW s, NEW said
  PROVE  Kept(s, said) \subseteq ToSet(s)
BY DEF Kept, ToSet

\* Of a transcript whose meeting is empty every point is kept, once.
LEMMA KeptWhole ==
  ASSUME NEW s \in Seq(StoredMemory)
  PROVE  /\ \A r, t \in Kept(s, {}) : r.row.content = t.row.content => r = t
         /\ \A r \in ToSet(s) : \E t \in Kept(s, {}) : t.row.content = r.row.content
<1> DEFINE says(i) == s[i].row.content
           new == {i \in DOMAIN s : says(i) \notin {} /\ \A j \in 1 .. i - 1 : says(j) # says(i)}
<1>1. Kept(s, {}) = {s[i] : i \in new}
  BY DEF Kept
<1>2. DOMAIN s \subseteq Nat /\ \A i \in DOMAIN s : 1 .. i - 1 \subseteq DOMAIN s
  OBVIOUS
<1>3. ASSUME NEW i \in new, NEW j \in new, says(i) = says(j)
      PROVE  i = j
  <2>1. ~(i < j) /\ ~(j < i)
    BY <1>2, <1>3
  <2> QED
    BY <1>2, <2>1
<1>4. ASSUME NEW k \in DOMAIN s
      PROVE  \E i \in new : says(i) = says(k)
  <2> DEFINE alike == {i \in DOMAIN s : says(i) = says(k)}
  <2>1. alike \in SUBSET Nat /\ alike # {}
    BY <1>2
  <2>2. PICK i \in alike : \A j \in alike : i <= j
    BY <2>1, LeastNatural
  <2>3. \A j \in 1 .. i - 1 : says(j) # says(i)
    BY <1>2, <2>2
  <2> QED
    BY <2>2, <2>3
<1> HIDE DEF new
<1> QED
  BY <1>1, <1>3, <1>4 DEF ToSet

------------------------------------------------------------------------------
LEMMA OneMoreAtMost ==
  ASSUME NEW S, IsFiniteSet(S), NEW x
  PROVE  IsFiniteSet(S \cup {x}) /\ Cardinality(S \cup {x}) <= Cardinality(S) + 1
<1>1. IsFiniteSet(S \cup {x}) /\ Cardinality(S) \in Nat
  BY FS_AddElement, FS_CardinalityType
<1>2. Cardinality(S \cup {x}) = IF x \in S THEN Cardinality(S) ELSE Cardinality(S) + 1
  BY FS_AddElement
<1> QED
  BY <1>1, <1>2

LEMMA SaveMeetingType ==
  ASSUME TypeOK, NEW x \in MeetingId, NEW hash \in Hash, SaveMeeting(x, hash)
  PROVE  TypeOK'
BY DEF SaveMeeting, Answer, tables, TypeOK, Reply

LEMMA TypeStep ==
  ASSUME ImportTypeOK, BatchFromFile, [ImportNext]_importVars
  PROVE  ImportTypeOK' /\ BatchFromFile'
<1> USE DEF ImportTypeOK, BatchFromFile
<1>1. ASSUME NEW w \in Worker, NEW next \in Ended \cup Busy, Goto(w, next),
             UNCHANGED <<deletion, file>>, TypeOK',
             \/ to_store' = to_store
             \/ \E S \in SUBSET ToSet(Extracted[file[w]]) : to_store' = [to_store EXCEPT ![w] = S],
             crashes' \in Nat
      PROVE  ImportTypeOK' /\ BatchFromFile'
  <2>1. \A f \in File : ToSet(Extracted[f]) \subseteq StoredMemory
    BY FileTypes
  <2>2. file[w] \in File
    OBVIOUS
  <2> QED
    BY <1>1, <2>1, <2>2 DEF Goto, deletion
<1>2. UNCHANGED vars => TypeOK'
  BY DEF vars, TypeOK
<1>3. ASSUME NEW w \in Worker, NEW f \in File, Begin(w, f)
      PROVE  ImportTypeOK' /\ BatchFromFile'
  BY <1>3, <1>2 DEF Begin, Goto, deletion, Busy
<1>4. ASSUME NEW w \in Worker, FindHash(w) \/ CheckId(w) \/ CheckHash(w) \/ HandleDuplicate(w)
      PROVE  ImportTypeOK' /\ BatchFromFile'
  <2>1. \E next \in Ended \cup Busy : Goto(w, next)
    BY <1>4 DEF FindHash, CheckId, CheckHash, HandleDuplicate, Ended, Busy
  <2>2. ReadOnly
    BY <1>4 DEF FindHash, CheckId, CheckHash, HandleDuplicate
  <2> QED
    BY <2>1, <2>2, <1>1, <1>2 DEF ReadOnly
<1>5. ASSUME NEW w \in Worker, InsertMeeting(w)
      PROVE  ImportTypeOK' /\ BatchFromFile'
  <2>1. TypeOK'
    <3>1. IdOf[file[w]] \in MeetingId /\ HashOf[file[w]] \in Hash
      BY FileTypes
    <3> QED
      BY <1>5, <3>1, SaveMeetingType DEF InsertMeeting
  <2>2. \E next \in Ended \cup Busy : Goto(w, next)
    BY <1>5 DEF InsertMeeting, Busy
  <2> QED
    BY <1>5, <2>1, <2>2, <1>1 DEF InsertMeeting
<1>6. ASSUME NEW w \in Worker, FilterDuplicates(w)
      PROVE  ImportTypeOK' /\ BatchFromFile'
  <2>1. PICK said : to_store' = [to_store EXCEPT ![w] = Kept(Extracted[file[w]], said)]
    BY <1>6 DEF FilterDuplicates
  <2>2. Kept(Extracted[file[w]], said) \in SUBSET ToSet(Extracted[file[w]])
    BY KeptPart
  <2>3. Goto(w, "insert memories") /\ "insert memories" \in Ended \cup Busy
    BY <1>6 DEF FilterDuplicates, Busy
  <2> QED
    BY <1>6, <2>1, <2>2, <2>3, <1>1, <1>2 DEF FilterDuplicates
<1>7. ASSUME NEW w \in Worker, InsertAll(w)
      PROVE  ImportTypeOK' /\ BatchFromFile'
  <2>1. to_store[w] \subseteq ToSet(Extracted[file[w]]) /\ to_store[w] \subseteq StoredMemory
    OBVIOUS
  <2>2. IsFiniteSet(to_store[w])
    BY <2>1, ElementsFinite, FileTypes, FS_Subset
  <2>3. SetToSeq(to_store[w]) \in Seq(StoredMemory)
    BY <2>1, <2>2, SequenceOfSet DEF Lists
  <2>4. TypeOK'
    BY <1>7, <2>3, SaveManyType DEF InsertAll
  <2>5. \E next \in Ended \cup Busy : Goto(w, next)
    BY <1>7 DEF InsertAll, Ended
  <2> QED
    BY <1>7, <2>4, <2>5, <1>1 DEF InsertAll
<1>8. ASSUME NEW w \in Worker, Crash(w)
      PROVE  ImportTypeOK' /\ BatchFromFile'
  BY <1>8, <1>1, <1>2 DEF Crash, Ended
<1>9. ASSUME NEW d \in Deleter, NEW x \in MeetingId, SelectMemories(d, x)
      PROVE  ImportTypeOK' /\ BatchFromFile'
  BY <1>9, <1>2 DEF SelectMemories, import, MemoriesOf, Stored
<1>10. ASSUME NEW d \in Deleter, DeleteTransaction(d)
       PROVE  ImportTypeOK' /\ BatchFromFile'
  <2> DEFINE gone == MemoriesOf(doomed[d])
  <2>1. doomed[d] \in MeetingId /\ gone \in SUBSET MemoryId
    BY <1>10 DEF DeleteTransaction, MemoriesOf, Stored
  <2>2. /\ memories' = Without(gone)
        /\ evidence' \subseteq evidence /\ metadata' \subseteq metadata
        /\ meetings' = [meetings EXCEPT ![doomed[d]] = NULL]
        /\ reply' \in Reply
        /\ doomed' = [doomed EXCEPT ![d] = NULL]
        /\ victims' = [victims EXCEPT ![d] = {}]
        /\ deleted' = TRUE
        /\ UNCHANGED <<import, crashes>>
    BY <1>10 DEF DeleteTransaction, Reply
  <2>3. TypeOK'
    BY <2>1, <2>2, WithoutType DEF TypeOK
  <2> QED
    BY <2>2, <2>3 DEF import
<1>11. CASE UNCHANGED importVars
  BY <1>11, <1>2 DEF importVars, import, deletion
<1> QED
  BY <1>3, <1>4, <1>5, <1>6, <1>7, <1>8, <1>9, <1>10, <1>11 DEF ImportNext, Step

------------------------------------------------------------------------------
LEMMA TablesUnchanged ==
  ASSUME UNCHANGED tables
  PROVE  /\ Registered' = Registered /\ Stored' = Stored
         /\ memories' = memories /\ meetings' = meetings /\ evidence' = evidence
         /\ \A x : MemoriesOf(x)' = MemoriesOf(x)
BY DEF tables, Registered, Stored, MemoriesOf

LEMMA KeptIntegrity ==
  ASSUME ReferentialIntegrity, EvidenceExact, UNCHANGED tables
  PROVE  ReferentialIntegrity' /\ EvidenceExact'
BY TablesUnchanged DEF ReferentialIntegrity, EvidenceExact

\* What a worker's batch is, for the lemmas on sets of records.
LEMMA BatchTypes ==
  ASSUME ImportTypeOK, BatchFromFile, NEW w \in Worker
  PROVE  /\ file[w] \in File /\ IdOf[file[w]] \in MeetingId /\ HashOf[file[w]] \in Hash
         /\ to_store[w] \in SUBSET StoredMemory /\ IsFiniteSet(to_store[w])
         /\ \A r \in to_store[w] : r.row.meeting_id = IdOf[file[w]] /\ r.row.superseded_by = NULL
         /\ \A r, s \in to_store[w] : r.memory_id = s.memory_id => r = s
<1>1. file[w] \in File /\ to_store[w] \subseteq ToSet(Extracted[file[w]])
  BY DEF ImportTypeOK, BatchFromFile
<1>2. IsFiniteSet(to_store[w])
  BY <1>1, ElementsFinite, FileTypes, FS_Subset
<1> QED
  BY <1>1, <1>2, FileTypes

\* What InsertAll leaves when the INSERTs go through.
LEMMA InsertedAll ==
  ASSUME ImportTypeOK, BatchFromFile, NEW w \in Worker, InsertAll(w), Insertable(SetToSeq(to_store[w]))
  PROVE  /\ IdsOf(to_store[w]) \subseteq MemoryId \ Stored
         /\ \A r \in to_store[w] : memories'[r.memory_id] = r.row
         /\ \A m \in Stored : memories'[m] = memories[m]
         /\ Stored' = Stored \cup IdsOf(to_store[w])
         /\ evidence' = evidence \cup ChildrenOf(to_store[w])
         /\ meetings' = meetings /\ Registered' = Registered
         /\ IdOf[file[w]] \in Registered \/ to_store[w] = {}
         /\ Goto(w, "imported")
<1>1. /\ InsertMemories(SetToSeq(to_store[w]))
      /\ meetings' = meetings /\ Goto(w, "imported")
  BY DEF InsertAll, SaveMany
<1>2. Registered' = Registered
  BY <1>1 DEF Registered
<1>3. ASSUME to_store[w] # {}
      PROVE  IdOf[file[w]] \in Registered
  <2> DEFINE batch == SetToSeq(to_store[w])
  <2>1. /\ {batch[i] : i \in DOMAIN batch} = to_store[w]
    BY BatchTypes, SequenceOfSet DEF Lists
  <2>2. PICK i \in DOMAIN batch : batch[i] \in to_store[w]
    BY <1>3, <2>1
  <2>3. batch[i].row.meeting_id \in Registered
    BY DEF Insertable
  <2> QED
    BY <2>2, <2>3, BatchTypes
<1> QED
  BY <1>1, <1>2, <1>3, BatchTypes, SequenceOfSet, InsertedSet

LEMMA IntegrityStep ==
  ASSUME ImportTypeOK, BatchFromFile, OwnersFixed, ReferentialIntegrity, EvidenceExact,
         [ImportNext]_importVars
  PROVE  ReferentialIntegrity' /\ EvidenceExact'
<1>1. ASSUME NEW w \in Worker, InsertMeeting(w)
      PROVE  ReferentialIntegrity' /\ EvidenceExact'
  <2> DEFINE x == IdOf[file[w]]
             hash == HashOf[file[w]]
  <2>1. CASE UNCHANGED tables
    BY <2>1, KeptIntegrity
  <2>2. CASE /\ meetings' = [meetings EXCEPT ![x] = hash]
             /\ UNCHANGED <<memories, evidence, metadata>>
    <3>1. Stored' = Stored /\ Registered \subseteq Registered'
      BY <2>2, BatchTypes, NullAssumption DEF Stored, Registered, ImportTypeOK, TypeOK
    <3> QED
      BY <2>2, <3>1 DEF ReferentialIntegrity, EvidenceExact
  <2> QED
    BY <1>1, <2>1, <2>2 DEF InsertMeeting, SaveMeeting, Answer
<1>2. ASSUME NEW w \in Worker, InsertAll(w)
      PROVE  ReferentialIntegrity' /\ EvidenceExact'
  <2> DEFINE R == to_store[w]
  <2>1. CASE ~Insertable(SetToSeq(R))
    BY <1>2, <2>1, KeptIntegrity DEF InsertAll, SaveMany, Answer
  <2>2. CASE Insertable(SetToSeq(R))
    <3>1. /\ \A r \in R : memories'[r.memory_id] = r.row
          /\ \A m \in Stored : memories'[m] = memories[m]
          /\ Stored' = Stored \cup IdsOf(R)
          /\ evidence' = evidence \cup ChildrenOf(R)
          /\ Registered' = Registered
          /\ IdOf[file[w]] \in Registered \/ R = {}
      BY <1>2, <2>2, InsertedAll
    <3>2. \A r \in R : r.row.meeting_id = IdOf[file[w]] /\ r.row.superseded_by = NULL
      BY BatchTypes
    <3>3. ReferentialIntegrity'
      BY <3>1, <3>2 DEF ReferentialIntegrity, IdsOf
    <3>4. {<<m, memories'[m].content>> : m \in IdsOf(R)} = ChildrenOf(R)
      BY <3>1 DEF IdsOf, ChildrenOf
    <3>5. {<<m, memories'[m].content>> : m \in Stored} = evidence
      BY <3>1 DEF EvidenceExact
    <3> HIDE DEF R
    <3>6. {<<m, memories'[m].content>> : m \in Stored'} = evidence'
      BY <3>1, <3>4, <3>5
    <3> QED
      BY <3>3, <3>6 DEF EvidenceExact
  <2> QED
    BY <2>1, <2>2
<1>3. ASSUME NEW d \in Deleter, DeleteTransaction(d)
      PROVE  ReferentialIntegrity' /\ EvidenceExact'
  <2> DEFINE x == doomed[d]
             gone == MemoriesOf(x)
             owed == {<<m, memories[m].content>> : m \in Stored}
  <2>1. TypeOK /\ x \in MeetingId /\ gone \in SUBSET MemoryId
    BY <1>3 DEF DeleteTransaction, MemoriesOf, Stored, ImportTypeOK
  <2>2. /\ memories' = Without(gone)
        /\ evidence' = evidence \ OwnedBy(evidence, gone \cup victims[d])
        /\ meetings' = [meetings EXCEPT ![x] = NULL]
    BY <1>3 DEF DeleteTransaction
  <2>3. /\ Stored' = Stored \ gone
        /\ \A m \in Stored' :
             /\ memories'[m].meeting_id = memories[m].meeting_id
             /\ memories'[m].content = memories[m].content
             /\ memories'[m].superseded_by \in {memories[m].superseded_by, NULL}
             /\ memories'[m].superseded_by \notin gone \ {NULL}
    BY <2>1, <2>2, WithoutRows
  <2>4. ReferentialIntegrity'
    <3>1. \A m \in Stored' : memories[m].meeting_id \in Registered \ {x}
      BY <2>3 DEF ReferentialIntegrity, MemoriesOf
    <3>2. Registered \ {x} \subseteq Registered'
      BY <2>2, <2>1 DEF Registered, TypeOK
    <3> QED
      BY <2>3, <3>1, <3>2 DEF ReferentialIntegrity
  \* The ids read before are those of the meeting's memories, here or gone.
  <2>5. \A m \in Stored' : m \notin victims[d]
    <3> SUFFICES ASSUME NEW m \in Stored', m \in victims[d]
                 PROVE  FALSE
      OBVIOUS
    <3>1. Owns(x, m) /\ Owns(memories[m].meeting_id, m)
      BY <2>3 DEF OwnersFixed
    <3>2. memories[m].meeting_id = x
      BY <3>1, OneOwner
    <3> QED
      BY <2>3, <3>2 DEF MemoriesOf
  <2>6. evidence' = {<<m, memories[m].content>> : m \in Stored'}
    <3>1. evidence = owed
      BY DEF EvidenceExact
    <3>2. owed \ OwnedBy(owed, gone \cup victims[d]) = {<<m, memories[m].content>> : m \in Stored'}
      <4>1. \A m \in Stored : m \in Stored' <=> m \notin gone \cup victims[d]
        <5>1. \A m \in Stored : m \in Stored' <=> m \notin gone
          BY <2>3
        <5> QED
          BY <2>5, <5>1
      <4>2. Stored' \subseteq Stored
        BY <2>3
      <4> HIDE DEF gone
      <4> QED
        BY <4>1, <4>2 DEF OwnedBy
    <3> QED
      BY <2>2, <3>1, <3>2
  <2>7. EvidenceExact'
    BY <2>3, <2>6 DEF EvidenceExact
  <2> QED
    BY <2>4, <2>7
<1>4. CASE UNCHANGED tables
  BY <1>4, KeptIntegrity
<1>5. ASSUME NEW w \in Worker,
             \/ \E f \in File : Begin(w, f)
             \/ FindHash(w) \/ CheckId(w) \/ CheckHash(w) \/ HandleDuplicate(w)
             \/ FilterDuplicates(w) \/ Crash(w)
      PROVE  UNCHANGED tables
  BY <1>5 DEF Begin, FindHash, CheckId, CheckHash, HandleDuplicate, FilterDuplicates, Crash,
     ReadOnly, vars, tables
<1>6. ASSUME NEW d \in Deleter, NEW x \in MeetingId, SelectMemories(d, x)
      PROVE  UNCHANGED tables
  BY <1>6 DEF SelectMemories, vars, tables
<1>7. UNCHANGED importVars => UNCHANGED tables
  BY DEF importVars, vars, tables
<1> QED
  BY <1>1, <1>2, <1>3, <1>4, <1>5, <1>6, <1>7 DEF ImportNext, Step

LEMMA OwnersStep ==
  ASSUME ImportTypeOK, BatchFromFile, OwnersFixed, [ImportNext]_importVars
  PROVE  OwnersFixed'
<1>1. ASSUME UNCHANGED tables, UNCHANGED deletion
      PROVE  OwnersFixed'
  BY <1>1, TablesUnchanged DEF OwnersFixed, deletion, Owns
<1>2. ASSUME NEW w \in Worker, InsertMeeting(w)
      PROVE  OwnersFixed'
  <2>1. memories' = memories /\ UNCHANGED deletion
    BY <1>2 DEF InsertMeeting, SaveMeeting, Answer, tables
  <2>2. Stored' = Stored
    BY <2>1 DEF Stored
  <2> QED
    BY <2>1, <2>2 DEF OwnersFixed, Owns, deletion
<1>3. ASSUME NEW w \in Worker, InsertAll(w)
      PROVE  OwnersFixed'
  <2> DEFINE R == to_store[w]
  <2>1. CASE ~Insertable(SetToSeq(R))
    BY <1>3, <2>1, <1>1 DEF InsertAll, SaveMany, Answer
  <2>2. CASE Insertable(SetToSeq(R))
    <3>1. /\ \A r \in R : memories'[r.memory_id] = r.row
          /\ \A m \in Stored : memories'[m] = memories[m]
          /\ Stored' = Stored \cup IdsOf(R)
          /\ UNCHANGED deletion
      BY <1>3, <2>2, InsertedAll DEF InsertAll
    <3>2. \A r \in R : r.row.meeting_id = IdOf[file[w]] /\ Owns(r.row.meeting_id, r.memory_id)
      BY BatchTypes DEF Owns, BatchFromFile
    <3>3. \A m \in Stored' : Owns(memories'[m].meeting_id, m)
      BY <3>1, <3>2 DEF OwnersFixed, IdsOf
    <3> QED
      BY <3>1, <3>3 DEF OwnersFixed, deletion, Owns
  <2> QED
    BY <2>1, <2>2
<1>4. ASSUME NEW d \in Deleter, NEW x \in MeetingId, SelectMemories(d, x)
      PROVE  OwnersFixed'
  <2>1. /\ UNCHANGED tables
        /\ victims' = [victims EXCEPT ![d] = MemoriesOf(x)]
        /\ doomed' = [doomed EXCEPT ![d] = x]
    BY <1>4 DEF SelectMemories, vars, tables
  <2>2. \A m \in MemoriesOf(x) : Owns(x, m)
    BY DEF MemoriesOf, OwnersFixed
  <2>3. \A e \in Deleter : \A m \in victims'[e] : Owns(doomed'[e], m)
    BY <2>1, <2>2 DEF OwnersFixed, ImportTypeOK
  <2> QED
    BY <2>1, <2>3, TablesUnchanged DEF OwnersFixed, Owns
<1>5. ASSUME NEW d \in Deleter, DeleteTransaction(d)
      PROVE  OwnersFixed'
  <2> DEFINE gone == MemoriesOf(doomed[d])
  <2>1. /\ memories' = Without(gone)
        /\ victims' = [victims EXCEPT ![d] = {}]
        /\ doomed' = [doomed EXCEPT ![d] = NULL]
        /\ gone \in SUBSET MemoryId
    BY <1>5 DEF DeleteTransaction, MemoriesOf, Stored
  <2>2. \A m \in Stored' : m \in Stored /\ memories'[m].meeting_id = memories[m].meeting_id
    BY <2>1, WithoutRows DEF ImportTypeOK
  <2>3. \A e \in Deleter : \A m \in victims'[e] : Owns(doomed'[e], m)
    BY <2>1 DEF OwnersFixed, ImportTypeOK
  <2> QED
    BY <2>2, <2>3 DEF OwnersFixed, Owns
<1>6. ASSUME NEW w \in Worker,
             \/ \E f \in File : Begin(w, f)
             \/ FindHash(w) \/ CheckId(w) \/ CheckHash(w) \/ HandleDuplicate(w)
             \/ FilterDuplicates(w) \/ Crash(w)
      PROVE  UNCHANGED tables /\ UNCHANGED deletion
  BY <1>6 DEF Begin, FindHash, CheckId, CheckHash, HandleDuplicate, FilterDuplicates, Crash,
     ReadOnly, vars, tables, deletion
<1>7. UNCHANGED importVars => UNCHANGED tables /\ UNCHANGED deletion
  BY DEF importVars, vars, tables
<1> QED
  BY <1>1, <1>2, <1>3, <1>4, <1>5, <1>6, <1>7 DEF ImportNext, Step

------------------------------------------------------------------------------
(* Importers among themselves. *)

\* A meeting whose rows stay as they are stays as complete as it is.
LEMMA SameMeeting ==
  ASSUME NEW x, MemoriesOf(x)' = MemoriesOf(x), meetings'[x] = meetings[x],
         \A m \in MemoriesOf(x) : memories'[m] = memories[m]
  PROVE  Complete(x)' <=> Complete(x)
<1>1. Holds(x)' = Holds(x)
  BY DEF Holds
<1> QED
  BY <1>1 DEF Complete

\* A step after which fewer meetings are abandoned keeps their bound.
LEMMA FewerAbandoned ==
  ASSUME Loss, Abandoned' \subseteq Abandoned, crashes' = crashes, crashes \in Nat
  PROVE  Loss'
<1>1. /\ IsFiniteSet(Abandoned') /\ Cardinality(Abandoned') <= Cardinality(Abandoned)
      /\ Cardinality(Abandoned') \in Nat /\ Cardinality(Abandoned) \in Nat
  BY FS_Subset, FS_CardinalityType DEF Loss
<1> QED
  BY <1>1 DEF Loss

\* Steps that write no table and start or end no writer.
LEMMA SameWriters ==
  ASSUME Undisturbed, UNCHANGED tables,
         \A v \in Worker : Writing(v)' <=> Writing(v),
         \A v \in Worker : Writing(v) => /\ file'[v] = file[v]
                                         /\ pc'[v] = pc[v]
                                         /\ to_store'[v] = to_store[v],
         \A v \in Worker : pc'[v] # "StorageError",
         crashes \in Nat, crashes' \in Nat, crashes <= crashes'
  PROVE  Undisturbed'
<1>1. /\ Registered' = Registered /\ meetings' = meetings
      /\ \A x : MemoriesOf(x)' = MemoriesOf(x) /\ (Complete(x)' <=> Complete(x))
  BY TablesUnchanged, SameMeeting
<1>2. Abandoned' = Abandoned
  BY <1>1 DEF Abandoned
<1>3. Loss'
  BY <1>2, FS_CardinalityType DEF Undisturbed, Loss
<1>4. WriterPrepared'
  BY <1>1 DEF Undisturbed, WriterPrepared, At
<1> QED
  BY <1>1, <1>3, <1>4 DEF Undisturbed

LEMMA CrashesCounted ==
  ASSUME crashes \in Nat, crashes' = crashes \/ crashes' = crashes + 1
  PROVE  crashes' \in Nat /\ crashes <= crashes'
OBVIOUS

\* A worker that is not writing moves on without becoming a writer.
LEMMA QuietStep ==
  ASSUME ImportTypeOK, Undisturbed, UNCHANGED tables,
         NEW w \in Worker, ~Writing(w),
         NEW next \in (Ended \cup Busy) \ {"read existing", "insert memories", "StorageError"},
         Goto(w, next),
         \A v \in Worker \ {w} : file'[v] = file[v] /\ to_store'[v] = to_store[v],
         crashes' = crashes \/ crashes' = crashes + 1
  PROVE  Undisturbed'
<1>1. pc \in [Worker -> Ended \cup Busy] /\ pc' = [pc EXCEPT ![w] = next]
  BY DEF ImportTypeOK, Goto
<1>2. \A v \in Worker : Writing(v)' <=> Writing(v)
  <2> SUFFICES ASSUME NEW v \in Worker
               PROVE  Writing(v)' <=> Writing(v)
    OBVIOUS
  <2>1. CASE v = w
    BY <1>1, <2>1 DEF Writing
  <2>2. CASE v # w
    BY <1>1, <2>2 DEF Writing
  <2> QED
    BY <2>1, <2>2
<1>3. \A v \in Worker : Writing(v) => /\ file'[v] = file[v]
                                      /\ pc'[v] = pc[v]
                                      /\ to_store'[v] = to_store[v]
  BY <1>1
<1>4. \A v \in Worker : pc'[v] # "StorageError"
  BY <1>1 DEF Undisturbed
<1>5. crashes \in Nat /\ crashes' \in Nat /\ crashes <= crashes'
  BY CrashesCounted DEF ImportTypeOK
<1> QED
  BY <1>2, <1>3, <1>4, <1>5, SameWriters

LEMMA FilterStep ==
  ASSUME ImportTypeOK, Undisturbed, NEW w \in Worker, FilterDuplicates(w)
  PROVE  Undisturbed'
<1>1. Writing(w) /\ MemoriesOf(IdOf[file[w]]) = {}
  BY DEF FilterDuplicates, At, Writing, Undisturbed, WriterPrepared
<1>2. /\ UNCHANGED tables /\ file' = file /\ crashes' = crashes
      /\ pc' = [pc EXCEPT ![w] = "insert memories"]
      /\ to_store' = [to_store EXCEPT ![w] = Kept(Extracted[file[w]], {})]
  <2>1. {memories[m].content : m \in MemoriesOf(IdOf[file[w]])} = {}
    BY <1>1
  <2> QED
    BY <2>1 DEF FilterDuplicates, Goto, vars, tables
<1>3. \A v \in Worker : Writing(v)' <=> Writing(v)
  BY <1>1, <1>2 DEF Writing, ImportTypeOK
<1>4. /\ Registered' = Registered /\ meetings' = meetings
      /\ \A x : MemoriesOf(x)' = MemoriesOf(x) /\ (Complete(x)' <=> Complete(x))
  BY <1>2, TablesUnchanged, SameMeeting
<1>5. Abandoned' = Abandoned
  BY <1>2, <1>3, <1>4 DEF Abandoned
<1>6. WriterPrepared'
  BY <1>2, <1>3, <1>4 DEF Undisturbed, WriterPrepared, At, ImportTypeOK
<1> QED
  BY <1>2, <1>3, <1>4, <1>5, <1>6 DEF Undisturbed, Loss, ImportTypeOK

\* The INSERT lets one worker through per meeting: the row was not there, so no
\* other worker writes for it, and no memory refers to it.
LEMMA RegisterStep ==
  ASSUME ImportTypeOK, ReferentialIntegrity, Undisturbed, NEW w \in Worker, InsertMeeting(w)
  PROVE  Undisturbed'
<1> DEFINE x == IdOf[file[w]]
           hash == HashOf[file[w]]
<1>0. x \in MeetingId /\ hash \in Hash /\ file[w] \in File
  BY FileTypes DEF ImportTypeOK
<1>a. ~Writing(w) /\ pc' \in [Worker -> Ended \cup Busy] /\ file' = file /\ to_store' = to_store /\ crashes' = crashes
  BY DEF InsertMeeting, At, Writing, Goto, ImportTypeOK, Busy
<1>1. CASE UNCHANGED tables /\ reply' # "ok"
  <2>1. Goto(w, "get meeting")
    BY <1>1 DEF InsertMeeting
  <2>2. "get meeting" \in (Ended \cup Busy) \ {"read existing", "insert memories", "StorageError"}
    BY DEF Busy
  <2> QED
    BY <1>1, <1>a, <2>1, <2>2, QuietStep
<1>2. CASE /\ x \notin Registered /\ reply' = "ok"
           /\ meetings' = [meetings EXCEPT ![x] = hash] /\ memories' = memories
  <2>1. pc' = [pc EXCEPT ![w] = "read existing"]
    BY <1>2 DEF InsertMeeting, Goto
  <2>2. /\ Registered' = Registered \cup {x} /\ Stored' = Stored
        /\ meetings'[x] = hash
        /\ \A y \in Registered : meetings'[y] = meetings[y]
    BY <1>2, <1>0, NullAssumption DEF Registered, Stored, ImportTypeOK, TypeOK
  <2>3. \A y : MemoriesOf(y)' = MemoriesOf(y)
    BY <1>2, <2>2 DEF MemoriesOf
  <2>4. MemoriesOf(x) = {}
    BY <1>2 DEF ReferentialIntegrity, MemoriesOf
  <2>5. \A y \in Registered : Complete(y)' <=> Complete(y)
    BY <1>2, <2>2, <2>3, SameMeeting
  <2>6. \A v \in Worker : Writing(v)' <=> Writing(v) \/ v = w
    BY <2>1 DEF Writing, ImportTypeOK
  <2>7. \A v \in Worker : Writing(v) => IdOf[file[v]] \in Registered
    <3> SUFFICES ASSUME NEW v \in Worker, Writing(v)
                 PROVE  IdOf[file[v]] \in Registered
      OBVIOUS
    <3>1. file[v] \in File
      BY DEF ImportTypeOK
    <3>2. IdOf[file[v]] \in MeetingId /\ HashOf[file[v]] # NULL
      BY <3>1, FileTypes, NullAssumption
    <3>3. meetings[IdOf[file[v]]] = HashOf[file[v]]
      BY DEF Undisturbed, WriterPrepared
    <3> QED
      BY <3>2, <3>3 DEF Registered
  <2>8. WriterPrepared'
    <3> SUFFICES ASSUME NEW v \in Worker, Writing(v)'
                 PROVE  /\ meetings'[IdOf[file[v]]] = HashOf[file[v]]
                        /\ MemoriesOf(IdOf[file[v]]) = {}
                        /\ pc'[v] = "insert memories" => to_store[v] = Kept(Extracted[file[v]], {})
      BY <1>a, <2>3 DEF WriterPrepared, At
    <3>1. CASE v = w
      BY <3>1, <2>1, <2>2, <2>4 DEF ImportTypeOK
    <3>2. CASE v # w
      BY <3>2, <2>1, <2>2, <2>6, <2>7 DEF Undisturbed, WriterPrepared, At, ImportTypeOK
    <3> QED
      BY <3>1, <3>2
  <2>9. \A u, v \in Worker : Writing(u)' /\ Writing(v)' /\ IdOf[file'[u]] = IdOf[file'[v]] => u = v
    BY <1>2, <1>a, <2>6, <2>7 DEF Undisturbed
  <2>10. \A y \in Registered' : MemoriesOf(y)' = {} \/ Complete(y)'
    BY <2>2, <2>3, <2>4, <2>5 DEF Undisturbed
  <2>11. Abandoned' \subseteq Abandoned
    BY <1>a, <2>2, <2>5, <2>6 DEF Abandoned
  <2>12. Loss'
    BY <1>a, <2>11, FS_Subset, FS_CardinalityType DEF Undisturbed, Loss, ImportTypeOK
  <2> QED
    BY <1>a, <2>1, <2>8, <2>9, <2>10, <2>12 DEF Undisturbed, ImportTypeOK
<1> QED
  BY <1>1, <1>2 DEF InsertMeeting, SaveMeeting, Answer

\* The batch of a writer meets no taken id, because an id belongs to one meeting
\* and that meeting is still empty; what it leaves is the whole transcript.
LEMMA InsertStep ==
  ASSUME ImportTypeOK, BatchFromFile, OwnersFixed, Undisturbed, NEW w \in Worker, InsertAll(w)
  PROVE  Undisturbed'
<1> SUFFICES ASSUME NEW f, NEW x, NEW R, f = file[w], x = IdOf[f], R = to_store[w]
             PROVE  Undisturbed'
  OBVIOUS
<1>1. /\ f \in File /\ x \in MeetingId /\ HashOf[f] \in Hash
      /\ R \in SUBSET StoredMemory /\ IsFiniteSet(R)
      /\ \A r \in R : r.row.meeting_id = x /\ r.row.superseded_by = NULL
      /\ \A r, s \in R : r.memory_id = s.memory_id => r = s
  BY BatchTypes
<1>2. /\ Writing(w) /\ meetings[x] = HashOf[f] /\ MemoriesOf(x) = {}
      /\ R = Kept(Extracted[f], {}) /\ R \subseteq ToSet(Extracted[f])
  BY DEF InsertAll, At, Writing, Undisturbed, WriterPrepared, BatchFromFile
<1>3. x \in Registered
  BY <1>1, <1>2, NullAssumption DEF Registered
<1>4. ASSUME NEW r \in R
      PROVE  r.memory_id \notin Stored
  <2>1. Owns(x, r.memory_id)
    BY <1>1, <1>2 DEF Owns
  <2>2. r.memory_id \in Stored => memories[r.memory_id].meeting_id = x
    BY <2>1, OneOwner DEF OwnersFixed
  <2> QED
    BY <1>2, <2>2 DEF MemoriesOf
<1>5. Insertable(SetToSeq(R))
  BY <1>1, <1>3, <1>4, SequenceOfSet, SetInsertable
<1>6. /\ \A r \in R : memories'[r.memory_id] = r.row
      /\ \A m \in Stored : memories'[m] = memories[m]
      /\ Stored' = Stored \cup IdsOf(R)
      /\ meetings' = meetings /\ Registered' = Registered
      /\ Goto(w, "imported")
  BY <1>5, InsertedAll
<1>7. file' = file /\ to_store' = to_store /\ crashes' = crashes /\ pc' = [pc EXCEPT ![w] = "imported"]
  BY <1>6 DEF InsertAll, Goto
<1>8. \A v \in Worker : Writing(v)' <=> Writing(v) /\ v # w
  BY <1>7 DEF Writing, ImportTypeOK
<1>9. MemoriesOf(x)' = IdsOf(R)
  BY <1>1, <1>2, <1>6 DEF MemoriesOf, IdsOf
<1>10. ASSUME NEW y, y # x
       PROVE  MemoriesOf(y)' = MemoriesOf(y)
  BY <1>1, <1>6, <1>10 DEF MemoriesOf, IdsOf
<1>11. ASSUME NEW y, y # x
       PROVE  Complete(y)' <=> Complete(y)
  <2>1. meetings'[y] = meetings[y] /\ \A m \in MemoriesOf(y) : memories'[m] = memories[m]
    BY <1>6 DEF MemoriesOf
  <2> QED
    BY <1>10, <1>11, <2>1, SameMeeting
<1>12. Complete(x)'
  <2> DEFINE said == {<<r.memory_id, r.row.content>> : r \in ToSet(Extracted[f])}
  <2>1. Holds(x)' = ChildrenOf(R)
    <3>1. Holds(x)' = {<<m, memories'[m].content>> : m \in IdsOf(R)}
      BY <1>9 DEF Holds
    <3> QED
      BY <1>6, <3>1 DEF IdsOf, ChildrenOf
  <2>2. /\ \A r, t \in R : r.row.content = t.row.content => r = t
        /\ \A r \in ToSet(Extracted[f]) : \E t \in R : t.row.content = r.row.content
    <3>1. Extracted[f] \in Seq(StoredMemory)
      BY <1>1, FileTypes
    <3> QED
      BY <1>2, <3>1, KeptWhole
  <2>3. ChildrenOf(R) \subseteq said
    BY <1>2 DEF ChildrenOf
  <2>4. ASSUME NEW r \in ToSet(Extracted[f])
        PROVE  \E h \in ChildrenOf(R) : h[2] = r.row.content
    <3>1. PICK t \in R : t.row.content = r.row.content
      BY <2>2
    <3>2. <<t.memory_id, t.row.content>> \in ChildrenOf(R)
      BY DEF ChildrenOf
    <3> QED
      BY <3>1, <3>2
  <2>5. \A g, h \in ChildrenOf(R) : g[2] = h[2] => g = h
    BY <2>2 DEF ChildrenOf
  <2>6. IdOf[f] = x /\ HashOf[f] = meetings'[x]
    BY <1>2, <1>6
  <2> QED
    BY <1>1, <2>1, <2>3, <2>4, <2>5, <2>6 DEF Complete
<1>13. WriterPrepared'
  <2> SUFFICES ASSUME NEW v \in Worker, Writing(v)'
               PROVE  /\ meetings'[IdOf[file[v]]] = HashOf[file[v]]
                      /\ MemoriesOf(IdOf[file[v]])' = {}
                      /\ pc'[v] = "insert memories" => to_store[v] = Kept(Extracted[file[v]], {})
    BY <1>7 DEF WriterPrepared, At
  <2>1. Writing(v) /\ v # w
    BY <1>8
  <2>2. IdOf[file[v]] # x
    BY <1>2, <2>1 DEF Undisturbed
  <2>3. pc'[v] = pc[v]
    BY <1>7, <2>1 DEF ImportTypeOK
  <2> QED
    BY <1>6, <1>7, <1>10, <2>1, <2>2, <2>3 DEF Undisturbed, WriterPrepared, At
<1>14. \A v, u \in Worker : Writing(v)' /\ Writing(u)' /\ IdOf[file'[v]] = IdOf[file'[u]] => v = u
  BY <1>7, <1>8 DEF Undisturbed
<1>15. ASSUME NEW y \in Registered'
       PROVE  MemoriesOf(y)' = {} \/ Complete(y)'
  BY <1>6, <1>10, <1>11, <1>12 DEF Undisturbed
<1>16. Abandoned' \subseteq Abandoned
  BY <1>6, <1>7, <1>8, <1>11, <1>12 DEF Abandoned
<1>17. Loss'
  BY <1>7, <1>16, FewerAbandoned DEF Undisturbed, ImportTypeOK
<1>18. \A v \in Worker : pc'[v] # "StorageError"
  BY <1>7 DEF Undisturbed, ImportTypeOK
<1> QED
  BY <1>13, <1>14, <1>15, <1>17, <1>18 DEF Undisturbed

\* A writer that dies abandons its own meeting, no other.
LEMMA CrashStep ==
  ASSUME ImportTypeOK, Undisturbed, NEW w \in Worker, Crash(w)
  PROVE  Undisturbed'
<1>1. /\ UNCHANGED tables /\ file' = file /\ to_store' = to_store
      /\ Goto(w, "crashed") /\ crashes' = crashes + 1
  BY DEF Crash, vars, tables
<1>2. CASE ~Writing(w)
  <2>1. "crashed" \in (Ended \cup Busy) \ {"read existing", "insert memories", "StorageError"}
    BY DEF Ended
  <2> QED
    BY <1>1, <1>2, <2>1, QuietStep
<1>3. CASE Writing(w)
  <2>1. pc' = [pc EXCEPT ![w] = "crashed"] /\ pc \in [Worker -> Ended \cup Busy]
    BY <1>1 DEF Goto, ImportTypeOK
  <2>2. \A v \in Worker : Writing(v)' <=> Writing(v) /\ v # w
    BY <2>1 DEF Writing
  <2>3. /\ Registered' = Registered /\ meetings' = meetings
        /\ \A y : MemoriesOf(y)' = MemoriesOf(y) /\ (Complete(y)' <=> Complete(y))
    BY <1>1, TablesUnchanged, SameMeeting
  <2>4. WriterPrepared'
    BY <1>1, <2>1, <2>2, <2>3 DEF Undisturbed, WriterPrepared, At
  <2>5. Abandoned' \subseteq Abandoned \cup {IdOf[file[w]]}
    BY <1>1, <2>2, <2>3 DEF Abandoned
  <2>6. Loss'
    <3>1. crashes \in Nat
      BY DEF ImportTypeOK
    <3>2. /\ IsFiniteSet(Abandoned \cup {IdOf[file[w]]})
          /\ Cardinality(Abandoned \cup {IdOf[file[w]]}) <= Cardinality(Abandoned) + 1
          /\ Cardinality(Abandoned) \in Nat
      <4>1. IsFiniteSet(Abandoned)
        BY DEF Undisturbed, Loss
      <4>2. Cardinality(Abandoned) \in Nat
        BY <4>1, FS_CardinalityType
      <4> QED
        BY <4>1, <4>2, OneMoreAtMost
    <3>3. /\ IsFiniteSet(Abandoned')
          /\ Cardinality(Abandoned') <= Cardinality(Abandoned \cup {IdOf[file[w]]})
          /\ Cardinality(Abandoned') \in Nat
          /\ Cardinality(Abandoned \cup {IdOf[file[w]]}) \in Nat
      BY <2>5, <3>2, FS_Subset, FS_CardinalityType
    <3>4. Cardinality(Abandoned) <= crashes
      BY DEF Undisturbed, Loss
    <3> HIDE DEF Loss
    <3>5. Cardinality(Abandoned') <= crashes'
      BY <1>1, <3>1, <3>2, <3>3, <3>4
    <3> QED
      BY <3>3, <3>5 DEF Loss
  <2>7. \A v \in Worker : pc'[v] # "StorageError"
    BY <2>1 DEF Undisturbed
  <2> QED
    BY <1>1, <2>2, <2>3, <2>4, <2>6, <2>7 DEF Undisturbed
<1> QED
  BY <1>2, <1>3

\* As long as nobody deletes, every statement of an importer keeps the writers
\* apart and the meetings whole.
LEMMA UndisturbedStep ==
  ASSUME ImportInv, ~deleted', [ImportNext]_importVars
  PROVE  Undisturbed'
<1> DEFINE quiet == (Ended \cup Busy) \ {"read existing", "insert memories", "StorageError"}
<1>0. ImportTypeOK /\ BatchFromFile /\ OwnersFixed /\ ReferentialIntegrity
  BY DEF ImportInv
<1>1. CASE deleted' = TRUE
  BY <1>1
<1>2. ASSUME deleted' = deleted
      PROVE  Undisturbed
  BY <1>2 DEF ImportInv
<1>3. ASSUME NEW w \in Worker, NEW g \in File, Begin(w, g)
      PROVE  Undisturbed'
  <2>1. /\ Goto(w, "find hash") /\ "find hash" \in quiet
        /\ UNCHANGED tables /\ deleted' = deleted /\ crashes' = crashes
    BY <1>3 DEF Begin, Busy, vars, tables, deletion
  <2>2. ~Writing(w)
    BY <1>3 DEF Begin, Writing, Ended
  <2>3. \A v \in Worker \ {w} : file'[v] = file[v] /\ to_store'[v] = to_store[v]
    BY <1>0, <1>3 DEF Begin, ImportTypeOK
  <2> QED
    BY <1>0, <1>2, <2>1, <2>2, <2>3, QuietStep
<1>4. ASSUME NEW w \in Worker, FindHash(w) \/ CheckId(w) \/ CheckHash(w) \/ HandleDuplicate(w)
      PROVE  Undisturbed'
  <2>1. \E next \in quiet : Goto(w, next)
    BY <1>4 DEF FindHash, CheckId, CheckHash, HandleDuplicate, Busy, Ended
  <2>2. ~Writing(w)
    BY <1>4 DEF FindHash, CheckId, CheckHash, HandleDuplicate, At, Writing
  <2>3. ReadOnly
    BY <1>4 DEF FindHash, CheckId, CheckHash, HandleDuplicate
  <2>4. UNCHANGED tables /\ UNCHANGED <<file, to_store, crashes, deleted>>
    BY <2>3 DEF ReadOnly, vars, tables, deletion
  <2> QED
    BY <1>0, <1>2, <2>1, <2>2, <2>4, QuietStep
<1>5. ASSUME NEW w \in Worker, InsertMeeting(w)
      PROVE  Undisturbed'
  BY <1>0, <1>2, <1>5, RegisterStep DEF InsertMeeting, deletion
<1>6. ASSUME NEW w \in Worker, FilterDuplicates(w)
      PROVE  Undisturbed'
  BY <1>0, <1>2, <1>6, FilterStep DEF FilterDuplicates, deletion
<1>7. ASSUME NEW w \in Worker, InsertAll(w)
      PROVE  Undisturbed'
  BY <1>0, <1>2, <1>7, InsertStep DEF InsertAll, deletion
<1>8. ASSUME NEW w \in Worker, Crash(w)
      PROVE  Undisturbed'
  BY <1>0, <1>2, <1>8, CrashStep DEF Crash, deletion
<1>9. ASSUME UNCHANGED tables, UNCHANGED <<import, crashes, deleted>>
      PROVE  Undisturbed'
  <2>1. UNCHANGED <<pc, file, to_store, crashes>>
    BY <1>9 DEF import
  <2>2. \A v \in Worker : Writing(v)' <=> Writing(v)
    BY <2>1 DEF Writing
  <2>3. Undisturbed /\ \A v \in Worker : pc'[v] # "StorageError"
    BY <1>2, <1>9, <2>1 DEF Undisturbed
  <2>4. crashes \in Nat
    BY <1>0 DEF ImportTypeOK
  <2> QED
    BY <1>9, <2>1, <2>2, <2>3, <2>4, SameWriters
<1>10. ASSUME NEW d \in Deleter, NEW x \in MeetingId, SelectMemories(d, x)
       PROVE  Undisturbed'
  BY <1>9, <1>10 DEF SelectMemories, vars, tables
<1>11. ASSUME NEW d \in Deleter, DeleteTransaction(d)
       PROVE  Undisturbed'
  BY <1>11 DEF DeleteTransaction
<1>12. CASE UNCHANGED importVars
  BY <1>9, <1>12 DEF importVars, vars, tables, deletion
<1> QED
  BY <1>3, <1>4, <1>5, <1>6, <1>7, <1>8, <1>10, <1>11, <1>12 DEF ImportNext, Step

------------------------------------------------------------------------------
LEMMA ImportInitInv ==
  ASSUME ImportInit
  PROVE  ImportInv
<1>1. TypeOK /\ ReferentialIntegrity /\ Stored = {} /\ Registered = {} /\ evidence = {}
  BY DEF ImportInit, Init, TypeOK, ReferentialIntegrity, Stored, Registered, Reply
<1>2. ImportTypeOK /\ BatchFromFile /\ OwnersFixed
  BY <1>1 DEF ImportInit, ImportTypeOK, BatchFromFile, OwnersFixed, Ended
<1>3. EvidenceExact
  BY <1>1 DEF EvidenceExact
<1>4. Abandoned = {}
  BY <1>1 DEF Abandoned
<1>5. Loss
  BY <1>4, FS_EmptySet DEF Loss, ImportInit
<1>6. \A w \in Worker : pc[w] = "idle" /\ ~Writing(w)
  BY DEF ImportInit, Writing
<1> QED
  BY <1>1, <1>2, <1>3, <1>5, <1>6 DEF ImportInv, Undisturbed, WriterPrepared

LEMMA ImportNextInv ==
  ASSUME ImportInv, [ImportNext]_importVars
  PROVE  ImportInv'
BY TypeStep, IntegrityStep, OwnersStep, UndisturbedStep DEF ImportInv

LEMMA ImportInvariant == ImportSpec => []ImportInv
BY ImportInitInv, ImportNextInv, PTL DEF ImportSpec

\* Whatever importers, crashes and deletions do, every variable stays within its
\* type, and what a worker is about to store was extracted from its own file.
THEOREM ImportTypeCorrect == ImportSpec => [](ImportTypeOK /\ BatchFromFile)
<1>1. ImportInv => ImportTypeOK /\ BatchFromFile
  BY DEF ImportInv
<1> QED
  BY <1>1, ImportInvariant, PTL

\* save_many, import_meeting and delete_meeting running against each other leave
\* exactly one evidence row per stored memory.
THEOREM EvidenceHolds == ImportSpec => []EvidenceExact
<1>1. ImportInv => EvidenceExact
  BY DEF ImportInv
<1> QED
  BY <1>1, ImportInvariant, PTL

\* import_meeting's checks race, its INSERT does not: at most one worker writes
\* the memories of a meeting that nobody deleted.
THEOREM WritersExclude == ImportSpec => []ExclusiveWriter
<1>1. ImportInv => ExclusiveWriter
  BY DEF ImportInv, Undisturbed, ExclusiveWriter
<1> QED
  BY <1>1, ImportInvariant, PTL

\* A registered meeting holds nothing or its whole transcript, each point once:
\* persist_extraction's two transactions never leave a part or a mixture.
THEOREM MemoriesMatch == ImportSpec => []MemoriesMatchTranscript
<1>1. ImportInv => MemoriesMatchTranscript
  BY DEF ImportInv, Undisturbed, MemoriesMatchTranscript
<1> QED
  BY <1>1, ImportInvariant, PTL

\* save_many of an import fails only where a deletion interfered.
THEOREM NoImportFails == ImportSpec => []NoStorageError
<1>1. ImportInv => NoStorageError
  BY DEF ImportInv, Undisturbed, NoStorageError
<1> QED
  BY <1>1, ImportInvariant, PTL

\* The meetings left without their memories are no more than the crashes that
\* fell between import_meeting's two transactions.
THEOREM LossBounded == ImportSpec => []LossOnlyByCrash
<1>1. ImportInv => LossOnlyByCrash
  BY DEF ImportInv, Undisturbed, Loss, LossOnlyByCrash
<1> QED
  BY <1>1, ImportInvariant, PTL
================================================================================
