------------------------ MODULE SnapshotTransferProofs ------------------------
(***************************************************************************)
(* What a snapshot brings from one store to another, for any stores,       *)
(* writers, damage and restarts.  The target is a second memory store, so  *)
(* what is proved of the store is used for it too, by INSTANCE.  And what  *)
(* a restore leaves of the live database, for any clients and backups.     *)
(***************************************************************************)
EXTENDS SnapshotTransfer, BackupRestore, MemoryStoreProofs

TargetProofs ==
  INSTANCE MemoryStoreProofs WITH
    meetings <- t_meetings, memories <- t_memories, evidence <- t_evidence,
    metadata <- t_metadata, reply <- t_reply

\* The store's inductive invariant, said of the target.
TargetInv ==
  /\ Target!TypeOK
  /\ Target!ReferentialIntegrity
  /\ Target!ChildrenExact
  /\ Target!TranscriptUnique
  /\ Target!PointerOnlyWhenSuperseded

LEMMA TargetAssumptions ==
  /\ Batch \subseteq Seq(TargetProofs!StoredMemory)
  /\ \A batch \in Batch : \A i \in DOMAIN batch : TargetProofs!Coupled(batch[i].row)
  /\ NULL \notin MemoryId
  /\ NULL \notin Hash
  /\ NULL \notin TargetProofs!MemoryRow
  /\ NULL \notin [row : TargetProofs!MemoryRow, evidence : SUBSET Content,
                  metadata : SUBSET Content]
BY BatchAssumption, NullAssumption
   DEF StoredMemory, Coupled, MemoryRow, MemoryStatus,
       TargetProofs!StoredMemory, TargetProofs!Coupled, TargetProofs!MemoryRow,
       TargetProofs!MemoryStatus

LEMMA TargetWords ==
  /\ TargetProofs!StoredMemory = StoredMemory /\ TargetProofs!MemoryRow = MemoryRow
  /\ Target!MemoryRow = MemoryRow /\ Target!Reply = TargetProofs!Reply
  /\ \A row : TargetProofs!Coupled(row) <=> Coupled(row)
  /\ \A row : Target!Coupled(row) <=> Coupled(row)
  /\ Target!Stored = TargetProofs!Stored /\ Target!Registered = TargetProofs!Registered
  /\ \A batch : Target!Insertable(batch) <=> TargetProofs!Insertable(batch)
  /\ \A batch : Target!InsertMemories(batch) <=> TargetProofs!InsertMemories(batch)
BY DEF StoredMemory, Coupled, MemoryRow, MemoryStatus,
       TargetProofs!StoredMemory, TargetProofs!Coupled, TargetProofs!MemoryRow,
       TargetProofs!MemoryStatus, Target!StoredMemory, Target!Coupled, Target!MemoryRow,
       Target!MemoryStatus, Target!Reply, TargetProofs!Reply,
       Target!Stored, TargetProofs!Stored, Target!Registered, TargetProofs!Registered,
       Target!Insertable, TargetProofs!Insertable,
       Target!InsertMemories, TargetProofs!InsertMemories

LEMMA TargetInvSame == TargetInv <=> TargetProofs!IInv
BY TargetWords
   DEF TargetInv, TargetProofs!IInv, Target!TypeOK, TargetProofs!TypeOK,
       Target!ReferentialIntegrity, TargetProofs!ReferentialIntegrity,
       Target!ChildrenExact, TargetProofs!ChildrenExact,
       Target!TranscriptUnique, TargetProofs!TranscriptUnique,
       Target!PointerOnlyWhenSuperseded, TargetProofs!PointerOnlyWhenSuperseded

LEMMA TargetInvNext == TargetInv' <=> TargetProofs!IInv'
<1>1. Target!Stored' = TargetProofs!Stored' /\ Target!Registered' = TargetProofs!Registered'
  BY DEF Target!Stored, TargetProofs!Stored, Target!Registered, TargetProofs!Registered
<1> QED
  BY <1>1, TargetWords
     DEF TargetInv, TargetProofs!IInv, Target!TypeOK, TargetProofs!TypeOK,
       Target!ReferentialIntegrity, TargetProofs!ReferentialIntegrity,
       Target!ChildrenExact, TargetProofs!ChildrenExact,
       Target!TranscriptUnique, TargetProofs!TranscriptUnique,
       Target!PointerOnlyWhenSuperseded, TargetProofs!PointerOnlyWhenSuperseded

LEMMA TargetRegister ==
  ASSUME TargetInv, NEW x \in MeetingId, NEW hash \in Hash, Target!SaveMeeting(x, hash)
  PROVE  TargetInv'
<1>1. TargetProofs!SaveMeeting(x, hash)
  BY DEF TargetProofs!SaveMeeting, Target!SaveMeeting, TargetProofs!Answer, Target!Answer,
     TargetProofs!Registered, Target!Registered, TargetProofs!tables, Target!tables
<1> QED
  BY <1>1, TargetInvSame, TargetInvNext, TargetAssumptions, TargetProofs!SaveMeetingInv

LEMMA TargetInsert ==
  ASSUME TargetInv, NEW batch \in Seq(StoredMemory), Target!SaveMany(batch),
         \A i \in DOMAIN batch : Coupled(batch[i].row)
  PROVE  TargetInv'
<1>1. TargetProofs!SaveMany(batch)
  BY TargetWords DEF TargetProofs!SaveMany, Target!SaveMany, TargetProofs!Answer, Target!Answer,
     TargetProofs!tables, Target!tables
<1> QED
  BY <1>1, TargetWords, TargetInvSame, TargetInvNext, TargetAssumptions, TargetProofs!InsertInv

LEMMA TargetUpdate ==
  ASSUME TargetInv, NEW memory \in StoredMemory, Target!Update(memory), Coupled(memory.row)
  PROVE  TargetInv'
<1>1. TargetProofs!Update(memory)
  BY TargetWords DEF TargetProofs!Update, Target!Update, TargetProofs!Answer, Target!Answer,
     TargetProofs!tables, Target!tables, TargetProofs!OwnedBy, Target!OwnedBy
<1> QED
  BY <1>1, TargetWords, TargetInvSame, TargetInvNext, TargetAssumptions, TargetProofs!UpdateInv

\* A set of records for a store that has none of them: what is left.
LEMMA TargetSet ==
  ASSUME NEW R \in SUBSET StoredMemory, NEW batch, Lists(batch, R),
         Target!Insertable(batch), Target!InsertMemories(batch)
  PROVE  /\ IdsOf(R) \subseteq MemoryId \ Target!Stored
         /\ \A r \in R : t_memories'[r.memory_id] = r.row
         /\ \A m \in Target!Stored : t_memories'[m] = t_memories[m]
         /\ Target!Stored' = Target!Stored \cup IdsOf(R)
<1>1. TargetProofs!IdsOf(R) = IdsOf(R) /\ TargetProofs!Lists(batch, R)
  BY DEF IdsOf, TargetProofs!IdsOf, Lists, TargetProofs!Lists
<1>2. TargetProofs!Stored' = Target!Stored'
  BY DEF TargetProofs!Stored, Target!Stored
<1>3. TargetProofs!Insertable(batch) /\ TargetProofs!InsertMemories(batch) /\ R \in SUBSET TargetProofs!StoredMemory
  BY TargetWords
<1> QED
  BY <1>1, <1>2, <1>3, TargetWords, TargetAssumptions, TargetProofs!InsertedSet

LEMMA TargetInsertable ==
  ASSUME NEW R \in SUBSET StoredMemory, NEW batch, Lists(batch, R),
         \A r, s \in R : r.memory_id = s.memory_id => r = s,
         \A r \in R : /\ r.memory_id \notin Target!Stored
                       /\ r.row.meeting_id \in Target!Registered
                       /\ r.row.superseded_by = NULL
  PROVE  Target!Insertable(batch)
<1>1. TargetProofs!Lists(batch, R) /\ R \in SUBSET TargetProofs!StoredMemory
  BY TargetWords DEF Lists, TargetProofs!Lists
<1> QED
  BY <1>1, TargetWords, TargetAssumptions, TargetProofs!SetInsertable

------------------------------------------------------------------------------
(* What the file records: the checksum stands for it even when the file is damaged. *)
SavedMeetings == snapshot.checksum[1]
SavedRows == snapshot.checksum[2]
SavedMemories == {m \in MemoryId : SavedRows[m] # NULL}
MeetingTable == [MeetingId -> Hash \cup {NULL}]
MemoryTable == [MemoryId -> MemoryRow \cup {NULL}]
FileTable == [MemoryId -> FileRow \cup {NULL}]
NoPointer(row) == [row EXCEPT !.superseded_by = NULL]

TargetEmpty == (\A x \in MeetingId : t_meetings[x] = NULL) /\ (\A m \in MemoryId : t_memories[m] = NULL)

SourceInv == IInv /\ IsFiniteSet(Stored)

Shape ==
  /\ pc \in {"idle", "list memories", "file", "meetings", "pointers",
             "done", "failed", "refused"}
  /\ snapshot \in [meetings : MeetingTable, memories : FileTable,
                   checksum : {NULL} \cup (MeetingTable \X MemoryTable)]
  /\ todo \subseteq MeetingId \cup MemoryId
  /\ raced \in BOOLEAN /\ crashed \in BOOLEAN /\ forced \in BOOLEAN

Unique(table) == \A x, y \in MeetingId : table[x] # NULL /\ table[x] = table[y] => x = y

\* The export has the meetings and reads the memories next.
Reading ==
  /\ pc \in {"idle", "list memories"} => TargetEmpty /\ ~crashed /\ ~forced
  /\ pc = "idle" => ~raced /\ snapshot.checksum = NULL
  /\ pc = "list memories" => /\ snapshot.checksum = NULL
                             /\ Unique(snapshot.meetings)
                             /\ ~raced => snapshot.meetings = meetings

\* What was exported is a store's state, up to memories whose meeting was
\* registered between the two reads.
Exported ==
  /\ snapshot.checksum \in MeetingTable \X MemoryTable
  /\ Unique(SavedMeetings)
  /\ IsFiniteSet(SavedMemories)
  /\ \A m \in SavedMemories :
       /\ Coupled(SavedRows[m])
       /\ SavedRows[m].superseded_by \in SavedMemories \cup {NULL}
       /\ ~raced => SavedMeetings[SavedRows[m].meeting_id] # NULL

\* Damage leaves no record in the file that was not exported, and none whose
\* pointer and status disagree.
Damaged ==
  /\ snapshot.meetings = SavedMeetings
  /\ Listed \subseteq SavedMemories
  /\ \A m \in Listed : snapshot.memories[m] \in MemoryRow => Coupled(snapshot.memories[m])

\* Whatever is in the target was exported.
Explained ==
  /\ \A x \in MeetingId : t_meetings[x] \in {NULL, SavedMeetings[x]}
  /\ ~forced =>
       \A m \in MemoryId :
         t_memories[m] # NULL =>
           SavedRows[m] # NULL /\ t_memories[m] \in {SavedRows[m], NoPointer(SavedRows[m])}

\* How far the import has come, and what the target holds by then: of an earlier
\* attempt at most memories of meetings that are still to be registered, so that
\* this one fails before it gets to them.
Progress ==
  /\ pc = "file" => crashed \/ TargetEmpty
  /\ pc \in {"meetings", "pointers", "done"} =>
       snapshot.memories \in MemoryTable /\ (forced \/ snapshot.memories = SavedRows)
  /\ pc = "meetings" =>
       /\ todo \subseteq MeetingId
       /\ \A x \in todo : SavedMeetings[x] # NULL
       /\ \A x \in MeetingId \ todo : t_meetings[x] = SavedMeetings[x]
       /\ crashed \/ \A x \in todo : t_meetings[x] = NULL
       /\ \A m \in MemoryId : t_memories[m] # NULL => t_memories[m].meeting_id \in todo
  /\ pc \in {"pointers", "done"} => t_meetings = SavedMeetings
  /\ pc = "pointers" =>
       /\ todo \subseteq Listed
       /\ \A m \in MemoryId :
            t_memories[m] = IF m \in todo THEN NoPointer(snapshot.memories[m]) ELSE snapshot.memories[m]
  /\ pc = "done" => t_memories = snapshot.memories
  /\ pc = "failed" => raced \/ crashed \/ forced

\* The inductive invariant.
TransferInv ==
  /\ SourceInv /\ TargetInv
  /\ Shape /\ Reading
  /\ pc \notin {"idle", "list memories"} => Exported /\ Damaged /\ Explained
  /\ Progress

------------------------------------------------------------------------------
(* The source. *)

LEMMA FiniteBatch ==
  ASSUME NEW batch \in Seq(StoredMemory)
  PROVE  IsFiniteSet(Ids(batch))
<1> DEFINE ids == [i \in DOMAIN batch |-> batch[i].memory_id]
<1>1. ids \in Seq(MemoryId)
  <2>1. Len(batch) \in Nat /\ DOMAIN batch = 1 .. Len(batch)
    OBVIOUS
  <2>2. \A i \in DOMAIN batch : batch[i].memory_id \in MemoryId
    <3>1. \A i \in DOMAIN batch : batch[i] \in StoredMemory
      OBVIOUS
    <3> QED
      BY <3>1 DEF StoredMemory
  <2>3. ids \in [1 .. Len(batch) -> MemoryId]
    BY <2>1, <2>2
  <2> HIDE DEF ids
  <2> QED
    BY <2>1, <2>3
<1>2. ToSet(ids) = Ids(batch)
  BY DEF ToSet, Ids
<1> QED
  BY <1>1, <1>2, ElementsFinite

LEMMA FiniteSave ==
  ASSUME SourceInv, NEW batch \in Seq(StoredMemory), SaveMany(batch)
  PROVE  IsFiniteSet(Stored')
<1>1. CASE Insertable(batch)
  <2>1. Stored' = Stored \cup Ids(batch)
    BY <1>1, InsertedRows DEF SaveMany
  <2> QED
    BY <2>1, FiniteBatch, FS_Union DEF SourceInv
<1>2. CASE ~Insertable(batch)
  BY <1>2 DEF SaveMany, Answer, tables, Stored, SourceInv
<1> QED
  BY <1>1, <1>2

\* A store that is filled by calls holds finitely many memories at any time.
LEMMA FiniteStep ==
  ASSUME SourceInv, Next
  PROVE  IsFiniteSet(Stored')
<1> USE DEF SourceInv
<1>1. ASSUME Stored' \subseteq Stored
      PROVE  IsFiniteSet(Stored')
  BY <1>1, FS_Subset
<1>2. ASSUME NEW batch \in Batch, SaveMany(batch)
      PROVE  IsFiniteSet(Stored')
  BY <1>2, BatchType, FiniteSave
<1>3. ASSUME NEW memory \in Records, Save(memory)
      PROVE  IsFiniteSet(Stored')
  BY <1>3, BatchType, FiniteSave DEF Save
<1>4. ASSUME UNCHANGED tables
      PROVE  IsFiniteSet(Stored')
  BY <1>4 DEF tables, Stored
<1>5. ASSUME NEW memory \in Records, Update(memory)
      PROVE  IsFiniteSet(Stored')
  <2>1. CASE UNCHANGED tables
    BY <1>4, <2>1
  <2>2. CASE memory.memory_id \in Stored /\ memories' = [memories EXCEPT ![memory.memory_id] = memory.row]
    <3>1. Stored' \subseteq Stored
      BY <2>2 DEF Stored, IInv, TypeOK
    <3> QED
      BY <1>1, <3>1
  <2> QED
    BY <1>5, <2>1, <2>2 DEF Update, Answer
<1>6. ASSUME NEW gone \in SUBSET MemoryId, memories' = Without(gone)
      PROVE  IsFiniteSet(Stored')
  BY <1>1, <1>6, WithoutRows DEF IInv
<1>7. ASSUME NEW id \in MemoryId, NEW status, NEW by, SetStatus(id, status, by)
      PROVE  IsFiniteSet(Stored')
  <2>1. CASE UNCHANGED tables
    BY <1>4, <2>1
  <2>2. CASE id \in Stored /\ memories' = [memories EXCEPT ![id].status = status,
                                                          ![id].superseded_by = by]
    <3>1. Stored' \subseteq Stored
      BY <2>2 DEF Stored, IInv, TypeOK
    <3> QED
      BY <1>1, <3>1
  <2> QED
    BY <1>7, <2>1, <2>2 DEF SetStatus, Answer
<1>8. ASSUME NEW id \in MemoryId, Delete(id) \/ Lifecycle(id)
      PROVE  IsFiniteSet(Stored')
  BY <1>6, <1>7, <1>8 DEF Delete, Lifecycle, Archive, Resolve, MarkDeleted, Restore, Supersede
<1>9. ASSUME NEW x \in MeetingId, NEW hash \in Hash, SaveMeeting(x, hash)
      PROVE  IsFiniteSet(Stored')
  BY <1>9 DEF SaveMeeting, Answer, tables, Stored
<1>10. ASSUME NEW x \in MeetingId, DeleteMeeting(x)
       PROVE  IsFiniteSet(Stored')
  BY <1>6, <1>10 DEF DeleteMeeting, MemoriesOf, Stored
<1> QED
  BY <1>2, <1>3, <1>5, <1>8, <1>9, <1>10 DEF Next

LEMMA SourceKept ==
  ASSUME SourceInv, Next \/ UNCHANGED vars
  PROVE  SourceInv'
<1>1. IInv'
  BY NextInv DEF SourceInv
<1>2. CASE Next
  BY <1>1, <1>2, FiniteStep DEF SourceInv
<1>3. CASE UNCHANGED vars
  BY <1>1, <1>3 DEF SourceInv, vars, Stored
<1> QED
  BY <1>2, <1>3

LEMMA TargetKept ==
  ASSUME TargetInv, UNCHANGED target
  PROVE  TargetInv'
BY DEF target, TargetInv, Target!TypeOK, Target!ReferentialIntegrity, Target!ChildrenExact,
   Target!TranscriptUnique, Target!PointerOnlyWhenSuperseded, Target!Stored, Target!Registered

LEMMA PairParts ==
  ASSUME NEW a, NEW b, NEW c, c = <<a, b>>
  PROVE  c[1] = a /\ c[2] = b
OBVIOUS

LEMMA SameMeetings ==
  ASSUME NEW f \in MeetingTable, NEW g \in MeetingTable, \A x \in MeetingId : f[x] = g[x]
  PROVE  f = g
BY DEF MeetingTable

LEMMA SameMemories ==
  ASSUME NEW f \in MemoryTable, NEW g \in MemoryTable, \A m \in MemoryId : f[m] = g[m]
  PROVE  f = g
BY DEF MemoryTable

LEMMA Tables ==
  ASSUME Shape, TargetInv
  PROVE  /\ snapshot.meetings \in MeetingTable /\ snapshot.memories \in FileTable
         /\ t_meetings \in MeetingTable /\ t_memories \in MemoryTable
<1>1. snapshot.meetings \in MeetingTable /\ snapshot.memories \in FileTable
  BY DEF Shape
<1>2. t_meetings \in MeetingTable /\ t_memories \in MemoryTable
  BY TargetWords DEF TargetInv, Target!TypeOK, MeetingTable, MemoryTable
<1> QED
  BY <1>1, <1>2

\* The record of the export outlives any damage to the file.
LEMMA ExportKept ==
  ASSUME Exported, snapshot'.checksum = snapshot.checksum, raced' = raced
  PROVE  /\ Exported'
         /\ SavedMeetings' = SavedMeetings /\ SavedRows' = SavedRows
         /\ SavedMemories' = SavedMemories
<1>1. SavedMeetings' = SavedMeetings /\ SavedRows' = SavedRows
  BY DEF SavedMeetings, SavedRows
<1>2. SavedMemories' = SavedMemories
  BY <1>1 DEF SavedMemories
<1> QED
  BY <1>1, <1>2 DEF Exported

\* A step that does not touch the file.
LEMMA FileKept ==
  ASSUME Exported, Damaged, snapshot' = snapshot, raced' = raced
  PROVE  /\ Exported' /\ Damaged' /\ Listed' = Listed
         /\ SavedMeetings' = SavedMeetings /\ SavedRows' = SavedRows
         /\ SavedMemories' = SavedMemories
<1>1. /\ Exported' /\ SavedMeetings' = SavedMeetings /\ SavedRows' = SavedRows
      /\ SavedMemories' = SavedMemories
  BY ExportKept
<1>2. Listed' = Listed
  BY DEF Listed
<1> QED
  BY <1>1, <1>2 DEF Damaged

\* A row of the file that is not one of MemoryRow has an unknown status.
LEMMA FileRows ==
  /\ \A row \in FileRow : row.status # Unknown => row \in MemoryRow
  /\ \A row \in MemoryRow : row.status # Unknown
  /\ \A row \in FileRow :
       /\ [row EXCEPT !.status = Unknown] \in FileRow \ MemoryRow
       /\ [row EXCEPT !.status = "ACTIVE", !.superseded_by = NULL] \in MemoryRow
       /\ Coupled([row EXCEPT !.status = "ACTIVE", !.superseded_by = NULL])
<1>1. \A row \in MemoryRow : row.status # Unknown
  BY DEF MemoryRow, MemoryStatus, Unknown
<1>2. ASSUME NEW row \in FileRow, row \notin MemoryRow
      PROVE  \E r \in MemoryRow : row = [r EXCEPT !.status = Unknown]
  BY <1>2 DEF FileRow
<1>3. ASSUME NEW r \in MemoryRow
      PROVE  /\ [r EXCEPT !.status = Unknown].status = Unknown
             /\ [r EXCEPT !.status = Unknown] \in FileRow
             /\ [[r EXCEPT !.status = Unknown] EXCEPT !.status = Unknown] = [r EXCEPT !.status = Unknown]
             /\ [[r EXCEPT !.status = Unknown] EXCEPT !.status = "ACTIVE", !.superseded_by = NULL]
                  = [r EXCEPT !.status = "ACTIVE", !.superseded_by = NULL]
             /\ [r EXCEPT !.status = "ACTIVE", !.superseded_by = NULL] \in MemoryRow
             /\ Coupled([r EXCEPT !.status = "ACTIVE", !.superseded_by = NULL])
  <2>1. [r EXCEPT !.status = Unknown] \in FileRow
    BY DEF FileRow
  <2>2. /\ [r EXCEPT !.status = Unknown].status = Unknown
        /\ [[r EXCEPT !.status = Unknown] EXCEPT !.status = Unknown] = [r EXCEPT !.status = Unknown]
    BY DEF MemoryRow
  <2>3. [[r EXCEPT !.status = Unknown] EXCEPT !.status = "ACTIVE", !.superseded_by = NULL]
          = [r EXCEPT !.status = "ACTIVE", !.superseded_by = NULL]
    BY DEF MemoryRow
  <2>4. /\ [r EXCEPT !.status = "ACTIVE", !.superseded_by = NULL] \in MemoryRow
        /\ Coupled([r EXCEPT !.status = "ACTIVE", !.superseded_by = NULL])
    BY DEF MemoryRow, MemoryStatus, Coupled
  <2> QED
    BY <2>1, <2>2, <2>3, <2>4
<1>4. \A row \in FileRow : row.status # Unknown => row \in MemoryRow
  BY <1>2, <1>3
<1>5. ASSUME NEW row \in FileRow
      PROVE  /\ [row EXCEPT !.status = Unknown] \in FileRow \ MemoryRow
             /\ [row EXCEPT !.status = "ACTIVE", !.superseded_by = NULL] \in MemoryRow
             /\ Coupled([row EXCEPT !.status = "ACTIVE", !.superseded_by = NULL])
  <2>1. CASE row \in MemoryRow
    BY <1>1, <1>3, <2>1
  <2>2. CASE row \notin MemoryRow
    <3>1. PICK r \in MemoryRow : row = [r EXCEPT !.status = Unknown]
      BY <1>2, <2>2
    <3> QED
      BY <1>1, <1>3, <3>1
  <2> QED
    BY <2>1, <2>2
<1> QED
  BY <1>1, <1>4, <1>5
------------------------------------------------------------------------------
(* The export, and the file. *)

LEMMA SourceStepInv ==
  ASSUME TransferInv, SourceStep
  PROVE  TransferInv'
<1> USE DEF TransferInv
<1>1. /\ pc \in {"idle", "list memories"} /\ UNCHANGED <<target, pc, snapshot, todo, crashed, forced>>
      /\ raced' = (raced \/ (pc = "list memories" /\ tables' # tables))
  BY DEF SourceStep
<1>2. SourceInv' /\ TargetInv'
  BY <1>1, SourceKept, TargetKept DEF SourceStep
<1>3. Shape'
  BY <1>1 DEF Shape
<1>4. ~raced' /\ pc = "list memories" => ~raced /\ meetings' = meetings
  BY <1>1 DEF tables
<1>5. Reading'
  BY <1>1, <1>4 DEF Reading, TargetEmpty, target
<1>6. Progress'
  BY <1>1 DEF Progress
<1> QED
  BY <1>1, <1>2, <1>3, <1>5, <1>6

LEMMA ListMeetingsInv ==
  ASSUME TransferInv, ListMeetings
  PROVE  TransferInv'
<1> USE DEF TransferInv
<1>1. /\ pc = "idle" /\ pc' = "list memories" /\ UNCHANGED <<vars, target, todo, raced, crashed, forced>>
      /\ snapshot' = [snapshot EXCEPT !.meetings = meetings]
  BY DEF ListMeetings
<1>2. SourceInv' /\ TargetInv'
  BY <1>1, SourceKept, TargetKept
<1>3. meetings \in MeetingTable /\ Unique(meetings)
  BY DEF SourceInv, IInv, TypeOK, TranscriptUnique, MeetingTable, Unique, Registered
<1>4. Shape' /\ snapshot'.meetings = meetings /\ snapshot'.checksum = snapshot.checksum
  BY <1>1, <1>3 DEF Shape
<1>5. Reading'
  BY <1>1, <1>3, <1>4 DEF Reading, TargetEmpty, target, vars
<1>6. Progress'
  BY <1>1 DEF Progress
<1> QED
  BY <1>1, <1>2, <1>4, <1>5, <1>6

\* Read in one statement, the memories point at each other; unless a client
\* wrote in between, their meetings are those that were read before.
LEMMA ListMemoriesInv ==
  ASSUME TransferInv, ListMemories
  PROVE  TransferInv'
<1> USE DEF TransferInv
<1>1. /\ pc = "list memories" /\ pc' = "file" /\ UNCHANGED <<vars, target, todo, raced, crashed, forced>>
      /\ snapshot' = [meetings |-> snapshot.meetings, memories |-> memories,
                      checksum |-> <<snapshot.meetings, memories>>]
  BY DEF ListMemories
<1>2. SourceInv' /\ TargetInv'
  BY <1>1, SourceKept, TargetKept
<1>3. memories \in MemoryTable /\ memories \in FileTable /\ snapshot.meetings \in MeetingTable
  BY DEF SourceInv, IInv, TypeOK, MemoryTable, FileTable, FileRow, Shape
<1>4. /\ SavedMeetings' = snapshot.meetings /\ SavedRows' = memories
      /\ snapshot'.checksum \in MeetingTable \X MemoryTable
  BY <1>1, <1>3 DEF SavedMeetings, SavedRows
<1>5. SavedMemories' = Stored /\ Listed' = Stored
  BY <1>1, <1>4 DEF SavedMemories, Listed, Stored
<1>6. Shape'
  BY <1>1, <1>3, <1>4 DEF Shape
<1>7. Exported'
  <2>1. \A m \in Stored :
          /\ Coupled(memories[m])
          /\ memories[m].superseded_by \in Stored \cup {NULL}
          /\ memories[m].meeting_id \in Registered
    BY DEF SourceInv, IInv, PointerOnlyWhenSuperseded, ReferentialIntegrity
  <2>2. IsFiniteSet(Stored)
    BY DEF SourceInv
  <2>3. Unique(snapshot.meetings) /\ (~raced => snapshot.meetings = meetings)
    BY <1>1 DEF Reading
  <2>4. \A m \in Stored : ~raced => snapshot.meetings[memories[m].meeting_id] # NULL
    BY <2>1, <2>3 DEF Registered
  <2> QED
    BY <1>1, <1>4, <1>5, <2>1, <2>2, <2>3, <2>4 DEF Exported
<1>8. TargetEmpty /\ TargetEmpty'
  BY <1>1 DEF Reading, TargetEmpty, target
<1>9. Reading' /\ Progress' /\ Explained'
  BY <1>1, <1>8 DEF Reading, Progress, Explained, TargetEmpty
<1>10. Damaged'
  <2>1. \A m \in Stored : Coupled(memories[m])
    BY DEF SourceInv, IInv, PointerOnlyWhenSuperseded
  <2> QED
    BY <1>1, <1>4, <1>5, <2>1 DEF Damaged
<1> QED
  BY <1>1, <1>2, <1>6, <1>7, <1>9, <1>10

LEMMA DamageInv ==
  ASSUME TransferInv, Damage
  PROVE  TransferInv'
<1> USE DEF TransferInv
<1>1. pc = "file" /\ UNCHANGED <<vars, target, pc, todo, raced, crashed, forced>>
  BY DEF Damage
<1>2. SourceInv' /\ TargetInv'
  BY <1>1, SourceKept, TargetKept
<1>3. PICK m \in Listed, row \in {NULL} \cup FileRow :
        /\ snapshot' = [snapshot EXCEPT !.memories = [snapshot.memories EXCEPT ![m] = row]]
        /\ row \in MemoryRow => Coupled(row)
  <2>1. PICK m \in MemoryId :
          /\ snapshot.memories[m] # NULL
          /\ \/ snapshot' = [snapshot EXCEPT !.memories[m] = NULL]
             \/ snapshot' = [snapshot EXCEPT !.memories[m].status = "ACTIVE",
                                             !.memories[m].superseded_by = NULL]
             \/ snapshot' = [snapshot EXCEPT !.memories[m].status = Unknown]
    BY DEF Damage
  <2>2. m \in Listed /\ snapshot.memories \in FileTable /\ snapshot.memories[m] \in FileRow
    BY <2>1 DEF Listed, Shape, FileTable
  <2>3. CASE snapshot' = [snapshot EXCEPT !.memories[m] = NULL]
    <3>1. NULL \in {NULL} \cup FileRow /\ NULL \notin MemoryRow
      BY NullAssumption
    <3>2. snapshot' = [snapshot EXCEPT !.memories = [snapshot.memories EXCEPT ![m] = NULL]]
      BY <2>3
    <3> QED
      BY <2>2, <3>1, <3>2
  <2>4. CASE snapshot' = [snapshot EXCEPT !.memories[m].status = "ACTIVE",
                                          !.memories[m].superseded_by = NULL]
    <3> DEFINE row == [snapshot.memories[m] EXCEPT !.status = "ACTIVE", !.superseded_by = NULL]
    <3>1. row \in MemoryRow /\ Coupled(row)
      BY <2>2, FileRows
    <3>2. row \in FileRow
      BY <3>1 DEF FileRow
    <3>3. snapshot' = [snapshot EXCEPT !.memories = [snapshot.memories EXCEPT ![m] = row]]
      BY <2>2, <2>4 DEF Shape, FileTable
    <3> QED
      BY <2>2, <3>1, <3>2, <3>3
  <2>5. CASE snapshot' = [snapshot EXCEPT !.memories[m].status = Unknown]
    <3> DEFINE row == [snapshot.memories[m] EXCEPT !.status = Unknown]
    <3>1. row \in FileRow /\ row \notin MemoryRow
      BY <2>2, FileRows
    <3>2. snapshot' = [snapshot EXCEPT !.memories = [snapshot.memories EXCEPT ![m] = row]]
      BY <2>2, <2>5 DEF Shape, FileTable
    <3> QED
      BY <2>2, <3>1, <3>2
  <2> QED
    BY <2>1, <2>3, <2>4, <2>5
<1>4. /\ m \in MemoryId /\ snapshot.memories \in FileTable
      /\ snapshot'.memories \in FileTable /\ snapshot'.memories[m] = row
      /\ \A n \in MemoryId \ {m} : snapshot'.memories[n] = snapshot.memories[n]
      /\ snapshot'.meetings = snapshot.meetings /\ snapshot'.checksum = snapshot.checksum
  <2>1. m \in MemoryId /\ snapshot.memories \in FileTable
    BY DEF Listed, Shape
  <2>2. snapshot'.memories = [snapshot.memories EXCEPT ![m] = row]
    BY <1>3 DEF Shape
  <2>3. snapshot'.meetings = snapshot.meetings /\ snapshot'.checksum = snapshot.checksum
    BY <1>3 DEF Shape
  <2> QED
    BY <2>1, <2>2, <2>3 DEF FileTable
<1>5. Shape'
  BY <1>1, <1>3, <1>4 DEF Shape
<1>6. Exported' /\ SavedMeetings' = SavedMeetings /\ SavedRows' = SavedRows /\ SavedMemories' = SavedMemories
  BY <1>1, <1>4, ExportKept
<1>7. Damaged'
  <2>1. Listed' \subseteq Listed
    BY <1>4 DEF Listed
  <2>2. ASSUME NEW n \in Listed', snapshot'.memories[n] \in MemoryRow
        PROVE  Coupled(snapshot'.memories[n])
    <3>1. n \in MemoryId /\ n \in Listed
      BY <2>1 DEF Listed
    <3> QED
      BY <1>1, <1>3, <1>4, <2>2, <3>1 DEF Damaged
  <2>3. snapshot'.meetings = SavedMeetings' /\ Listed' \subseteq SavedMemories'
    BY <1>1, <1>4, <1>6, <2>1 DEF Damaged
  <2> QED
    BY <2>2, <2>3 DEF Damaged, Coupled
<1>8. Explained'
  BY <1>1, <1>6 DEF Explained, target
<1>9. Reading' /\ Progress'
  BY <1>1 DEF Reading, Progress, TargetEmpty, target
<1> QED
  BY <1>1, <1>2, <1>5, <1>6, <1>7, <1>8, <1>9

LEMMA VerifyInv ==
  ASSUME TransferInv, Verify
  PROVE  TransferInv'
<1> USE DEF TransferInv
<1>1. pc = "file" /\ UNCHANGED <<vars, target, snapshot, raced, crashed>>
  BY DEF Verify
<1>2. SourceInv' /\ TargetInv'
  BY <1>1, SourceKept, TargetKept
<1>3. /\ Exported' /\ Damaged' /\ SavedMeetings' = SavedMeetings /\ SavedRows' = SavedRows
      /\ snapshot.meetings = SavedMeetings
  BY <1>1, FileKept DEF Damaged
<1>4. CASE /\ WellFormed /\ pc' = "meetings" /\ forced' = (forced \/ ~Intact)
           /\ todo' = {x \in MeetingId : snapshot.meetings[x] # NULL}
  <2>1. snapshot.memories \in MemoryTable
    <3>1. snapshot.memories \in FileTable
      BY DEF Shape
    <3>2. ASSUME NEW m \in MemoryId, snapshot.memories[m] # NULL
          PROVE  snapshot.memories[m] \in MemoryRow
      <4>1. snapshot.memories[m] \in FileRow
        BY <3>1, <3>2 DEF FileTable
      <4>2. snapshot.memories[m].status # Unknown
        BY <1>4, <3>2 DEF WellFormed, Listed
      <4> QED
        BY <4>1, <4>2, FileRows
    <3> QED
      BY <3>1, <3>2 DEF FileTable, MemoryTable
  <2>2. forced' \/ snapshot.memories = SavedRows
    <3> HIDE DEF TransferInv
    <3>1. Intact => snapshot.checksum = <<snapshot.meetings, snapshot.memories>>
      BY DEF Intact, Payload
    <3>2. Intact => snapshot.checksum[2] = snapshot.memories
      BY <3>1, PairParts
    <3> QED
      BY <1>4, <3>2 DEF SavedRows
  <2>3. \A x \in MeetingId \ todo' : t_meetings[x] = SavedMeetings[x]
    BY <1>1, <1>3, <1>4 DEF Explained
  <2>4. \A m \in MemoryId : t_memories[m] # NULL => t_memories[m].meeting_id \in todo'
    <3>1. \A x \in Target!Registered : x \in todo'
      BY <1>1, <1>3, <1>4 DEF Explained, Target!Registered
    <3> QED
      BY <3>1 DEF TargetInv, Target!ReferentialIntegrity, Target!Stored
  <2>5. Progress'
    BY <1>1, <1>3, <1>4, <2>1, <2>2, <2>3, <2>4 DEF Progress, TargetEmpty, target
  <2>6. Explained' /\ forced' \in BOOLEAN
    BY <1>1, <1>3, <1>4 DEF Explained, target, Shape
  <2> QED
    BY <1>1, <1>2, <1>3, <1>4, <2>5, <2>6 DEF Shape, Reading
<1>5. CASE pc' = "refused" /\ UNCHANGED <<todo, forced>>
  <2>1. Explained'
    BY <1>1, <1>3, <1>5 DEF Explained, target
  <2> QED
    BY <1>1, <1>2, <1>3, <1>5, <2>1 DEF Shape, Reading, Progress
<1> QED
  BY <1>4, <1>5 DEF Verify
------------------------------------------------------------------------------
(* The import. *)

LEMMA ImportMeetingInv ==
  ASSUME TransferInv, NEW x \in MeetingId, ImportMeeting(x)
  PROVE  TransferInv'
<1> USE DEF TransferInv
<1>1. /\ pc = "meetings" /\ x \in todo /\ todo' = todo \ {x}
      /\ UNCHANGED <<vars, snapshot, raced, crashed, forced>>
      /\ Target!SaveMeeting(x, snapshot.meetings[x])
      /\ pc' = IF t_reply' = "ok" THEN "meetings" ELSE "failed"
  BY DEF ImportMeeting
<1>2. /\ snapshot.meetings = SavedMeetings /\ SavedMeetings \in MeetingTable
      /\ SavedMeetings[x] # NULL /\ SavedMeetings[x] \in Hash
      /\ t_meetings \in MeetingTable
  BY <1>1 DEF Progress, Damaged, Shape, MeetingTable, TargetInv, Target!TypeOK
<1>3. SourceInv' /\ TargetInv'
  BY <1>1, <1>2, SourceKept, TargetRegister
<1>4. Exported' /\ Damaged' /\ SavedMeetings' = SavedMeetings /\ SavedRows' = SavedRows
  BY <1>1, FileKept
<1>5. Shape' /\ Reading'
  BY <1>1 DEF Shape, Reading
<1>6. CASE /\ UNCHANGED <<t_meetings, t_memories>> /\ t_reply' # "ok"
           /\ x \in Target!Registered \/ \E y \in MeetingId : t_meetings[y] = SavedMeetings[x]
  \* Only what an earlier attempt left can be in the way.
  <2>1. crashed
    <3> SUFFICES ASSUME ~crashed
                 PROVE  FALSE
      OBVIOUS
    <3>1. t_meetings[x] = NULL
      BY <1>1 DEF Progress
    <3>2. PICK y \in MeetingId : t_meetings[y] = SavedMeetings[x]
      BY <1>6, <3>1 DEF Target!Registered
    <3>3. SavedMeetings[y] = SavedMeetings[x]
      BY <1>1, <1>2, <3>2 DEF Explained
    <3> QED
      BY <1>1, <1>2, <3>1, <3>2, <3>3 DEF Exported, Unique
  <2>2. Explained'
    BY <1>1, <1>4, <1>6 DEF Explained
  <2>3. Progress'
    BY <1>1, <1>6, <2>1 DEF Progress
  <2> QED
    BY <1>1, <1>3, <1>4, <1>5, <2>2, <2>3
<1>7. CASE /\ t_meetings' = [t_meetings EXCEPT ![x] = SavedMeetings[x]] /\ t_reply' = "ok"
           /\ UNCHANGED t_memories
  <2>1. t_meetings'[x] = SavedMeetings[x] /\ \A y \in MeetingId \ {x} : t_meetings'[y] = t_meetings[y]
    BY <1>2, <1>7 DEF MeetingTable
  <2>2. Explained'
    BY <1>1, <1>4, <1>7, <2>1 DEF Explained
  \* The memories that are there belong to other meetings.
  <2>3. \A m \in MemoryId : t_memories[m] # NULL => t_memories[m].meeting_id \in todo \ {x}
    <3>1. x \notin Target!Registered
      BY <1>1, <1>7 DEF Target!SaveMeeting, Target!Answer
    <3> QED
      BY <1>1, <3>1 DEF Progress, TargetInv, Target!ReferentialIntegrity, Target!Stored
  <2>4. Progress'
    BY <1>1, <1>4, <1>7, <2>1, <2>3 DEF Progress
  <2> QED
    BY <1>1, <1>3, <1>4, <1>5, <2>2, <2>4
<1> QED
  BY <1>1, <1>2, <1>6, <1>7 DEF Target!SaveMeeting, Target!Answer, Target!tables

\* The records of the file, without their pointers.
ToInsert == {Cleared(m) : m \in Listed}
ClearedRecords(R) ==
  /\ R \in SUBSET StoredMemory /\ IsFiniteSet(R)
  /\ IdsOf(R) = Listed
  /\ \A r, s \in R : r.memory_id = s.memory_id => r = s
  /\ \A m \in Listed : \E r \in R : r.memory_id = m /\ r.row = NoPointer(snapshot.memories[m])
  /\ \A r \in R : /\ r.row.superseded_by = NULL /\ Coupled(r.row)
                  /\ r.row.meeting_id = snapshot.memories[r.memory_id].meeting_id

LEMMA RowUnpointed ==
  ASSUME NEW row \in MemoryRow
  PROVE  /\ NoPointer(row) \in MemoryRow /\ NoPointer(row).superseded_by = NULL
         /\ NoPointer(row).meeting_id = row.meeting_id
BY DEF NoPointer, MemoryRow

LEMMA ClearedSet ==
  ASSUME TransferInv, pc = "meetings"
  PROVE  ClearedRecords(ToInsert)
<1> DEFINE R == ToInsert
<1>1. snapshot.memories \in MemoryTable /\ IsFiniteSet(Listed)
  <2>1. snapshot.memories \in MemoryTable /\ Listed \subseteq SavedMemories /\ IsFiniteSet(SavedMemories)
    BY DEF TransferInv, Progress, Exported, Damaged
  <2> QED
    BY <2>1, FS_Subset
<1>2. \A m \in Listed : /\ m \in MemoryId /\ snapshot.memories[m] \in MemoryRow
                        /\ Cleared(m) = [memory_id |-> m, row |-> NoPointer(snapshot.memories[m])]
  BY <1>1 DEF Listed, MemoryTable, Cleared, Record, NoPointer
<1>3. \A row \in MemoryRow : /\ NoPointer(row) \in MemoryRow /\ NoPointer(row).superseded_by = NULL
                             /\ NoPointer(row).meeting_id = row.meeting_id
  BY RowUnpointed
<1>4. IsFiniteSet(R)
  <2> DEFINE clear == [m \in Listed |-> Cleared(m)]
  <2>1. clear \in Surjection(Listed, R)
    BY DEF Surjection, ToInsert
  <2> QED
    BY <1>1, <2>1, FS_Surjection
<1>5. R \in SUBSET StoredMemory
  BY <1>2, <1>3 DEF StoredMemory, ToInsert
<1>6. IdsOf(R) = Listed
  BY <1>2 DEF IdsOf, ToInsert
<1> QED
  BY <1>2, <1>3, <1>4, <1>5, <1>6 DEF Coupled, ClearedRecords, ToInsert

LEMMA ImportMemoriesInv ==
  ASSUME TransferInv, ImportMemories
  PROVE  TransferInv'
<1> SUFFICES ASSUME NEW R, R = ToInsert, NEW batch, batch = SetToSeq(R)
             PROVE  TransferInv'
  OBVIOUS
<1>1. /\ pc = "meetings" /\ todo = {} /\ UNCHANGED <<vars, snapshot, raced, crashed, forced>>
      /\ Target!SaveMany(batch)
      /\ \/ t_reply' = "ok" /\ pc' = "pointers" /\ todo' = Pointing
         \/ t_reply' # "ok" /\ pc' = "failed" /\ UNCHANGED todo
  BY DEF ImportMemories, ToInsert
<1>2. /\ R \in SUBSET StoredMemory /\ IsFiniteSet(R)
      /\ IdsOf(R) = Listed
      /\ \A r, s \in R : r.memory_id = s.memory_id => r = s
      /\ \A m \in Listed : \E r \in R : r.memory_id = m /\ r.row = NoPointer(snapshot.memories[m])
      /\ \A r \in R : /\ r.row.superseded_by = NULL /\ Coupled(r.row)
                      /\ r.row.meeting_id = snapshot.memories[r.memory_id].meeting_id
  BY <1>1, ClearedSet DEF ClearedRecords
<1>3. Lists(batch, R)
  BY <1>2, SequenceOfSet
<1> USE DEF TransferInv
<1>4. /\ snapshot.memories \in MemoryTable /\ (forced \/ snapshot.memories = SavedRows)
      /\ t_meetings = SavedMeetings
  <2>1. /\ snapshot.memories \in MemoryTable /\ (forced \/ snapshot.memories = SavedRows)
        /\ snapshot.meetings = SavedMeetings
        /\ \A x \in MeetingId : t_meetings[x] = SavedMeetings[x]
    BY <1>1 DEF Progress, Damaged
  <2>2. SavedMeetings \in MeetingTable /\ t_meetings \in MeetingTable
    BY <2>1, Tables
  <2>3. t_meetings = SavedMeetings
    BY <2>1, <2>2, SameMeetings
  <2> QED
    BY <2>1, <2>3
<1>5. SourceInv' /\ TargetInv'
  <2> HIDE DEF TransferInv
  <2>1. batch \in Seq(StoredMemory) /\ \A i \in DOMAIN batch : batch[i] \in R
    BY <1>2, <1>3 DEF Lists
  <2> QED
    BY <1>1, <1>2, <2>1, SourceKept, TargetInsert DEF TransferInv
<1>6. /\ Exported' /\ Damaged' /\ Listed' = Listed
      /\ SavedMeetings' = SavedMeetings /\ SavedRows' = SavedRows /\ SavedMemories' = SavedMemories
  BY <1>1, FileKept
<1>7. Shape' /\ Reading'
  <2>1. Pointing \subseteq MemoryId
    BY DEF Pointing, Listed
  <2> QED
    BY <1>1, <2>1 DEF Shape, Reading
\* What an earlier attempt left would be in meetings still to be registered.
<1>8. Target!Stored = {}
  BY <1>1 DEF Progress, Target!Stored
<1>9. CASE ~Target!Insertable(batch)
  <2>1. UNCHANGED <<t_meetings, t_memories>> /\ pc' = "failed"
    BY <1>1, <1>9 DEF Target!SaveMany, Target!Answer, Target!tables
  <2>2. raced \/ crashed \/ forced
    <3> SUFFICES ASSUME ~raced, ~crashed, ~forced
                 PROVE  FALSE
      OBVIOUS
    <3>1. \A r \in R : r.memory_id \in SavedMemories
      BY <1>1, <1>2 DEF IdsOf, Damaged
    <3>2. \A r \in R : r.row.meeting_id \in MeetingId
      BY <1>2 DEF StoredMemory, MemoryRow
    <3>3. \A r \in R : r.row.meeting_id \in Target!Registered
      BY <1>1, <1>2, <1>4, <3>1, <3>2 DEF Exported, Target!Registered
    <3> QED
      BY <1>2, <1>3, <1>8, <1>9, <3>3, TargetInsertable
  <2>3. Explained'
    BY <1>1, <1>6, <2>1 DEF Explained
  <2>4. Progress'
    BY <1>1, <2>1, <2>2 DEF Progress
  <2> QED
    BY <1>1, <1>5, <1>6, <1>7, <2>3, <2>4
<1>10. CASE Target!Insertable(batch)
  <2>1. /\ Target!InsertMemories(batch) /\ t_meetings' = t_meetings
        /\ pc' = "pointers" /\ todo' = Pointing
    BY <1>1, <1>10 DEF Target!SaveMany
  <2>2. /\ \A r \in R : t_memories'[r.memory_id] = r.row
        /\ Target!Stored' = Listed
    BY <1>2, <1>3, <1>8, <1>10, <2>1, TargetSet
  <2>3. \A m \in Listed : t_memories'[m] = NoPointer(snapshot.memories[m])
    <3> SUFFICES ASSUME NEW m \in Listed
                 PROVE  t_memories'[m] = NoPointer(snapshot.memories[m])
      OBVIOUS
    <3>1. PICK r \in R : r.memory_id = m /\ r.row = NoPointer(snapshot.memories[m])
      BY <1>2
    <3> QED
      BY <2>2, <3>1
  <2>4. \A m \in MemoryId \ Listed : t_memories'[m] = NULL /\ snapshot.memories[m] = NULL
    BY <2>2 DEF Target!Stored, Listed
  <2>5. Pointing \subseteq Listed /\ \A m \in Listed \ Pointing : snapshot.memories[m].superseded_by = NULL
    BY DEF Pointing
  <2>6. \A m \in Listed \ Pointing : NoPointer(snapshot.memories[m]) = snapshot.memories[m]
    <3>1. \A row \in MemoryRow : row.superseded_by = NULL => NoPointer(row) = row
      BY DEF MemoryRow, NoPointer
    <3>2. \A m \in Listed : snapshot.memories[m] \in MemoryRow
      BY <1>4 DEF Listed, MemoryTable
    <3> QED
      BY <2>5, <3>1, <3>2
  <2>7. \A m \in MemoryId :
          t_memories'[m] = IF m \in Pointing THEN NoPointer(snapshot.memories[m]) ELSE snapshot.memories[m]
    BY <2>3, <2>4, <2>5, <2>6
  <2>8. Explained'
    <3>1. ~forced => \A m \in MemoryId : t_memories'[m] # NULL =>
            SavedRows[m] # NULL /\ t_memories'[m] \in {SavedRows[m], NoPointer(SavedRows[m])}
      BY <1>4, <2>3, <2>4 DEF Listed
    <3> QED
      BY <1>1, <1>4, <1>6, <2>1, <3>1 DEF Explained
  <2>9. Progress'
    BY <1>1, <1>4, <1>6, <2>1, <2>5, <2>7 DEF Progress
  <2> QED
    BY <1>1, <1>5, <1>6, <1>7, <2>1, <2>8, <2>9
<1> QED
  BY <1>9, <1>10

LEMMA RestorePointerInv ==
  ASSUME TransferInv, NEW m \in MemoryId, RestorePointer(m)
  PROVE  TransferInv'
<1> SUFFICES ASSUME NEW row, row = snapshot.memories[m]
             PROVE  TransferInv'
  OBVIOUS
<1> USE DEF TransferInv
<1>1. /\ pc = "pointers" /\ m \in todo /\ todo' = todo \ {m}
      /\ UNCHANGED <<vars, snapshot, raced, crashed, forced>>
      /\ Target!Update(Record(m, row))
      /\ pc' = IF t_reply' = "ok" THEN "pointers" ELSE "failed"
  BY DEF RestorePointer
<1>2. /\ snapshot.memories \in MemoryTable /\ (forced \/ snapshot.memories = SavedRows)
      /\ t_meetings = SavedMeetings /\ m \in Listed /\ todo \subseteq Listed
      /\ \A n \in MemoryId :
           t_memories[n] = IF n \in todo THEN NoPointer(snapshot.memories[n]) ELSE snapshot.memories[n]
  BY <1>1 DEF Progress
<1>3. row \in MemoryRow /\ Coupled(row) /\ Record(m, row) \in StoredMemory
  <2>1. row \in MemoryRow
    BY <1>2 DEF Listed, MemoryTable
  <2> QED
    BY <1>1, <1>2, <2>1 DEF Damaged, Record, StoredMemory
<1>4. ASSUME NEW n \in Listed
      PROVE  /\ NoPointer(snapshot.memories[n]) \in MemoryRow
             /\ NoPointer(snapshot.memories[n]).meeting_id = snapshot.memories[n].meeting_id
  <2>1. snapshot.memories[n] \in MemoryRow
    BY <1>2 DEF Listed, MemoryTable
  <2> QED
    BY <2>1, RowUnpointed
<1>5. Target!Stored = Listed
  <2>1. \A n \in Listed : NoPointer(snapshot.memories[n]) # NULL
    BY <1>4, NullAssumption
  <2>2. \A n \in MemoryId : t_memories[n] # NULL <=> n \in Listed
    BY <1>2, <2>1 DEF Listed
  <2> QED
    BY <2>2 DEF Target!Stored, Listed
<1>6. row.meeting_id \in Target!Registered
  BY <1>1, <1>2, <1>4, <1>5 DEF TargetInv, Target!ReferentialIntegrity
<1>7. SourceInv' /\ TargetInv'
  <2>1. Record(m, row).row = row
    BY DEF Record
  <2> QED
    BY <1>1, <1>3, <2>1, SourceKept, TargetUpdate
<1>8. /\ Exported' /\ Damaged' /\ Listed' = Listed
      /\ SavedMeetings' = SavedMeetings /\ SavedRows' = SavedRows /\ SavedMemories' = SavedMemories
  BY <1>1, FileKept
<1>9. Shape' /\ Reading'
  BY <1>1 DEF Shape, Reading
\* The successor is in the file: only one that was let in damaged may lack it.
<1>10. CASE row.superseded_by \in Listed \cup {NULL}
  <2>1. /\ t_memories' = [t_memories EXCEPT ![m] = row]
        /\ t_reply' = "ok" /\ t_meetings' = t_meetings
    BY <1>1, <1>2, <1>5, <1>6, <1>10 DEF Target!Update, Record
  <2>2. t_memories'[m] = row /\ \A n \in MemoryId \ {m} : t_memories'[n] = t_memories[n]
    <3>1. t_memories \in MemoryTable
      BY TargetWords DEF TargetInv, Target!TypeOK, MemoryTable
    <3> QED
      BY <2>1, <3>1 DEF MemoryTable
  <2>3. \A n \in MemoryId :
          t_memories'[n] = IF n \in todo' THEN NoPointer(snapshot.memories[n]) ELSE snapshot.memories[n]
    BY <1>1, <1>2, <2>2
  <2>4. Explained'
    <3>1. ~forced => SavedRows[m] # NULL /\ row = SavedRows[m]
      BY <1>2 DEF Listed
    <3> QED
      BY <1>1, <1>8, <2>1, <2>2, <3>1 DEF Explained
  <2>5. Progress'
    BY <1>1, <1>2, <1>8, <2>1, <2>3 DEF Progress
  <2> QED
    BY <1>1, <1>7, <1>8, <1>9, <2>1, <2>4, <2>5
<1>11. CASE row.superseded_by \notin Listed \cup {NULL}
  <2>1. pc' = "failed" /\ UNCHANGED <<t_meetings, t_memories>>
    BY <1>1, <1>5, <1>11 DEF Target!Update, Target!Answer, Target!tables, Record
  <2>2. forced
    <3> SUFFICES ASSUME ~forced
                 PROVE  FALSE
      OBVIOUS
    <3>1. row = SavedRows[m] /\ Listed = SavedMemories
      BY <1>2 DEF Listed, SavedMemories
    <3> QED
      BY <1>1, <1>2, <1>11, <3>1 DEF Exported
  <2>3. Explained' /\ Progress'
    BY <1>1, <1>8, <2>1, <2>2 DEF Explained, Progress
  <2> QED
    BY <1>1, <1>7, <1>8, <1>9, <2>1, <2>3
<1> QED
  BY <1>10, <1>11

LEMMA RestInv ==
  ASSUME TransferInv, Finish \/ Crash \/ UNCHANGED transferVars
  PROVE  TransferInv'
<1> USE DEF TransferInv
<1>1. UNCHANGED <<vars, target, snapshot, raced, forced>>
  BY DEF Finish, Crash, transferVars, transfer
<1>2. SourceInv' /\ TargetInv'
  BY <1>1, SourceKept, TargetKept
<1>3. pc \notin {"idle", "list memories"} =>
        /\ Exported' /\ Damaged' /\ Listed' = Listed
        /\ SavedMeetings' = SavedMeetings /\ SavedRows' = SavedRows
  BY <1>1, FileKept
<1>4. pc \notin {"idle", "list memories"} => Explained'
  BY <1>1, <1>3 DEF Explained, target
<1>5. CASE UNCHANGED transferVars
  <2>1. UNCHANGED <<pc, todo, crashed>>
    BY <1>5 DEF transferVars, transfer
  <2>2. Progress'
    BY <1>1, <2>1 DEF Progress, TargetEmpty, target, Listed, SavedRows, SavedMeetings
  <2>3. Reading'
    BY <1>1, <2>1 DEF Reading, TargetEmpty, target, vars
  <2> QED
    BY <1>1, <1>2, <1>3, <1>4, <2>1, <2>2, <2>3 DEF Shape
<1>6. CASE Finish
  <2>1. pc = "pointers" /\ todo = {} /\ pc' = "done" /\ UNCHANGED <<todo, crashed>>
    BY <1>6 DEF Finish
  <2>2. t_memories = snapshot.memories
    <3>1. t_memories \in MemoryTable /\ snapshot.memories \in MemoryTable
      BY <2>1, Tables DEF Progress
    <3>2. \A m \in MemoryId : t_memories[m] = snapshot.memories[m]
      BY <2>1 DEF Progress
    <3> QED
      BY <3>1, <3>2, SameMemories
  <2>3. Progress'
    BY <1>1, <1>3, <2>1, <2>2 DEF Progress, target
  <2> QED
    BY <1>1, <1>2, <1>3, <1>4, <2>1, <2>3 DEF Shape, Reading
<1>7. CASE Crash
  <2>1. pc \in {"meetings", "pointers"} /\ pc' = "file" /\ todo' = {} /\ crashed' = TRUE
    BY <1>7 DEF Crash
  <2> QED
    BY <1>1, <1>2, <1>3, <1>4, <2>1 DEF Shape, Reading, Progress
<1> QED
  BY <1>5, <1>6, <1>7

LEMMA NewTransferInv ==
  ASSUME TransferInv, NewTransfer
  PROVE  TransferInv'
<1> USE DEF TransferInv
<1>1. SourceInv' /\ pc' = "idle"
  BY SourceKept DEF NewTransfer
<1>2. Target!Stored' = {} /\ Target!Registered' = {} /\ TargetEmpty'
  BY DEF NewTransfer, Target!Stored, Target!Registered, TargetEmpty
<1>3. TargetInv'
  BY <1>2 DEF NewTransfer, TargetInv, Target!TypeOK, Target!ReferentialIntegrity,
     Target!ChildrenExact, Target!TranscriptUnique, Target!PointerOnlyWhenSuperseded,
     Target!Reply
<1>4. Shape' /\ snapshot'.checksum = NULL
  BY DEF NewTransfer, NoSnapshot, Shape, MeetingTable, FileTable
<1>5. Reading' /\ Progress'
  BY <1>1, <1>2, <1>4 DEF Reading, Progress, NewTransfer
<1> QED
  BY <1>1, <1>3, <1>4, <1>5

------------------------------------------------------------------------------
LEMMA TransferInitInv ==
  ASSUME TransferInit
  PROVE  TransferInv
<1>1. Stored = {} /\ Registered = {} /\ Target!Stored = {} /\ Target!Registered = {} /\ TargetEmpty
  BY DEF TransferInit, Init, Target!Init, Stored, Registered, Target!Stored, Target!Registered,
     TargetEmpty
<1>2. SourceInv
  BY <1>1, FS_EmptySet DEF TransferInit, Init, SourceInv, IInv, TypeOK, ReferentialIntegrity,
     ChildrenExact, TranscriptUnique, PointerOnlyWhenSuperseded, Reply
<1>3. TargetInv
  BY <1>1 DEF TransferInit, Target!Init, TargetInv, Target!TypeOK, Target!ReferentialIntegrity,
     Target!ChildrenExact, Target!TranscriptUnique, Target!PointerOnlyWhenSuperseded,
     Target!Reply
<1>4. Shape /\ snapshot.checksum = NULL
  BY DEF TransferInit, NoSnapshot, Shape, MeetingTable, FileTable
<1>5. Reading /\ Progress
  BY <1>1, <1>4 DEF Reading, Progress, TransferInit
<1> QED
  BY <1>2, <1>3, <1>4, <1>5 DEF TransferInv, TransferInit

LEMMA TransferNextInv ==
  ASSUME TransferInv, [TransferNext]_transferVars
  PROVE  TransferInv'
BY SourceStepInv, ListMeetingsInv, ListMemoriesInv, DamageInv, VerifyInv, ImportMeetingInv,
   ImportMemoriesInv, RestorePointerInv, RestInv, NewTransferInv DEF TransferNext

LEMMA TransferInvariant == TransferSpec => []TransferInv
BY TransferInitInv, TransferNextInv, PTL DEF TransferSpec

\* import_snapshot keeps the target a well-formed database at every one of its
\* transactions, also from a snapshot that was torn and after crashes.
THEOREM TargetHolds == TransferSpec => [](TargetIntegrity /\ Target!ChildrenExact)
<1>1. TransferInv => TargetIntegrity /\ Target!ChildrenExact
  BY DEF TransferInv, TargetInv, TargetIntegrity
<1> QED
  BY <1>1, TransferInvariant, PTL

\* An import that ends well has rebuilt the tables in the file, whatever pointers
\* there were, and however often it was started again; and unless it was let in
\* unverified, they are the exported ones.
THEOREM RoundTripHolds == TransferSpec => []RoundTrip
<1>1. TransferInv => RoundTrip
  <2> SUFFICES ASSUME TransferInv, pc = "done"
               PROVE  /\ t_meetings = snapshot.meetings /\ t_memories = snapshot.memories
                      /\ forced \/ snapshot.checksum = Payload(snapshot)
                      /\ Target!ChildrenExact
    BY DEF RoundTrip, Intact, Payload
  <2>1. /\ t_meetings = SavedMeetings /\ snapshot.meetings = SavedMeetings
        /\ t_memories = snapshot.memories /\ (forced \/ snapshot.memories = SavedRows)
    BY DEF TransferInv, Progress, Damaged
  <2>2. snapshot.checksum \in MeetingTable \X MemoryTable
    BY DEF TransferInv, Exported
  <2>3. forced \/ snapshot.checksum = Payload(snapshot)
    BY <2>1, <2>2 DEF SavedMeetings, SavedRows, Payload
  <2> QED
    BY <2>1, <2>3 DEF TransferInv, TargetInv
<1> QED
  BY <1>1, TransferInvariant, PTL

\* Until then the target holds only exported records, whatever happened to the
\* file in between, unless it was let in unverified.
THEOREM NothingInventedHolds == TransferSpec => []NothingInvented
<1>1. TransferInv => NothingInvented
  <2> SUFFICES ASSUME TransferInv, ~forced, NEW m \in Target!Stored
               PROVE  /\ SavedRows[m] # NULL
                      /\ t_memories[m] \in {SavedRows[m], NoPointer(SavedRows[m])}
    BY DEF NothingInvented, SavedRows, NoPointer
  <2>1. m \in MemoryId /\ t_memories[m] # NULL
    BY DEF Target!Stored
  <2>2. pc \notin {"idle", "list memories"}
    BY <2>1 DEF TransferInv, Reading, TargetEmpty
  <2> QED
    BY <2>1, <2>2 DEF TransferInv, Explained
<1> QED
  BY <1>1, TransferInvariant, PTL

\* Every state of a store can be exported and imported again: only a write in
\* the middle of the export, the remains of a dead import, or a file that was let
\* in unverified, can fail one.
THEOREM FailureExplained == TransferSpec => []FailsOnlyIfDisturbed
<1>1. TransferInv => FailsOnlyIfDisturbed
  BY DEF TransferInv, Progress, FailsOnlyIfDisturbed
<1> QED
  BY <1>1, TransferInvariant, PTL

------------------------------------------------------------------------------
(* Backups *)
Position ==
  {"closed", "script", "bump", "open", "writing", "unlinked", "writing unlinked", "failed"}

BackupTypeOK ==
  /\ file \in [Path -> Database \cup {Missing}]
  /\ client \in [Client -> [at : Position, version : 0 .. Release, writes : SUBSET Meeting]]
  /\ op \in [call : {"none", "backup", "restore"}, path : Path, verify : BOOLEAN,
             stage : {"idle", "unlink", "copy", "validate", "hangs", "done", "refused", "failed"},
             before : Database \cup {Missing}, taken : Database \cup {Missing}]
  /\ quiet \in BOOLEAN
  /\ deaths \in Nat

(***************************************************************************)
(* From the verdict to the copy, the backup that was examined is the one   *)
(* that is copied; from the copy on, the live file is it.                  *)
(***************************************************************************)
RestoreInv ==
  op.call = "restore" /\ quiet =>
    /\ op.stage \in {"unlink", "refused"} => file[Live] = op.before
    /\ op.stage \in {"unlink", "copy"} /\ op.path # Live => file[op.path] = op.taken
    /\ op.stage \in {"validate", "done"} => file[Live] = op.taken
    /\ op.verify /\ op.stage # "refused" => ReportOk(op.taken)
    /\ op.stage = "failed" => ~op.verify

\* A client that works on the live file has one: the unlink detaches them all.
Attached ==
  \A c \in Client :
    client[c].at \in {"script", "bump", "open", "writing"} => file[Live] # Missing

BackupInv == BackupTypeOK /\ Attached /\ RestoreInv

LEMMA DatabaseFacts ==
  /\ Empty \in Database /\ Missing \notin Database /\ Missing.state = "missing"
  /\ Missing # Empty /\ Live \in Path /\ Backup \subseteq Path
  /\ \A v \in 0 .. Release : [Empty EXCEPT !.version = v, !.scripts = v] \in Database
<1>1. Release \in Nat /\ 0 \in 0 .. Release
  BY BackupAssumption
<1> QED
  BY <1>1 DEF Empty, Missing, Database, Live, Path

\* What a client or the medium does to a file is noticed by a restore.
LEMMA Disturbed ==
  ASSUME BackupInv, Disturb, UNCHANGED op
  PROVE  RestoreInv'
BY DEF Disturb, RestoreInv

LEMMA Untouched ==
  ASSUME BackupInv, UNCHANGED <<file, op, quiet>>
  PROVE  RestoreInv'
BY DEF BackupInv, RestoreInv

\* Writing part of a database leaves a database.
LEMMA DatabaseUpdates ==
  ASSUME NEW db \in Database
  PROVE  /\ \A v \in 0 .. Release : [db EXCEPT !.version = v] \in Database
         /\ \A v \in 0 .. Release : [db EXCEPT !.scripts = v] \in Database
         /\ \A rows \in SUBSET Meeting : [db EXCEPT !.rows = rows] \in Database
         /\ \A s \in {"damaged", "garbage"} : [db EXCEPT !.state = s] \in Database
BY DEF Database
------------------------------------------------------------------------------
(* One lemma for each kind of step. *)

\* One field of a client.
LEMMA ClientUpdates ==
  ASSUME NEW f \in [Client -> [at : Position, version : 0 .. Release, writes : SUBSET Meeting]],
         NEW c \in Client, NEW at \in Position, NEW version \in 0 .. Release, NEW writes \in SUBSET Meeting
  PROVE  /\ [f EXCEPT ![c].at = at]
                \in [Client -> [at : Position, version : 0 .. Release, writes : SUBSET Meeting]]
         /\ [f EXCEPT ![c].version = version]
                \in [Client -> [at : Position, version : 0 .. Release, writes : SUBSET Meeting]]
         /\ [f EXCEPT ![c].writes = writes]
                \in [Client -> [at : Position, version : 0 .. Release, writes : SUBSET Meeting]]
<1>1. [f EXCEPT ![c].at = at] \in [Client -> [at : Position, version : 0 .. Release, writes : SUBSET Meeting]]
  OBVIOUS
<1>2. [f EXCEPT ![c].version = version]
        \in [Client -> [at : Position, version : 0 .. Release, writes : SUBSET Meeting]]
  OBVIOUS
<1>3. [f EXCEPT ![c].writes = writes]
        \in [Client -> [at : Position, version : 0 .. Release, writes : SUBSET Meeting]]
  OBVIOUS
<1> QED
  BY <1>1, <1>2, <1>3

LEMMA BecomesType ==
  ASSUME BackupTypeOK, NEW c \in Client, NEW at \in Position, Becomes(c, at)
  PROVE  /\ client' \in [Client -> [at : Position, version : 0 .. Release, writes : SUBSET Meeting]]
         /\ client'[c].at = at
         /\ \A d \in Client \ {c} : client'[d] = client[d]
<1>1. 0 \in 0 .. Release
  BY BackupAssumption
<1> QED
  BY <1>1 DEF Becomes, BackupTypeOK

\* A client's write to the live file.
LEMMA ClientWrites ==
  ASSUME BackupInv, NEW db \in Database, file' = [file EXCEPT ![Live] = db], Disturb,
         UNCHANGED <<op, deaths>>,
         client' \in [Client -> [at : Position, version : 0 .. Release, writes : SUBSET Meeting]]
  PROVE  BackupInv'
<1>1. file'[Live] = db /\ db # Missing
  BY DatabaseFacts DEF BackupInv, BackupTypeOK
<1>2. BackupTypeOK'
  BY DEF BackupInv, BackupTypeOK, Disturb
<1>3. Attached'
  BY <1>1 DEF Attached
<1> QED
  BY <1>2, <1>3, Disturbed DEF BackupInv

\* A client's step that writes to no file.
LEMMA ClientMoves ==
  ASSUME BackupInv, NEW c \in Client, UNCHANGED <<file, op, quiet, deaths>>,
         client' \in [Client -> [at : Position, version : 0 .. Release, writes : SUBSET Meeting]],
         \A d \in Client \ {c} : client'[d] = client[d],
         client'[c].at \in {"script", "bump", "open", "writing"} => file[Live] # Missing
  PROVE  BackupInv'
<1>1. BackupTypeOK'
  BY DEF BackupInv, BackupTypeOK
<1>2. Attached'
  BY DEF BackupInv, Attached
<1> QED
  BY <1>1, <1>2, Untouched DEF BackupInv

LEMMA OpenLiveInv ==
  ASSUME BackupInv, NEW c \in Client, OpenLive(c)
  PROVE  BackupInv'
<1> DEFINE found == IF file[Live] = Missing THEN Empty ELSE file[Live]
<1>1. found \in Database /\ found # Missing
  BY DatabaseFacts DEF BackupInv, BackupTypeOK
<1>2. client' \in [Client -> [at : Position, version : 0 .. Release, writes : SUBSET Meeting]]
      /\ \A d \in Client \ {c} : client'[d] = client[d]
  <2>1. BackupTypeOK /\ "failed" \in Position /\ "open" \in Position /\ "script" \in Position
    BY DEF BackupInv, Position
  <2>2. CASE \E at \in Position : Becomes(c, at)
    BY <2>1, <2>2, BecomesType
  <2>3. CASE /\ found.version < Release
             /\ client' = [client EXCEPT ![c] = [at |-> "script", version |-> found.version + 1,
                                                 writes |-> {}]]
    <3>1. found.version \in 0 .. Release /\ Release \in Nat
      BY <1>1, BackupAssumption DEF Database
    <3>2. found.version + 1 \in 0 .. Release
      BY <2>3, <3>1
    <3> HIDE DEF found
    <3> QED
      BY <2>1, <2>3, <3>2 DEF BackupTypeOK
  <2> QED
    BY <2>1, <2>2, <2>3 DEF OpenLive
<1>3. file' = [file EXCEPT ![Live] = found] /\ UNCHANGED <<op, deaths>>
      /\ IF found = file[Live] THEN UNCHANGED quiet ELSE Disturb
  BY DEF OpenLive
<1>4. CASE found = file[Live]
  <2>1. UNCHANGED file
    BY <1>3, <1>4 DEF BackupInv, BackupTypeOK
  <2> QED
    BY <1>1, <1>2, <1>3, <1>4, <2>1, ClientMoves
<1>5. CASE found # file[Live]
  <2> HIDE DEF found
  <2> QED
    BY <1>1, <1>2, <1>3, <1>5, ClientWrites
<1> QED
  BY <1>4, <1>5

LEMMA ApplyScriptInv ==
  ASSUME BackupInv, NEW c \in Client, ApplyScript(c)
  PROVE  BackupInv'
<1>1. file[Live] \in Database
  BY DatabaseFacts DEF ApplyScript, BackupInv, Attached, BackupTypeOK
<1>2. UNCHANGED <<op, deaths>> /\ client[c].at = "script" /\ client[c].version \in 0 .. Release
  BY DEF ApplyScript, BackupInv, BackupTypeOK
<1>3. CASE /\ file' = [file EXCEPT ![Live].scripts = client[c].version]
           /\ client' = [client EXCEPT ![c].at = "bump"] /\ Disturb
  <2> DEFINE db == [file[Live] EXCEPT !.scripts = client[c].version]
  <2>1. db \in Database
    BY <1>1, <1>2, DatabaseUpdates
  <2>2. file' = [file EXCEPT ![Live] = db]
    BY <1>3
  <2>3. client' \in [Client -> [at : Position, version : 0 .. Release, writes : SUBSET Meeting]]
    BY <1>2, <1>3, ClientUpdates DEF BackupInv, BackupTypeOK, Position
  <2> HIDE DEF db
  <2> QED
    BY <1>2, <1>3, <2>1, <2>2, <2>3, ClientWrites
<1>4. CASE Becomes(c, "failed") /\ UNCHANGED <<file, quiet>>
  BY <1>2, <1>4, BecomesType, ClientMoves DEF BackupInv, Position
<1> QED
  BY <1>3, <1>4 DEF ApplyScript

LEMMA RaiseVersionInv ==
  ASSUME BackupInv, NEW c \in Client, RaiseVersion(c)
  PROVE  BackupInv'
<1>1. file[Live] \in Database
  BY DatabaseFacts DEF RaiseVersion, BackupInv, Attached, BackupTypeOK
<1>2. UNCHANGED <<op, deaths>> /\ Disturb /\ client[c].version \in 0 .. Release /\ Release \in Nat
  BY BackupAssumption DEF RaiseVersion, BackupInv, BackupTypeOK
<1> DEFINE db == [file[Live] EXCEPT !.version = client[c].version]
<1>3. db \in Database /\ file' = [file EXCEPT ![Live] = db]
  BY <1>1, <1>2, DatabaseUpdates DEF RaiseVersion
<1>4. client' \in [Client -> [at : Position, version : 0 .. Release, writes : SUBSET Meeting]]
  <2>1. CASE Becomes(c, "open")
    BY <2>1, BecomesType DEF BackupInv, Position
  <2>2. CASE /\ client[c].version < Release
             /\ client' = [client EXCEPT ![c].at = "script", ![c].version = @ + 1]
    <3>1. client[c].version + 1 \in 0 .. Release
      BY <1>2, <2>2
    <3> DEFINE f == [client EXCEPT ![c].at = "script"]
    <3>2. f \in [Client -> [at : Position, version : 0 .. Release, writes : SUBSET Meeting]]
      BY <1>2, ClientUpdates DEF BackupInv, BackupTypeOK, Position
    <3>3. client' = [f EXCEPT ![c].version = client[c].version + 1]
      BY <2>2
    <3> HIDE DEF f
    <3> QED
      BY <1>2, <3>1, <3>2, <3>3, ClientUpdates
  <2> QED
    BY <2>1, <2>2 DEF RaiseVersion
<1> HIDE DEF db
<1> QED
  BY <1>2, <1>3, <1>4, ClientWrites

LEMMA BeginWriteInv ==
  ASSUME BackupInv, NEW c \in Client, NEW x \in Meeting, BeginWrite(c, x)
  PROVE  BackupInv'
<1>1. UNCHANGED <<file, op, quiet, deaths>>
  BY DEF BeginWrite
<1>2. CASE /\ client[c].at = "open"
           /\ client' = [client EXCEPT ![c].at = "writing", ![c].writes = {x}]
  <2>1. file[Live] # Missing
    BY <1>2 DEF BackupInv, Attached
  <2>2. client' \in [Client -> [at : Position, version : 0 .. Release, writes : SUBSET Meeting]]
    <3> DEFINE f == [client EXCEPT ![c].at = "writing"]
    <3>1. f \in [Client -> [at : Position, version : 0 .. Release, writes : SUBSET Meeting]]
      BY ClientUpdates, BackupAssumption DEF BackupInv, BackupTypeOK, Position
    <3>2. client' = [f EXCEPT ![c].writes = {x}] /\ {x} \in SUBSET Meeting
      BY <1>2
    <3> HIDE DEF f
    <3> QED
      BY <3>1, <3>2, ClientUpdates, BackupAssumption
  <2>3. \A d \in Client \ {c} : client'[d] = client[d]
    BY <1>2 DEF BackupInv, BackupTypeOK
  <2> QED
    BY <1>1, <2>1, <2>2, <2>3, ClientMoves
<1>3. CASE Becomes(c, "failed")
  BY <1>1, <1>3, BecomesType, ClientMoves DEF BackupInv, Position
<1> QED
  BY <1>2, <1>3 DEF BeginWrite

LEMMA CommitWriteInv ==
  ASSUME BackupInv, NEW c \in Client, CommitWrite(c)
  PROVE  BackupInv'
<1>1. UNCHANGED <<op, deaths>>
  BY DEF CommitWrite
<1>2. CASE /\ client[c].at = "writing" /\ Becomes(c, "open") /\ Disturb
           /\ file' = [file EXCEPT ![Live].rows = @ \cup client[c].writes]
  <2>1. file[Live] \in Database /\ client[c].writes \in SUBSET Meeting
    BY <1>2, DatabaseFacts DEF BackupInv, Attached, BackupTypeOK
  <2> DEFINE rows == file[Live].rows \cup client[c].writes
             db == [file[Live] EXCEPT !.rows = rows]
  <2>2. rows \in SUBSET Meeting
    BY <2>1 DEF Database
  <2>3. file' = [file EXCEPT ![Live] = db]
    BY <1>2
  <2> HIDE DEF rows
  <2>4. db \in Database
    BY <2>1, <2>2, DatabaseUpdates
  <2>5. client' \in [Client -> [at : Position, version : 0 .. Release, writes : SUBSET Meeting]]
    BY <1>2, BecomesType DEF BackupInv, Position
  <2> HIDE DEF db
  <2> QED
    BY <1>1, <1>2, <2>3, <2>4, <2>5, ClientWrites
<1>3. CASE Becomes(c, "unlinked") /\ UNCHANGED <<file, quiet>>
  BY <1>1, <1>3, BecomesType, ClientMoves DEF BackupInv, Position
<1> QED
  BY <1>2, <1>3 DEF CommitWrite

LEMMA CloseClientInv ==
  ASSUME BackupInv, NEW c \in Client, CloseClient(c)
  PROVE  BackupInv'
BY BecomesType, ClientMoves DEF CloseClient, BackupInv, Position

LEMMA DamageBackupInv ==
  ASSUME BackupInv, NEW p \in Backup, DamageBackup(p)
  PROVE  BackupInv'
<1>1. PICK s \in {"damaged", "garbage"} : file' = [file EXCEPT ![p].state = s]
  BY DEF DamageBackup
<1>2. p \in Path /\ file[p] \in Database
  BY DatabaseFacts DEF DamageBackup, BackupInv, BackupTypeOK
<1> DEFINE db == [file[p] EXCEPT !.state = s]
<1>3. db \in Database /\ db # Missing /\ file' = [file EXCEPT ![p] = db]
  BY <1>1, <1>2, DatabaseFacts, DatabaseUpdates
<1>4. UNCHANGED <<client, op, deaths>> /\ Disturb
  BY DEF DamageBackup
<1> HIDE DEF db
<1>5. BackupTypeOK'
  BY <1>2, <1>3, <1>4 DEF BackupInv, BackupTypeOK, Disturb
<1>6. file[Live] # Missing => file'[Live] # Missing
  BY <1>2, <1>3 DEF BackupInv, BackupTypeOK
<1>7. Attached'
  BY <1>4, <1>6 DEF BackupInv, Attached
<1> QED
  BY <1>4, <1>5, <1>7, Disturbed DEF BackupInv

------------------------------------------------------------------------------
LEMMA BackupToInv ==
  ASSUME BackupInv, NEW p \in Path, BackupTo(p)
  PROVE  BackupInv'
<1>1. UNCHANGED <<client, quiet, deaths>> /\ op'.call = "backup"
      /\ op' \in [call : {"none", "backup", "restore"}, path : Path, verify : BOOLEAN,
             stage : {"idle", "unlink", "copy", "validate", "hangs", "done", "refused", "failed"},
             before : Database \cup {Missing}, taken : Database \cup {Missing}]
  BY DatabaseFacts DEF BackupTo, NoOp
<1>2. file' \in [Path -> Database \cup {Missing}] /\ (file[Live] # Missing => file'[Live] # Missing)
  <2>1. CASE file' = [file EXCEPT ![p] = IF file[Live] = Missing \/ @ # Missing THEN @ ELSE Empty]
    BY <2>1, DatabaseFacts DEF BackupInv, BackupTypeOK
  <2>2. CASE file' = [file EXCEPT ![p] = file[Live]]
    BY <2>2, DatabaseFacts DEF BackupInv, BackupTypeOK
  <2> QED
    BY <2>1, <2>2 DEF BackupTo
<1> QED
  BY <1>1, <1>2 DEF BackupInv, BackupTypeOK, Attached, RestoreInv

LEMMA StartRestoreInv ==
  ASSUME BackupInv, NEW p \in Path, NEW verify \in BOOLEAN, StartRestore(p, verify)
  PROVE  BackupInv'
<1> DEFINE accepted == file[p] # Missing /\ (verify => ReportOk(file[p]))
<1>1. /\ op' = [call |-> "restore", path |-> p, verify |-> verify,
                stage |-> IF accepted THEN "unlink" ELSE "refused",
                before |-> file[Live], taken |-> file[p]]
      /\ UNCHANGED <<file, client, deaths>> /\ quiet' = TRUE
  BY DEF StartRestore
<1>2. BackupTypeOK' /\ Attached'
  BY <1>1, DatabaseFacts DEF BackupInv, BackupTypeOK, Attached
<1>3. RestoreInv'
  BY <1>1 DEF RestoreInv
<1> QED
  BY <1>2, <1>3 DEF BackupInv

LEMMA UnlinkLiveInv ==
  ASSUME BackupInv, UnlinkLive
  PROVE  BackupInv'
<1>1. /\ op.stage = "unlink" /\ file' = [file EXCEPT ![Live] = Missing]
      /\ client' = [c \in Client |-> [client[c] EXCEPT !.at = Detached(@)]]
      /\ op' = [op EXCEPT !.stage = "copy"] /\ UNCHANGED <<quiet, deaths>>
  BY DEF UnlinkLive, Stage
<1>2. \A at \in Position : /\ Detached(at) \in Position
                           /\ Detached(at) \notin {"script", "bump", "open", "writing"}
  BY DEF Detached, Position
<1>3. BackupTypeOK'
  <2>1. client' \in [Client -> [at : Position, version : 0 .. Release, writes : SUBSET Meeting]]
    BY <1>1, <1>2 DEF BackupInv, BackupTypeOK
  <2> QED
    BY <1>1, <2>1, DatabaseFacts DEF BackupInv, BackupTypeOK
<1>4. Attached'
  BY <1>1, <1>2 DEF BackupInv, BackupTypeOK, Attached
<1>5. RestoreInv'
  BY <1>1, DatabaseFacts DEF BackupInv, BackupTypeOK, RestoreInv
<1> QED
  BY <1>3, <1>4, <1>5 DEF BackupInv

\* The copy: of the backup that passed the check, or from garbage, which none
\* that was checked can be.
LEMMA CopyBackupInv ==
  ASSUME BackupInv, CopyBackup
  PROVE  BackupInv'
<1> DEFINE kept == IF file[Live] = Missing THEN Empty ELSE file[Live]
<1>1. op.stage = "copy" /\ UNCHANGED <<client, quiet, deaths>>
  BY DEF CopyBackup
<1>2. file[op.path] \in Database \cup {Missing} /\ kept \in Database
  BY DatabaseFacts DEF BackupInv, BackupTypeOK
<1>3. ASSUME NEW db \in Database, NEW s \in {"hangs", "validate", "failed"},
             file' = [file EXCEPT ![Live] = db], op' = [op EXCEPT !.stage = s]
      PROVE  BackupTypeOK' /\ Attached'
  <2>1. file'[Live] = db /\ db # Missing
    BY <1>3, DatabaseFacts DEF BackupInv, BackupTypeOK
  <2> QED
    BY <1>1, <1>3, <2>1 DEF BackupInv, BackupTypeOK, Attached
<1>4. CASE op.path = Live /\ file' = [file EXCEPT ![Live] = kept] /\ op' = [op EXCEPT !.stage = "hangs"]
  <2>1. BackupTypeOK' /\ Attached'
    BY <1>2, <1>3, <1>4
  <2>2. RestoreInv'
    BY <1>1, <1>4 DEF BackupInv, BackupTypeOK, RestoreInv
  <2> QED
    BY <2>1, <2>2 DEF BackupInv
<1>5. CASE /\ op.path # Live /\ ~Raises(file[op.path])
           /\ file' = [file EXCEPT ![Live] = file[op.path]] /\ op' = [op EXCEPT !.stage = "validate"]
  <2>1. file[op.path] \in Database
    BY <1>2, <1>5, DatabaseFacts DEF Raises
  <2>2. BackupTypeOK' /\ Attached'
    BY <1>3, <1>5, <2>1
  <2>3. RestoreInv'
    BY <1>1, <1>5, DatabaseFacts DEF BackupInv, BackupTypeOK, RestoreInv
  <2> QED
    BY <2>2, <2>3 DEF BackupInv
<1>6. CASE /\ op.path # Live /\ Raises(file[op.path])
           /\ file' = [file EXCEPT ![Live] = kept] /\ op' = [op EXCEPT !.stage = "failed"]
  <2>1. BackupTypeOK' /\ Attached'
    BY <1>2, <1>3, <1>6
  <2>2. ~ReportOk(file[op.path])
    BY <1>6 DEF Raises, ReportOk
  <2>3. RestoreInv'
    BY <1>1, <1>6, <2>2 DEF BackupInv, BackupTypeOK, RestoreInv
  <2> QED
    BY <2>1, <2>3 DEF BackupInv
<1> QED
  BY <1>4, <1>5, <1>6 DEF CopyBackup, Stage

LEMMA ValidateLiveInv ==
  ASSUME BackupInv, ValidateLive
  PROVE  BackupInv'
<1>1. /\ op.stage = "validate" /\ UNCHANGED <<file, client, quiet, deaths>>
      /\ op' = [op EXCEPT !.stage = IF Raises(file[Live]) THEN "failed" ELSE "done"]
  BY DEF ValidateLive, Stage
<1>2. BackupTypeOK' /\ Attached'
  BY <1>1 DEF BackupInv, BackupTypeOK, Attached
<1>3. ReportOk(file[Live]) => ~Raises(file[Live])
  BY DEF ReportOk, Raises
<1>4. RestoreInv'
  BY <1>1, <1>3 DEF BackupInv, BackupTypeOK, RestoreInv
<1> QED
  BY <1>2, <1>4 DEF BackupInv

LEMMA NoOpInv ==
  ASSUME BackupInv, op' = NoOp, quiet' = TRUE, deaths' \in Nat, UNCHANGED <<file, client>>
  PROVE  BackupInv'
BY DatabaseFacts DEF BackupInv, BackupTypeOK, Attached, RestoreInv, NoOp

------------------------------------------------------------------------------
LEMMA BackupInitInv ==
  ASSUME BackupInit
  PROVE  BackupInv
<1>1. BackupTypeOK
  <2>1. 0 \in 0 .. Release /\ \A v \in 1 .. Release : v \in 0 .. Release
    BY BackupAssumption
  <2>2. file \in [Path -> Database \cup {Missing}]
    <3> DEFINE Full == {[Empty EXCEPT !.version = v, !.scripts = v] : v \in 1 .. Release}
    <3>1. file \in [Path -> {Missing} \cup Full]
      BY DEF BackupInit
    <3>2. Full \subseteq Database
      BY <2>1, DatabaseFacts
    <3> HIDE DEF Full
    <3> QED
      BY <3>1, <3>2
  <2> QED
    BY <2>1, <2>2, DatabaseFacts DEF BackupInit, BackupTypeOK, NoOp, Position
<1> QED
  BY <1>1 DEF BackupInit, BackupInv, Attached, RestoreInv, NoOp

LEMMA BackupNextInv ==
  ASSUME BackupInv, [BackupNext]_backupVars
  PROVE  BackupInv'
<1>1. CASE UNCHANGED backupVars
  BY <1>1, Untouched DEF backupVars, BackupInv, BackupTypeOK, Attached
<1>2. CASE NextOp
  BY <1>2, NoOpInv DEF NextOp, BackupInv, BackupTypeOK
<1>3. CASE Die
  BY <1>3, NoOpInv DEF Die, BackupInv, BackupTypeOK
<1> QED
  BY <1>1, <1>2, <1>3, OpenLiveInv, ApplyScriptInv, RaiseVersionInv, BeginWriteInv,
     CommitWriteInv, CloseClientInv, DamageBackupInv, BackupToInv, StartRestoreInv,
     UnlinkLiveInv, CopyBackupInv, ValidateLiveInv DEF BackupNext

LEMMA BackupInvariant == BackupSpec => []BackupInv
BY BackupInitInv, BackupNextInv, PTL DEF BackupSpec

\* Every file is a database or missing, and a client that works on the live
\* file has one, however restores unlink it and copies and clients create it.
THEOREM FilesTyped == BackupSpec => [](BackupTypeOK /\ Attached)
<1>1. BackupInv => BackupTypeOK /\ Attached
  BY DEF BackupInv
<1> QED
  BY <1>1, BackupInvariant, PTL

\* A restore that nobody disturbs leaves the database it found or the backup
\* it examined, and fails half way only if it was told not to examine it.
THEOREM RestoreHolds == BackupSpec => []RestoreExact
<1>1. BackupInv => RestoreExact
  BY DEF BackupInv, RestoreInv, RestoreExact, ReportOk
<1> QED
  BY <1>1, BackupInvariant, PTL
=============================================================================
