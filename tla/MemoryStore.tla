----------------------------- MODULE MemoryStore -----------------------------
(***************************************************************************)
(* SQLiteMemoryStore: the tables meetings, memories, evidence and metadata *)
(* of one database and the write operations of the MemoryStore interface.  *)
(* Every write runs in one transaction (`with self._connection`), so an    *)
(* operation is one step: it commits as a whole, or raises and is rolled   *)
(* back as a whole.  Callers take turns here; MeetingImport interleaves    *)
(* the statements that the code leaves outside a transaction.              *)
(*                                                                         *)
(* The columns and child rows that no operation looks at (type, text,      *)
(* speaker, confidence, evidence spans, metadata pairs) are one value, the *)
(* memory's content; an evidence or metadata row names the memory that     *)
(* owns it and the content it was written for.                             *)
(***************************************************************************)
EXTENDS Naturals, Sequences

CONSTANTS
  MeetingId, MemoryId,   \* primary keys of meetings and memories
  Hash,                  \* transcript hashes
  Content,               \* what a memory says, with its evidence and metadata
  NULL,                  \* SQL NULL, and the absence of a row
  Batch                  \* the sequences of records callers pass to save_many

MemoryStatus == {"ACTIVE", "ARCHIVED", "SUPERSEDED", "RESOLVED", "DELETED"}

MemoryRow ==
  [meeting_id : MeetingId, content : Content, status : MemoryStatus,
   superseded_by : MemoryId \cup {NULL}]

StoredMemory == [memory_id : MemoryId, row : MemoryRow]

\* A row points at its successor only if it says that it has been superseded.
Coupled(row) == row.superseded_by # NULL => row.status = "SUPERSEDED"

(***************************************************************************)
(* The package builds a StoredMemory either from an extracted memory, with *)
(* no successor, or from a record that a store held before.                *)
(***************************************************************************)
ASSUME BatchAssumption ==
  /\ Batch \subseteq Seq(StoredMemory)
  /\ \A batch \in Batch : \A i \in DOMAIN batch : Coupled(batch[i].row)

ASSUME NullAssumption ==
  /\ NULL \notin MemoryId
  /\ NULL \notin Hash
  /\ NULL \notin MemoryRow
  /\ NULL \notin [row : MemoryRow, evidence : SUBSET Content, metadata : SUBSET Content]

VARIABLES
  meetings,   \* MeetingId -> transcript hash of the registered meeting, or NULL
  memories,   \* MemoryId -> row, or NULL
  evidence,   \* set of rows <<owner, content>>; the owner is a foreign key
  metadata,   \* set of rows <<owner, content>>; the owner is not a foreign key
  reply       \* what the last call returned or raised

tables == <<meetings, memories, evidence, metadata>>
vars == <<meetings, memories, evidence, metadata, reply>>

Reply == {"ok", "no row", "StorageError", "IntegrityError",
          "MemoryNotFoundError", "DuplicateMeetingError"}

Registered == {x \in MeetingId : meetings[x] # NULL}
Stored == {m \in MemoryId : memories[m] # NULL}
MemoriesOf(x) == {m \in Stored : memories[m].meeting_id = x}

Init ==
  /\ meetings = [x \in MeetingId |-> NULL]
  /\ memories = [m \in MemoryId |-> NULL]
  /\ evidence = {}
  /\ metadata = {}
  /\ reply = "ok"

------------------------------------------------------------------------------
(* A call that raises, or that finds nothing to change. *)
Answer(r) == reply' = r /\ UNCHANGED tables

OwnedBy(rows, owners) == {row \in rows : row[1] \in owners}

\* Mutant of Without: the foreign key on superseded_by has no ON DELETE action.
Without_NoSetNull(gone) == [m \in MemoryId |-> IF m \in gone THEN NULL ELSE memories[m]]

(***************************************************************************)
(* The memories table without the rows of `gone`: ON DELETE SET NULL       *)
(* clears the pointers into them.                                          *)
(***************************************************************************)
Without(gone) ==
  [m \in MemoryId |->
     IF m \in gone THEN NULL
     ELSE IF m \in Stored /\ memories[m].superseded_by \in gone
     THEN [memories[m] EXCEPT !.superseded_by = NULL]
     ELSE memories[m]]

\* Mutant of Insertable: PRAGMA foreign_keys is off.
Insertable_NoForeignKeys(batch) ==
  \A i \in DOMAIN batch :
    batch[i].memory_id \notin Stored \cup {batch[j].memory_id : j \in 1 .. i - 1}

(***************************************************************************)
(* save_many inserts the records in order; SQLite checks the primary key   *)
(* and both foreign keys at the end of each INSERT, so a record may point  *)
(* at itself or at an earlier record of the batch but not at a later one.  *)
(***************************************************************************)
Insertable(batch) ==
  \A i \in DOMAIN batch :
    LET earlier == {batch[j].memory_id : j \in 1 .. i - 1}
        id == batch[i].memory_id
        row == batch[i].row
    IN  /\ id \notin Stored \cup earlier
        /\ row.meeting_id \in Registered
        /\ row.superseded_by \in Stored \cup earlier \cup {id, NULL}

InsertMemories(batch) ==
  LET new == {batch[i].memory_id : i \in DOMAIN batch}
      rowOf(m) == batch[CHOOSE i \in DOMAIN batch : batch[i].memory_id = m].row
      children == {<<batch[i].memory_id, batch[i].row.content>> : i \in DOMAIN batch}
  IN  /\ memories' = [m \in MemoryId |-> IF m \in new THEN rowOf(m) ELSE memories[m]]
      /\ evidence' = evidence \cup children
      /\ metadata' = metadata \cup children

SaveMany(batch) ==
  \/ /\ Insertable(batch)
     /\ InsertMemories(batch)
     /\ reply' = "ok"
     /\ UNCHANGED meetings
  \/ /\ ~Insertable(batch)
     /\ Answer("StorageError")

Save(memory) == SaveMany(<<memory>>)

\* Mutant of Update: the new children are added to the old ones.
Update_KeepsChildren(memory) ==
  LET id == memory.memory_id
      child == {<<id, memory.row.content>>}
  IN  /\ id \in Stored
      /\ memory.row.meeting_id \in Registered
      /\ memory.row.superseded_by \in Stored \cup {NULL}
      /\ memories' = [memories EXCEPT ![id] = memory.row]
      /\ evidence' = evidence \cup child
      /\ metadata' = metadata \cup child
      /\ reply' = "ok"
      /\ UNCHANGED meetings

(***************************************************************************)
(* update rewrites every column, then replaces the children.  A violated   *)
(* foreign key escapes as the driver's own IntegrityError.                 *)
(***************************************************************************)
Update(memory) ==
  LET id == memory.memory_id
      row == memory.row
      legal == /\ row.meeting_id \in Registered
               /\ row.superseded_by \in Stored \cup {NULL}
      child == {<<id, row.content>>}
  IN  \/ /\ id \notin Stored
         /\ Answer("MemoryNotFoundError")
      \/ /\ id \in Stored /\ ~legal
         /\ Answer("IntegrityError")
      \/ /\ id \in Stored /\ legal
         /\ memories' = [memories EXCEPT ![id] = row]
         /\ evidence' = (evidence \ OwnedBy(evidence, {id})) \cup child
         /\ metadata' = (metadata \ OwnedBy(metadata, {id})) \cup child
         /\ reply' = "ok"
         /\ UNCHANGED meetings

Delete(id) ==
  /\ evidence' = evidence \ OwnedBy(evidence, {id})
  /\ metadata' = metadata \ OwnedBy(metadata, {id})
  /\ memories' = Without({id})
  /\ reply' = IF id \in Stored THEN "ok" ELSE "no row"
  /\ UNCHANGED meetings

------------------------------------------------------------------------------
(* save_meeting: both lookups, then the INSERT with its UNIQUE columns. *)
SaveMeeting(x, hash) ==
  LET taken == x \in Registered \/ \E y \in MeetingId : meetings[y] = hash
  IN  \/ /\ taken
         /\ Answer("DuplicateMeetingError")
      \/ /\ ~taken
         /\ meetings' = [meetings EXCEPT ![x] = hash]
         /\ reply' = "ok"
         /\ UNCHANGED <<memories, evidence, metadata>>

\* Mutant of DeleteMeeting: left to the cascade, which metadata does not have.
DeleteMeeting_CascadeOnly(x) ==
  /\ evidence' = evidence \ OwnedBy(evidence, MemoriesOf(x))
  /\ memories' = Without(MemoriesOf(x))
  /\ meetings' = [meetings EXCEPT ![x] = NULL]
  /\ reply' = IF x \in Registered THEN "ok" ELSE "no row"
  /\ UNCHANGED metadata

(***************************************************************************)
(* delete_meeting removes the children of the meeting's memories itself,   *)
(* because metadata has no foreign key; deleting the meeting row cascades  *)
(* to its memories.                                                        *)
(***************************************************************************)
DeleteMeeting(x) ==
  LET gone == MemoriesOf(x)
  IN  /\ evidence' = evidence \ OwnedBy(evidence, gone)
      /\ metadata' = metadata \ OwnedBy(metadata, gone)
      /\ memories' = Without(gone)
      /\ meetings' = [meetings EXCEPT ![x] = NULL]
      /\ reply' = IF x \in Registered THEN "ok" ELSE "no row"

------------------------------------------------------------------------------
\* Mutants of SetStatus: a pointer is only ever set, never cleared; the two
\* parameters of the UPDATE are swapped.
SetStatus_KeepsPointer(id, status, by) ==
  /\ id \in Stored
  /\ by \in Stored \cup {NULL}
  /\ memories' = [memories EXCEPT ![id].status = status,
                                 ![id].superseded_by = IF by = NULL THEN @ ELSE by]
  /\ reply' = "ok"
  /\ UNCHANGED <<meetings, evidence, metadata>>

SetStatus_Swapped(id, status, by) ==
  /\ id \in Stored
  /\ by \in Stored \cup {NULL}
  /\ memories' = [memories EXCEPT ![id].status = by, ![id].superseded_by = status]
  /\ reply' = "ok"
  /\ UNCHANGED <<meetings, evidence, metadata>>

(* set_status overwrites the status and the pointer, whatever they were. *)
SetStatus(id, status, by) ==
  \/ /\ id \notin Stored
     /\ Answer("MemoryNotFoundError")
  \/ /\ id \in Stored
     /\ by \notin Stored \cup {NULL}
     /\ Answer("IntegrityError")
  \/ /\ id \in Stored
     /\ by \in Stored \cup {NULL}
     /\ memories' = [memories EXCEPT ![id].status = status, ![id].superseded_by = by]
     /\ reply' = "ok"
     /\ UNCHANGED <<meetings, evidence, metadata>>

Archive(id) == SetStatus(id, "ARCHIVED", NULL)
Resolve(id) == SetStatus(id, "RESOLVED", NULL)
MarkDeleted(id) == SetStatus(id, "DELETED", NULL)
Restore(id) == SetStatus(id, "ACTIVE", NULL)
Supersede(id, by) == SetStatus(id, "SUPERSEDED", by)

Lifecycle(id) ==
  \/ Archive(id)
  \/ Resolve(id)
  \/ MarkDeleted(id)
  \/ Restore(id)
  \/ \E by \in MemoryId : Supersede(id, by)

Records == UNION {{batch[i] : i \in DOMAIN batch} : batch \in Batch}

Next ==
  \/ \E batch \in Batch : SaveMany(batch)
  \/ \E memory \in Records : Save(memory) \/ Update(memory)
  \/ \E id \in MemoryId : Delete(id) \/ Lifecycle(id)
  \/ \E x \in MeetingId, hash \in Hash : SaveMeeting(x, hash)
  \/ \E x \in MeetingId : DeleteMeeting(x)

Spec == Init /\ [][Next]_vars

------------------------------------------------------------------------------
(* What a reader gets: get assembles a record from a row and its children. *)
Get(m) ==
  IF m \notin Stored THEN NULL
  ELSE [row |-> memories[m],
        evidence |-> {e[2] : e \in OwnedBy(evidence, {m})},
        metadata |-> {d[2] : d \in OwnedBy(metadata, {m})}]

\* The tables hold values of their declared types (the schema of migration 1).
TypeOK ==
  /\ meetings \in [MeetingId -> Hash \cup {NULL}]
  /\ memories \in [MemoryId -> MemoryRow \cup {NULL}]
  /\ evidence \subseteq MemoryId \X Content
  /\ metadata \subseteq MemoryId \X Content
  /\ reply \in Reply

\* No row dangles: every memory's meeting is registered, and every successor
\* is a stored memory, after any sequence of saves, updates and deletes of
\* either end (the foreign keys with their CASCADE and SET NULL actions).
ReferentialIntegrity ==
  \A m \in Stored :
    /\ memories[m].meeting_id \in Registered
    /\ memories[m].superseded_by \in Stored \cup {NULL}

\* The child rows are exactly those of the stored memories, for what they say
\* now: nothing is left behind by update, delete or delete_meeting for a later
\* memory of the same id to pick up (metadata has no foreign key to do it).
ChildrenExact ==
  LET owed == {<<m, memories[m].content>> : m \in Stored}
  IN  evidence = owed /\ metadata = owed

\* No transcript is registered twice, under whatever meeting ids.
TranscriptUnique ==
  \A x, y \in Registered : meetings[x] = meetings[y] => x = y

\* A memory that points at a successor is SUPERSEDED: no lifecycle call, and
\* no deletion of the successor, leaves a pointer behind on a live memory.
PointerOnlyWhenSuperseded == \A m \in Stored : Coupled(memories[m])

------------------------------------------------------------------------------
Registry ==
  INSTANCE MemoryRegistry WITH records <- [m \in MemoryId |-> Get(m)]

\* A sequential store keeps the registry's promise: every call that commits is
\* one registry step, and every call that raises is none.
ImplementsRegistry == Registry!Spec
==============================================================================
