--------------------------- MODULE SnapshotTransfer ---------------------------
(***************************************************************************)
(* export_snapshot and import_snapshot: a logical copy of one store into   *)
(* another.  The export reads the meetings and then the memories, each in  *)
(* a statement of its own, while other clients may write.  The import is a *)
(* sequence of transactions: one per meeting, one for all memories with    *)
(* their pointers cleared, one per pointer to put back.  It may die        *)
(* between any two, and be started again on what it left.                  *)
(*                                                                         *)
(* The source is MemoryStore itself, in any state its operations reach;    *)
(* the target is a second instance of it.  What happens to the source      *)
(* after the export cannot matter to the import, and is left out.          *)
(***************************************************************************)
EXTENDS MemoryStore, SequencesExt

VARIABLES
  t_meetings, t_memories, t_evidence, t_metadata, t_reply,   \* the target
  pc,         \* the next statement of export or import, or how it ended
  snapshot,   \* the file: its meetings, its memories and their checksum
  todo,       \* ids that the loop at pc has still to visit
  raced,      \* did a client write between the two reads of the export?
  crashed,    \* has the import of this snapshot died before?
  forced      \* was the file let in although its checksum does not match?

Target ==
  INSTANCE MemoryStore WITH
    meetings <- t_meetings, memories <- t_memories, evidence <- t_evidence,
    metadata <- t_metadata, reply <- t_reply

target == <<t_meetings, t_memories, t_evidence, t_metadata, t_reply>>
transfer == <<pc, snapshot, todo, raced, crashed, forced>>
transferVars == <<vars, target, transfer>>

Payload(file) == <<file.meetings, file.memories>>
NoSnapshot ==
  [meetings |-> [x \in MeetingId |-> NULL], memories |-> [m \in MemoryId |-> NULL],
   checksum |-> NULL]

TransferInit ==
  /\ Init
  /\ Target!Init
  /\ pc = "idle"
  /\ snapshot = NoSnapshot
  /\ todo = {}
  /\ raced = FALSE
  /\ crashed = FALSE
  /\ forced = FALSE

------------------------------------------------------------------------------
(* The life of the source, and export_snapshot *)
SourceStep ==
  /\ pc \in {"idle", "list memories"}
  /\ Next
  /\ raced' = (raced \/ (pc = "list memories" /\ tables' # tables))
  /\ UNCHANGED <<target, pc, snapshot, todo, crashed, forced>>

ListMeetings ==
  /\ pc = "idle"
  /\ pc' = "list memories"
  /\ snapshot' = [snapshot EXCEPT !.meetings = meetings]
  /\ UNCHANGED <<vars, target, todo, raced, crashed, forced>>

ListMemories ==
  /\ pc = "list memories"
  /\ pc' = "file"
  /\ snapshot' = [meetings |-> snapshot.meetings, memories |-> memories,
                  checksum |-> <<snapshot.meetings, memories>>]
  /\ UNCHANGED <<vars, target, todo, raced, crashed, forced>>

\* The file loses a record, or a record in it is altered, perhaps to something
\* that is no memory.
Unknown == "LOST"
Damage ==
  /\ pc = "file"
  /\ \E m \in MemoryId :
       /\ snapshot.memories[m] # NULL
       /\ \/ snapshot' = [snapshot EXCEPT !.memories[m] = NULL]
          \/ snapshot' = [snapshot EXCEPT !.memories[m].status = "ACTIVE",
                                          !.memories[m].superseded_by = NULL]
          \/ snapshot' = [snapshot EXCEPT !.memories[m].status = Unknown]
  /\ UNCHANGED <<vars, target, pc, todo, raced, crashed, forced>>

------------------------------------------------------------------------------
(* import_snapshot *)
Intact == snapshot.checksum = Payload(snapshot)
Listed == {m \in MemoryId : snapshot.memories[m] # NULL}
WellFormed == \A m \in Listed : snapshot.memories[m].status # Unknown

\* Mutant of Verify: the checksum is not looked at.
Verify_Nothing ==
  /\ pc = "file" /\ WellFormed
  /\ pc' = "meetings"
  /\ todo' = {x \in MeetingId : snapshot.meetings[x] # NULL}
  /\ UNCHANGED <<vars, target, snapshot, raced, crashed, forced>>

\* --no-verify lets any file in whose records can be read.
Verify ==
  /\ pc = "file"
  /\ \E verify \in BOOLEAN :
       \/ /\ (verify => Intact) /\ WellFormed
          /\ pc' = "meetings"
          /\ todo' = {x \in MeetingId : snapshot.meetings[x] # NULL}
          /\ forced' = (forced \/ ~Intact)
       \/ /\ (verify /\ ~Intact) \/ ~WellFormed
          /\ pc' = "refused"
          /\ UNCHANGED <<todo, forced>>
  /\ UNCHANGED <<vars, target, snapshot, raced, crashed>>

\* Any exception of the target ends the import where it stands.
ImportMeeting(x) ==
  /\ pc = "meetings" /\ x \in todo
  /\ Target!SaveMeeting(x, snapshot.meetings[x])
  /\ pc' = IF t_reply' = "ok" THEN pc ELSE "failed"
  /\ todo' = todo \ {x}
  /\ UNCHANGED <<vars, snapshot, raced, crashed, forced>>

Pointing == {m \in Listed : snapshot.memories[m].superseded_by # NULL}
Record(m, row) == [memory_id |-> m, row |-> row]

\* Mutants of Cleared: the pointers are left in; the record is built anew.
Cleared_Kept(m) == Record(m, snapshot.memories[m])
Cleared_AsNew(m) ==
  Record(m, [snapshot.memories[m] EXCEPT !.status = "ACTIVE", !.superseded_by = NULL])

Cleared(m) == Record(m, [snapshot.memories[m] EXCEPT !.superseded_by = NULL])

ImportMemories ==
  /\ pc = "meetings" /\ todo = {}
  /\ Target!SaveMany(SetToSeq({Cleared(m) : m \in Listed}))
  /\ \/ t_reply' = "ok" /\ pc' = "pointers" /\ todo' = Pointing
     \/ t_reply' # "ok" /\ pc' = "failed" /\ UNCHANGED todo
  /\ UNCHANGED <<vars, snapshot, raced, crashed, forced>>

RestorePointer(m) ==
  /\ pc = "pointers" /\ m \in todo
  /\ Target!Update(Record(m, snapshot.memories[m]))
  /\ pc' = IF t_reply' = "ok" THEN pc ELSE "failed"
  /\ todo' = todo \ {m}
  /\ UNCHANGED <<vars, snapshot, raced, crashed, forced>>

Finish ==
  /\ pc = "pointers" /\ todo = {}
  /\ pc' = "done"
  /\ UNCHANGED <<vars, target, snapshot, todo, raced, crashed, forced>>

\* The importing process dies; the file and what was committed stay.
Crash ==
  /\ pc \in {"meetings", "pointers"}
  /\ pc' = "file"
  /\ todo' = {}
  /\ crashed' = TRUE
  /\ UNCHANGED <<vars, target, snapshot, raced, forced>>

\* The next transfer goes into a database of its own.
NewTransfer ==
  /\ pc \in {"done", "failed", "refused"}
  /\ pc' = "idle"
  /\ t_meetings' = [x \in MeetingId |-> NULL]
  /\ t_memories' = [m \in MemoryId |-> NULL]
  /\ t_evidence' = {} /\ t_metadata' = {} /\ t_reply' = "ok"
  /\ snapshot' = NoSnapshot
  /\ todo' = {}
  /\ raced' = FALSE
  /\ crashed' = FALSE
  /\ forced' = FALSE
  /\ UNCHANGED vars

TransferNext ==
  \/ SourceStep
  \/ ListMeetings \/ ListMemories
  \/ Damage
  \/ Verify
  \/ \E x \in MeetingId : ImportMeeting(x)
  \/ ImportMemories
  \/ \E m \in MemoryId : RestorePointer(m)
  \/ Finish
  \/ Crash
  \/ NewTransfer

TransferSpec == TransferInit /\ [][TransferNext]_transferVars

------------------------------------------------------------------------------
FileRow == MemoryRow \cup {[row EXCEPT !.status = Unknown] : row \in MemoryRow}

TransferTypeOK ==
  /\ TypeOK
  /\ Target!TypeOK
  /\ pc \in {"idle", "list memories", "file", "meetings", "pointers",
             "done", "failed", "refused"}
  /\ snapshot.meetings \in [MeetingId -> Hash \cup {NULL}]
  /\ snapshot.memories \in [MemoryId -> FileRow \cup {NULL}]
  /\ todo \subseteq MeetingId \cup MemoryId
  /\ {raced, crashed, forced} \subseteq BOOLEAN

\* An import that ends well has rebuilt the file, pointer cycles and all, however
\* often it died; and unless it was let in unverified, the file is what was
\* exported, whatever happened to it.
RoundTrip ==
  pc = "done" =>
    /\ <<t_meetings, t_memories>> = Payload(snapshot)
    /\ forced \/ Intact
    /\ Target!ChildrenExact

\* "Corrupt data is never silently recovered": at any time the target holds
\* nothing but exported records, at most without their pointer, unless the file
\* was let in unverified.
NothingInvented ==
  \A m \in Target!Stored :
    LET exported == snapshot.checksum[2][m]
    IN  forced \/ /\ exported # NULL
                  /\ t_memories[m] \in {exported, [exported EXCEPT !.superseded_by = NULL]}

\* An import fails only if a client wrote during the export, the target was not
\* new or the file was let in unverified: every state of a store can be exported
\* and imported again.
FailsOnlyIfDisturbed == pc = "failed" => raced \/ crashed \/ forced

\* The target never has a dangling row, even from a snapshot that was torn.
TargetIntegrity == Target!ReferentialIntegrity
==============================================================================
