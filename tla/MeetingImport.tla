----------------------------- MODULE MeetingImport -----------------------------
(***************************************************************************)
(* import_meeting run by several processes on one database, statement by   *)
(* statement: each worker reads, checks and writes through its own         *)
(* connection, and only the two writes of persist_extraction (the meeting, *)
(* then the memories) are transactions.  A worker may crash between any    *)
(* two statements and start again, and clients may delete meetings.        *)
(*                                                                         *)
(* A file is a transcript under a file name: the name decides the meeting  *)
(* id and so the memory ids, the text decides the transcript hash.  A copy *)
(* under another name has the same hash, an edited file the same id.       *)
(***************************************************************************)
EXTENDS MemoryStore, SequencesExt

CONSTANTS
  File,          \* transcript files
  IdOf,          \* File -> MeetingId: derive_meeting_id, the file stem
  HashOf,        \* File -> Hash: transcript_hash of the raw text
  Extracted,     \* File -> sequence of StoredMemory: extract_memories
  Worker,        \* processes that import
  Deleter,       \* processes that delete meetings
  MaxCrashes     \* bound: how often a worker may die between two statements

\* A memory id starts with the id of its meeting and ends with the memory's
\* type and place in the transcript (make_memory_id).
ASSUME FileAssumption ==
  /\ IdOf \in [File -> MeetingId]
  /\ HashOf \in [File -> Hash]
  /\ Extracted \in [File -> Seq(StoredMemory)]
  /\ \A f \in File : \A i, j \in DOMAIN Extracted[f] :
       /\ Extracted[f][i].row.meeting_id = IdOf[f]
       /\ Extracted[f][i].row.superseded_by = NULL
       /\ Extracted[f][i].memory_id = Extracted[f][j].memory_id => i = j
  /\ \A f, g \in File : \A i \in DOMAIN Extracted[f], j \in DOMAIN Extracted[g] :
       Extracted[f][i].memory_id = Extracted[g][j].memory_id => IdOf[f] = IdOf[g]
  /\ MaxCrashes \in Nat

VARIABLES
  pc,        \* Worker -> the next statement, or how the last import ended
  file,      \* Worker -> the file being imported
  to_store,  \* Worker -> the memories left after duplicate detection
  crashes,   \* how many times a worker has died
  victims,   \* Deleter -> memory ids read by delete_meeting
  doomed,    \* Deleter -> the meeting being deleted, or NULL
  deleted    \* has any meeting been deleted yet?

import == <<pc, file, to_store>>
deletion == <<victims, doomed, deleted>>
importVars == <<vars, import, crashes, deletion>>

Ended == {"idle", "imported", "duplicate", "crashed",
          "StorageError", "MeetingNotFoundError"}
Busy == {"find hash", "id exists", "hash exists", "insert meeting",
         "read existing", "insert memories", "get meeting"}

ImportInit ==
  /\ Init
  /\ pc = [w \in Worker |-> "idle"]
  /\ file \in [Worker -> File]
  /\ to_store = [w \in Worker |-> {}]
  /\ crashes = 0
  /\ victims = [d \in Deleter |-> {}]
  /\ doomed = [d \in Deleter |-> NULL]
  /\ deleted = FALSE

Goto(w, next) == pc' = [pc EXCEPT ![w] = next]
At(w, here) == pc[w] = here
ReadOnly == UNCHANGED <<vars, deletion, file, to_store, crashes>>
HashRegistered(hash) == \E x \in MeetingId : meetings[x] = hash

------------------------------------------------------------------------------
(* import_meeting *)
Begin(w, f) ==
  /\ pc[w] \in Ended
  /\ Goto(w, "find hash")
  /\ file' = [file EXCEPT ![w] = f]
  /\ to_store' = [to_store EXCEPT ![w] = {}]
  /\ UNCHANGED <<vars, deletion, crashes>>

\* The importer's own check; a hit ends the import.
FindHash(w) ==
  /\ At(w, "find hash")
  /\ Goto(w, IF HashRegistered(HashOf[file[w]]) THEN "duplicate" ELSE "id exists")
  /\ ReadOnly

\* save_meeting's first check; a hit raises DuplicateMeetingError.
CheckId(w) ==
  /\ At(w, "id exists")
  /\ Goto(w, IF IdOf[file[w]] \in Registered THEN "get meeting" ELSE "hash exists")
  /\ ReadOnly

CheckHash(w) ==
  /\ At(w, "hash exists")
  /\ Goto(w, IF HashRegistered(HashOf[file[w]]) THEN "get meeting" ELSE "insert meeting")
  /\ ReadOnly

\* Mutants of InsertMeeting: a duplicate found at the INSERT is ignored; the
\* transcript hash is not UNIQUE.
InsertMeeting_IgnoresRace(w) ==
  /\ At(w, "insert meeting")
  /\ SaveMeeting(IdOf[file[w]], HashOf[file[w]])
  /\ Goto(w, "read existing")
  /\ UNCHANGED <<deletion, file, to_store, crashes>>

\* The INSERT itself: its UNIQUE columns catch what the two checks missed.
InsertMeeting(w) ==
  /\ At(w, "insert meeting")
  /\ SaveMeeting(IdOf[file[w]], HashOf[file[w]])
  /\ Goto(w, IF reply' = "ok" THEN "read existing" ELSE "get meeting")
  /\ UNCHANGED <<deletion, file, to_store, crashes>>

\* Mutant of Kept: repetitions inside the transcript are not noticed.
Kept_StoredOnly(candidates, said) ==
  {candidate \in ToSet(candidates) : candidate.row.content \notin said}

\* filter_duplicates: a candidate is dropped when the meeting, or an earlier
\* candidate, says the same.
Kept(candidates, said) ==
  LET says(i) == candidates[i].row.content
      new == {i \in DOMAIN candidates :
                says(i) \notin said /\ \A j \in 1 .. i - 1 : says(j) # says(i)}
  IN  {candidates[i] : i \in new}

\* Mutant of FilterDuplicates: compares with the memories of every meeting.
FilterDuplicates_AcrossMeetings(w) ==
  /\ At(w, "read existing")
  /\ LET said == {memories[m].content : m \in Stored}
     IN  to_store' = [to_store EXCEPT ![w] = Kept(Extracted[file[w]], said)]
  /\ Goto(w, "insert memories")
  /\ UNCHANGED <<vars, deletion, file, crashes>>

FilterDuplicates(w) ==
  /\ At(w, "read existing")
  /\ LET said == {memories[m].content : m \in MemoriesOf(IdOf[file[w]])}
     IN  to_store' = [to_store EXCEPT ![w] = Kept(Extracted[file[w]], said)]
  /\ Goto(w, "insert memories")
  /\ UNCHANGED <<vars, deletion, file, crashes>>

\* No candidate points at another, so the order of the batch does not show.
InsertAll(w) ==
  /\ At(w, "insert memories")
  /\ SaveMany(SetToSeq(to_store[w]))
  /\ Goto(w, IF reply' = "ok" THEN "imported" ELSE "StorageError")
  /\ UNCHANGED <<deletion, file, to_store, crashes>>

\* The handler of DuplicateMeetingError looks the meeting up by id, even when
\* the collision was on the hash.
HandleDuplicate(w) ==
  /\ At(w, "get meeting")
  /\ Goto(w, IF IdOf[file[w]] \in Registered THEN "duplicate" ELSE "MeetingNotFoundError")
  /\ ReadOnly

\* The process dies; what it committed stays.
Crash(w) ==
  /\ crashes < MaxCrashes
  /\ pc[w] \in Busy
  /\ Goto(w, "crashed")
  /\ crashes' = crashes + 1
  /\ UNCHANGED <<vars, deletion, file, to_store>>

------------------------------------------------------------------------------
(***************************************************************************)
(* delete_meeting in two steps: the SELECT of the memory ids runs before   *)
(* the first DELETE opens the transaction.  The cascade removes whatever   *)
(* the meeting holds by then, with its evidence; metadata goes only for    *)
(* the ids that were read.                                                 *)
(***************************************************************************)
SelectMemories(d, x) ==
  /\ doomed[d] = NULL
  /\ doomed' = [doomed EXCEPT ![d] = x]
  /\ victims' = [victims EXCEPT ![d] = MemoriesOf(x)]
  /\ UNCHANGED <<vars, import, crashes, deleted>>

\* Mutant of DeleteTransaction: evidence has no foreign key either.
DeleteTransaction_NoCascade(d) ==
  LET x == doomed[d]
  IN  /\ x # NULL
      /\ evidence' = evidence \ OwnedBy(evidence, victims[d])
      /\ metadata' = metadata \ OwnedBy(metadata, victims[d])
      /\ memories' = Without(MemoriesOf(x))
      /\ meetings' = [meetings EXCEPT ![x] = NULL]
      /\ reply' = IF x \in Registered THEN "ok" ELSE "no row"
      /\ doomed' = [doomed EXCEPT ![d] = NULL]
      /\ victims' = [victims EXCEPT ![d] = {}]
      /\ deleted' = TRUE
      /\ UNCHANGED <<import, crashes>>

DeleteTransaction(d) ==
  LET x == doomed[d]
      gone == MemoriesOf(x)
  IN  /\ x # NULL
      /\ evidence' = evidence \ OwnedBy(evidence, gone \cup victims[d])
      /\ metadata' = metadata \ OwnedBy(metadata, victims[d])
      /\ memories' = Without(gone)
      /\ meetings' = [meetings EXCEPT ![x] = NULL]
      /\ reply' = IF x \in Registered THEN "ok" ELSE "no row"
      /\ doomed' = [doomed EXCEPT ![d] = NULL]
      /\ victims' = [victims EXCEPT ![d] = {}]
      /\ deleted' = TRUE
      /\ UNCHANGED <<import, crashes>>

------------------------------------------------------------------------------
Step(w) ==
  \/ FindHash(w)
  \/ CheckId(w)
  \/ CheckHash(w)
  \/ InsertMeeting(w)
  \/ FilterDuplicates(w)
  \/ InsertAll(w)
  \/ HandleDuplicate(w)

ImportNext ==
  \/ \E w \in Worker :
       \/ \E f \in File : Begin(w, f)
       \/ Step(w)
       \/ Crash(w)
  \/ \E d \in Deleter :
       \/ \E x \in MeetingId : SelectMemories(d, x)
       \/ DeleteTransaction(d)

ImportSpec == ImportInit /\ [][ImportNext]_importVars

------------------------------------------------------------------------------
Writing(w) == pc[w] \in {"read existing", "insert memories"}
Holds(x) == {<<m, memories[m].content>> : m \in MemoriesOf(x)}

\* The transcript that a meeting's hash names, point by point and each once.
Complete(x) ==
  \E f \in File :
    LET said == {<<r.memory_id, r.row.content>> : r \in ToSet(Extracted[f])}
    IN  /\ IdOf[f] = x /\ HashOf[f] = meetings[x]
        /\ Holds(x) \subseteq said
        /\ \A s \in said : \E h \in Holds(x) : h[2] = s[2]
        /\ \A g, h \in Holds(x) : g[2] = h[2] => g = h

\* Registered, not complete, and nobody is at work on it.
Abandoned ==
  {x \in Registered : ~Complete(x) /\ ~\E w \in Worker : Writing(w) /\ IdOf[file[w]] = x}

\* Between registering a meeting and storing its memories a worker has that
\* meeting to itself, unless somebody deletes meetings: the checks race, but
\* the INSERT lets one worker through.
ExclusiveWriter ==
  ~deleted =>
    \A v, w \in Worker :
      Writing(v) /\ Writing(w) /\ IdOf[file[v]] = IdOf[file[w]] => v = w

\* A meeting's memories are all the distinct memories of the transcript that
\* its hash names, or none: never part of a batch, a point made twice, or a
\* mixture of two transcripts that share a file name (unless the meeting was
\* deleted and registered again under a writer's hands).
MemoriesMatchTranscript ==
  ~deleted => \A x \in Registered : MemoriesOf(x) = {} \/ Complete(x)

\* save_many never meets a taken id or a missing meeting, unless somebody
\* deletes meetings.
NoStorageError == ~deleted => \A w \in Worker : pc[w] # "StorageError"

\* Only a crash between the two transactions abandons a meeting, and each crash
\* at most one: races of importers, renamed copies and edited files never do.
LossOnlyByCrash == ~deleted => Cardinality(Abandoned) <= crashes

\* "as a single logical unit": a registered meeting whose writer is not at
\* work holds its memories.
SingleLogicalUnit == Abandoned = {}

\* Evidence rows follow their memories even when meetings are deleted under an
\* importer's hands (metadata rows, with no foreign key, may stay behind).
EvidenceExact == evidence = {<<m, memories[m].content>> : m \in Stored}
==============================================================================
