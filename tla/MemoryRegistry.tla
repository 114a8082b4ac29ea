---------------------------- MODULE MemoryRegistry ----------------------------
(***************************************************************************)
(* What a MemoryStore promises its callers, with no tables: registered     *)
(* meetings, and memory records that carry their own evidence and          *)
(* metadata.  Meetings and memories appear and disappear; a record's       *)
(* children always say what the record says; nothing refers to what is     *)
(* gone.                                                                   *)
(***************************************************************************)
CONSTANTS MeetingId, MemoryId, Hash, Content, MemoryStatus, NULL

VARIABLES
  meetings,   \* MeetingId -> transcript hash, or NULL
  records     \* MemoryId -> record with its children, or NULL

Row ==
  [meeting_id : MeetingId, content : Content, status : MemoryStatus,
   superseded_by : MemoryId \cup {NULL}]

\* A record is whole: its children say what it says, and it names only what
\* exists.
Whole(record, ids) ==
  /\ record.row \in Row
  /\ record.evidence = {record.row.content}
  /\ record.metadata = {record.row.content}
  /\ meetings[record.row.meeting_id] # NULL
  /\ record.row.superseded_by \in ids \cup {NULL}

Present == {m \in MemoryId : records[m] # NULL}

Init ==
  /\ meetings = [x \in MeetingId |-> NULL]
  /\ records = [m \in MemoryId |-> NULL]

\* New memories appear together, each in a registered meeting.
Remember(S) ==
  /\ DOMAIN records' = MemoryId
  /\ \A m \in MemoryId \ S : records'[m] = records[m]
  /\ \A m \in S : records'[m] # NULL /\ Whole(records'[m], Present \cup S)
  /\ UNCHANGED meetings

\* One memory is rewritten as a whole.
Revise(m) ==
  /\ m \in Present
  /\ DOMAIN records' = MemoryId
  /\ \A n \in MemoryId \ {m} : records'[n] = records[n]
  /\ records'[m] # NULL /\ Whole(records'[m], Present)
  /\ UNCHANGED meetings

\* The records without those of `gone`; pointers at them are cleared, and
\* nothing else about the others changes.
Remaining(gone) ==
  [m \in MemoryId |->
     IF m \in gone THEN NULL
     ELSE IF m \in Present /\ records[m].row.superseded_by \in gone
     THEN [records[m] EXCEPT !.row.superseded_by = NULL]
     ELSE records[m]]

Forget(m) == records' = Remaining({m}) /\ UNCHANGED meetings

Register(x, hash) ==
  /\ meetings[x] = NULL
  /\ \A y \in MeetingId : meetings[y] # hash
  /\ meetings' = [meetings EXCEPT ![x] = hash]
  /\ UNCHANGED records

\* A meeting goes with all its memories and with no other.
Unregister(x) ==
  /\ meetings' = [meetings EXCEPT ![x] = NULL]
  /\ records' = Remaining({m \in Present : records[m].row.meeting_id = x})

Next ==
  \/ \E S \in SUBSET (MemoryId \ Present) : Remember(S)
  \/ \E m \in MemoryId : Revise(m) \/ Forget(m)
  \/ \E x \in MeetingId, hash \in Hash : Register(x, hash)
  \/ \E x \in MeetingId : Unregister(x)

Spec == Init /\ [][Next]_<<meetings, records>>
===============================================================================
