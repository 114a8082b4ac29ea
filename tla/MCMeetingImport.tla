--------------------------- MODULE MCMeetingImport ---------------------------
(***************************************************************************)
(* Three files: `draft` and its renamed copy (same text, meetings a and b) *)
(* and `edited` (the draft's name with another text).  The draft makes one *)
(* point twice, so duplicate detection has something to drop; the edit     *)
(* changes the first point and keeps the second, so draft and edited share *)
(* memory ids, and edited and copy share a point across meetings.          *)
(***************************************************************************)
EXTENDS MeetingImport, TLC

CONSTANTS a, b, m1, m2, m3, m4, c1, c2, h1, h2, draft, copy, edited

MCIdOf == [f \in File |-> IF f = copy THEN b ELSE a]
MCHashOf == [f \in File |-> IF f = edited THEN h2 ELSE h1]

MCRecord(m, x, content) ==
  [memory_id |-> m,
   row |-> [meeting_id |-> x, content |-> content, status |-> "ACTIVE",
            superseded_by |-> NULL]]

MCExtracted ==
  [f \in File |->
     CASE f = draft -> <<MCRecord(m1, a, c1), MCRecord(m2, a, c1)>>
       [] f = copy -> <<MCRecord(m3, b, c1), MCRecord(m4, b, c1)>>
       [] f = edited -> <<MCRecord(m1, a, c2), MCRecord(m2, a, c1)>>]

MCBatch == {MCExtracted[f] : f \in File}
==============================================================================
