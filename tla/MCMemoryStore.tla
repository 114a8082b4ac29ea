---------------------------- MODULE MCMemoryStore ----------------------------
(***************************************************************************)
(* MemoryStore on two meetings, three memories and two contents.  Memory   *)
(* ids are derived from the meeting id, so each memory belongs to one      *)
(* meeting: m1 and m2 to a, m3 to b.                                       *)
(***************************************************************************)
EXTENDS MemoryStore, TLC

CONSTANTS a, b, m1, m2, m3, c1, c2

MCMeetingOf == (m1 :> a) @@ (m2 :> a) @@ (m3 :> b)

MCRecord(m, content, status, by) ==
  [memory_id |-> m,
   row |-> [meeting_id |-> MCMeetingOf[m], content |-> content, status |-> status,
            superseded_by |-> by]]

\* One new memory, two new memories, the same memory twice, a successor that
\* follows or precedes its predecessor in the batch or lies in another meeting.
MCBatch ==
  LET new(m, c) == MCRecord(m, c, "ACTIVE", NULL)
      old(m, by) == MCRecord(m, c1, "SUPERSEDED", by)
  IN  {<<new(m, c)>> : m \in {m1, m2, m3}, c \in {c1, c2}}
        \cup {<<new(m1, c1), new(m2, c2)>>, <<new(m1, c1), new(m1, c2)>>,
              <<new(m1, c2), old(m2, m1)>>, <<old(m2, m1), new(m1, c1)>>,
              <<old(m3, m1)>>, <<old(m1, m1)>>}
==============================================================================
