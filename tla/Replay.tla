-------------------------------- MODULE Replay --------------------------------
(***************************************************************************)
(* ReplayEngine and ReplaySession: the meetings that match a filter, in    *)
(* order, each with its memories and the tally so far; and a playhead that *)
(* steps through them.  The meetings are listed first and the memories of  *)
(* each read one meeting after the other, on the same database a search    *)
(* reads, while others write.                                              *)
(***************************************************************************)
EXTENDS Retrieval

CONSTANTS
  Errand,    \* what one caller does: [query, filter], a search and then a replay
  MaxMoves   \* calls of a session

ASSUME ErrandAssumption == \A e \in Errand : e.query \in Query

VARIABLES play \* [state, filter, since, todo, loaded, events, position, moves, result]

replayVars == <<shelf, writes, hunt, play>>

Nobody == ""
EveryMeeting == [on |-> Unset, from |-> Unset, to |-> Unset, project |-> Nobody, person |-> Nobody]

ReplayAll == EveryMeeting
ReplayProject(word) == [EveryMeeting EXCEPT !.project = word]
ReplayPerson(name) == [EveryMeeting EXCEPT !.person = name]
ReplayDate(date) == [EveryMeeting EXCEPT !.on = date]
ReplayRange(from, to) == [EveryMeeting EXCEPT !.from = from, !.to = to]

------------------------------------------------------------------------------
(* Timelines *)
NoPlay ==
  [state |-> "idle", filter |-> EveryMeeting, since |-> 0, todo |-> <<>>, loaded |-> <<>>,
   events |-> <<>>, position |-> 0, moves |-> 0, result |-> <<>>]

\* list_meetings: by date, none last, then by age and id.
Listed ==
  LET keys(x) == <<IF Sitting[x].date = 0 THEN 1 ELSE 0, Sitting[x].date, Sitting[x].created, x>>
      pairs == shelf.meetings \X shelf.meetings
  IN  Arranged(shelf.meetings, {p \in pairs : KeysLess(keys(p[1]), keys(p[2]))})

StartLoad ==
  /\ hunt.state = "done" /\ play.state = "idle"
  /\ \E e \in Errand :
       /\ e.query = hunt.query
       /\ play' = [NoPlay EXCEPT !.state = "loading", !.filter = e.filter, !.since = writes,
                                 !.todo = Listed]
  /\ UNCHANGED <<shelf, writes, hunt>>

\* find_by_meeting, for the next meeting
LoadNext ==
  /\ play.state = "loading" /\ play.todo # <<>>
  /\ LET x == Head(play.todo)
     IN  play' = [play EXCEPT !.todo = Tail(@),
                    !.loaded = Append(@, [meeting |-> x,
                                          notes |-> {i \in shelf.notes : Note[i].meeting = x}])]
  /\ UNCHANGED <<shelf, writes, hunt>>

Selected(entry, f) ==
  LET about == Sitting[entry.meeting]
  IN  /\ f.on # Unset => about.date = f.on
      /\ f.from # Unset => about.date # 0 /\ about.date >= f.from
      /\ f.to # Unset => about.date # 0 /\ about.date <= f.to
      /\ f.project # Nobody =>
           \/ f.project \in about.title
           \/ \E i \in entry.notes : f.project \in ToSet(Note[i].said)
      /\ f.person # Nobody =>
           f.person \in about.present \cup {Note[i].speaker : i \in entry.notes}

\* By date, none first, then by id.
InOrder(entries) ==
  LET keys(e) == <<Sitting[e.meeting].date, e.meeting>>
  IN  Arranged(entries, {p \in entries \X entries : KeysLess(keys(p[1]), keys(p[2]))})

\* Mutant of Spoken: by id alone, which is no order of utterances.
Spoken_ById(notes) == Arranged(notes, {p \in notes \X notes : p[1] < p[2]})

\* In the order they were said, then by id.
Spoken(notes) ==
  LET keys(i) == <<Note[i].index, i>>
  IN  Arranged(notes, {p \in notes \X notes : KeysLess(keys(p[1]), keys(p[2]))})

Types == {Note[i].type : i \in Notes}
TypeCounts(notes) == [t \in Types |-> Cardinality({i \in notes : Note[i].type = t})]

\* The events, each with the tally up to it; a session starts before the first.
BuildTimeline ==
  /\ play.state = "loading" /\ play.todo = <<>>
  /\ LET selected == InOrder({e \in ToSet(play.loaded) : Selected(e, play.filter)})
         upto(n) == UNION {selected[k].notes : k \in 1 .. n}
     IN  play' = [play EXCEPT !.state = "ready", !.loaded = <<>>,
                    !.events = [n \in DOMAIN selected |->
                      [meeting |-> selected[n].meeting, notes |-> Spoken(selected[n].notes),
                       cumulative |-> Cardinality(upto(n)), by_type |-> TypeCounts(upto(n))]]]
  /\ UNCHANGED <<shelf, writes, hunt>>

------------------------------------------------------------------------------
(* Sessions: moves beyond either end raise and change nothing *)
Move == play.state = "ready" /\ play.moves < MaxMoves

Step ==
  /\ Move /\ play.position < Len(play.events)
  /\ play' = [play EXCEPT !.position = @ + 1, !.moves = @ + 1, !.result = <<>>]
  /\ UNCHANGED <<shelf, writes, hunt>>

Seek ==
  /\ Move
  /\ \E n \in 0 .. Len(play.events) :
       play' = [play EXCEPT !.position = n, !.moves = @ + 1, !.result = <<>>]
  /\ UNCHANGED <<shelf, writes, hunt>>

Rewind ==
  /\ Move
  /\ play' = [play EXCEPT !.position = 0, !.moves = @ + 1, !.result = <<>>]
  /\ UNCHANGED <<shelf, writes, hunt>>

\* Plays what remains; the final tally is that of the last event played.
PlayAll ==
  /\ Move
  /\ LET n == Len(play.events)
     IN  play' = [play EXCEPT !.position = n, !.moves = @ + 1,
                    !.result = <<[played |-> n, final |-> IF n = 0 THEN TypeCounts({}) ELSE play.events[n].by_type]>>]
  /\ UNCHANGED <<shelf, writes, hunt>>

------------------------------------------------------------------------------
ReplayInit == RetrievalInit /\ play = NoPlay
SearchNext ==
  /\ \/ \E e \in Errand : ListKnown(e.query)
     \/ PlanQuery \/ Rank \/ Quote \/ Return
  /\ UNCHANGED play
ReplayNext ==
  \/ SearchNext
  \/ WriterNext /\ play.state # "ready" /\ UNCHANGED play
  \/ StartLoad \/ LoadNext \/ BuildTimeline
  \/ Step \/ Seek \/ Rewind \/ PlayAll

ReplaySpec == ReplayInit /\ [][ReplayNext]_replayVars

------------------------------------------------------------------------------
(* Properties *)
Told == UNION {ToSet(play.events[n].notes) : n \in DOMAIN play.events}
ToldBefore(i, j) ==
  \E m, n \in DOMAIN play.events :
    \E k \in DOMAIN play.events[m].notes, l \in DOMAIN play.events[n].notes :
      /\ play.events[m].notes[k] = i /\ play.events[n].notes[l] = j
      /\ m < n \/ (m = n /\ k < l)
Undisturbed == hunt.since = writes
DatesDiffer ==
  \A x, y \in hunt.meetings : Sitting[x].date = Sitting[y].date => x = y
SameRange ==
  /\ hunt.query = Timeline([Anything EXCEPT !.from = play.filter.from, !.to = play.filter.to])
  /\ play.filter = ReplayRange(play.filter.from, play.filter.to)
SameStory ==
  /\ ToSet(hunt.ranked) = Told /\ \A i \in Told : ~ToldBefore(i, i)
  /\ \A k, l \in DOMAIN hunt.ranked : k < l => ToldBefore(hunt.ranked[k], hunt.ranked[l])

\* Two engines that read the database in different ways tell the same story: a
\* search of a range of dates in chronological order returns what a replay of
\* that range plays, memory for memory, when nothing was written meanwhile and no
\* two meetings have one date.  The replay of a person (a project) leaves out no
\* meeting in which a search finds that speaker (that word in a memory), and
\* whatever was skipped or played twice, a finished run counts every memory of
\* the timeline once.
TimelinesAgree ==
  play.state = "ready" =>
    /\ Undisturbed /\ DatesDiffer /\ SameRange => SameStory
    /\ Undisturbed =>
         LET person == play.filter.person
             word == play.filter.project
         IN  \A i \in ToSet(hunt.ranked) :
               \/ play.filter = ReplayPerson(person) /\ hunt.applied.speakers = {person}
               \/ play.filter = ReplayProject(word) /\ word \in ToSet(Note[i].said)
               => i \in Told
    /\ \A k \in DOMAIN play.result : play.result[k].final = TypeCounts(Told)
==============================================================================
