------------------------------ MODULE Retrieval ------------------------------
(***************************************************************************)
(* MemoryRetriever: plan a query, filter, rank, order and cut a page of    *)
(* memories, and show each in its context.  A search reads the database    *)
(* three times and then each transcript it quotes once, while others       *)
(* import, change a status or edit a transcript.                           *)
(*                                                                         *)
(* Texts are sequences of words; a name is its lower-case spelling, which  *)
(* is a word of a query only if it has no space.  Scores are in units of   *)
(* one part in Scale.                                                      *)
(***************************************************************************)
EXTENDS Integers, Sequences, FiniteSets, FiniteSetsExt, SequencesExt, Ordering

CONSTANTS
  Sitting,   \* meetings, in the order of their ids: x -> [date, month, present, title,
             \* lines, created]; date 0 for none
  Note,      \* memories, in the order of their ids: i -> [meeting, index, type, speaker,
             \* said, confidence, created]
  Lexicon,   \* word -> [class, value]: "type", "status", "month", "stop", "open", "loop", "other"
  MaxWrites  \* changes made while a search or a replay is under way

Unset == -1

ASSUME RecordsAssumption ==
  /\ IsFiniteSet(DOMAIN Note) /\ DOMAIN Note \subseteq Int
  /\ \A i \in DOMAIN Note :
       /\ Note[i].meeting \in DOMAIN Sitting /\ Note[i].index \in Nat
       /\ Note[i].confidence \in Nat /\ Note[i].created \in Int
  /\ IsFiniteSet(DOMAIN Sitting) /\ DOMAIN Sitting \subseteq Int
  /\ \A x \in DOMAIN Sitting :
       Sitting[x].date \in Nat /\ Sitting[x].lines \in Nat /\ Sitting[x].created \in Int

VARIABLES
  shelf,   \* [meetings, notes, status, lines]: what the database holds, and how many
           \* utterances can be read from the transcript of each meeting
  writes,  \* how many changes were made
  hunt     \* the search: [state, query, since, meetings, applied, ranked, components, page,
           \* reasons, lines, windows]

retrievalVars == <<shelf, writes, hunt>>

Meetings == DOMAIN Sitting
Notes == DOMAIN Note

------------------------------------------------------------------------------
(* Other programs *)
Write == writes < MaxWrites /\ writes' = writes + 1 /\ UNCHANGED hunt

\* save_meeting and save_many: two transactions.
ImportMeeting(x) ==
  /\ x \notin shelf.meetings
  /\ shelf' = [shelf EXCEPT !.meetings = @ \cup {x}]
  /\ Write

ImportNotes(x) ==
  /\ x \in shelf.meetings
  /\ \A i \in Notes : Note[i].meeting = x => i \notin shelf.notes
  /\ shelf' = [shelf EXCEPT !.notes = @ \cup {i \in Notes : Note[i].meeting = x}]
  /\ Write

SetStatus(i) ==
  /\ i \in shelf.notes
  /\ \E s \in {"resolved", "deleted"} : shelf' = [shelf EXCEPT !.status[i] = s]
  /\ Write

\* The transcript is cut short, or gone.
EditTranscript(x) ==
  /\ \E n \in 0 .. Sitting[x].lines - 1 : shelf' = [shelf EXCEPT !.lines[x] = n]
  /\ Write

WriterNext ==
  \/ \E x \in Meetings : ImportMeeting(x) \/ ImportNotes(x) \/ EditTranscript(x)
  \/ \E i \in Notes : SetStatus(i)

------------------------------------------------------------------------------
(* Queries *)
Unlimited == 1000
Anything ==
  [text |-> <<>>, types |-> {}, statuses |-> {}, speakers |-> {}, participants |-> {},
   months |-> {}, meetings |-> {}, low |-> Unset, high |-> Unset, from |-> Unset, to |-> Unset,
   limit |-> Unlimited, offset |-> 0, window |-> 1, order |-> "relevance"]

Query ==
  [text : Seq(DOMAIN Lexicon), types : SUBSET STRING, statuses : SUBSET STRING,
   speakers : SUBSET STRING, participants : SUBSET STRING, months : SUBSET Nat,
   meetings : SUBSET Meetings, low : Int, high : Int, from : Int, to : Int, limit : Nat,
   offset : Nat, window : Nat, order : STRING]

Timeline(q) == [q EXCEPT !.order = "chronological"]
Before(date, q) == Timeline([q EXCEPT !.to = date])
After(date, q) == Timeline([q EXCEPT !.from = date])
Between(start, end, q) == Timeline([q EXCEPT !.from = start, !.to = end])
Latest(limit, q) == [q EXCEPT !.limit = limit, !.order = "reverse-chronological"]
Oldest(limit, q) == Timeline([q EXCEPT !.limit = limit])

(* The planner: "open loop" is one type, other words are looked up as types, *)
(* statuses, months, speakers and participants in turn; the rest, without    *)
(* stopwords, has to be found in the memory.                                 *)
Is(word, class) == Lexicon[word].class = class
OpenLoopAt(text, k) ==
  k \in 1 .. Len(text) - 1 /\ Is(text[k], "open") /\ Is(text[k + 1], "loop")
Single(text) == {k \in DOMAIN text : ~OpenLoopAt(text, k) /\ ~OpenLoopAt(text, k - 1)}

Plan(q, speakers, participants) ==
  LET text == q.text
      listed == {"type", "status", "month"}
      values(class) == {Lexicon[text[k]].value : k \in {j \in Single(text) : Is(text[j], class)}}
      names == {k \in Single(text) : Lexicon[text[k]].class \notin listed}
      said == {k \in names : text[k] \in speakers}
      present == {k \in names \ said : text[k] \in participants}
      terms == {k \in names \ (said \cup present) : ~Is(text[k], "stop")}
      inOrder == Arranged(terms, {p \in terms \X terms : p[1] < p[2]})
  IN  [q EXCEPT
         !.types = @ \cup values("type")
                     \cup {"open_loop" : k \in {j \in DOMAIN text : OpenLoopAt(text, j)}},
         !.statuses = @ \cup values("status"),
         !.months = @ \cup values("month"),
         !.speakers = @ \cup {text[k] : k \in said},
         !.participants = @ \cup {text[k] : k \in present},
         !.text = [n \in 1 .. Cardinality(terms) |-> text[inOrder[n]]]]

------------------------------------------------------------------------------
(* Candidates; `known` are the meetings listed when the search began *)
AskedOr(set, value) == set = {} \/ value \in set
InRange(low, value, high) == (low = Unset \/ value >= low) /\ (high = Unset \/ value <= high)

\* A comparison with a missing date is not true.
Rows(q) ==
  LET hit(i) ==
        /\ AskedOr(q.types, Note[i].type) /\ AskedOr(q.speakers, Note[i].speaker)
        /\ AskedOr(q.meetings, Note[i].meeting) /\ AskedOr(q.statuses, shelf.status[i])
        /\ InRange(q.low, Note[i].confidence, q.high)
        /\ (q.from # Unset \/ q.to # Unset) =>
             LET date == Sitting[Note[i].meeting].date
             IN  date # 0 /\ InRange(q.from, date, q.to)
  IN  {i \in shelf.notes : hit(i)}

Body(i) == ToSet(Note[i].said) \cup {Note[i].speaker}
Heading(i, known) ==
  LET x == Note[i].meeting
  IN  IF x \in known THEN Sitting[x].title \cup Sitting[x].present ELSE {}

Searchable(i, known) == Body(i) \cup Heading(i, known)

Matches(i, applied, known) ==
  LET x == Note[i].meeting
  IN  /\ ToSet(applied.text) \subseteq Searchable(i, known)
      /\ applied.participants # {} => x \in known /\ applied.participants \subseteq Sitting[x].present
      /\ applied.months # {} => x \in known /\ Sitting[x].date # 0 /\ Sitting[x].month \in applied.months

------------------------------------------------------------------------------
(* Ranking *)
Scale == 60
Part(n, of) == (n * Scale) \div of
Weight == [text |-> 30, phrase |-> 15, confidence |-> 20, recency |-> 15, status |-> 10, meeting |-> 10]
StatusWeight == [active |-> 60, resolved |-> 42, archived |-> 30, superseded |-> 18, deleted |-> 6]

DateIn(i, known) == IF Note[i].meeting \in known THEN Sitting[Note[i].meeting].date ELSE 0
Matched(terms, body) == Cardinality({k \in DOMAIN terms : terms[k] \in body})
Says(said, phrase) ==
  \E k \in 0 .. Len(said) - Len(phrase) : SubSeq(said, k + 1, k + Len(phrase)) = phrase

\* Mutant of Recency: undated meetings are taken for the newest.
Recency_UndatedFirst(i, candidates, known) ==
  LET dates == {DateIn(j, known) : j \in candidates} \ {0}
      date == DateIn(i, known)
  IN  IF Cardinality(dates) <= 1 \/ date = 0 THEN Scale
      ELSE Part(Cardinality({d \in dates : d < date}), Cardinality(dates) - 1)

\* The place of the date among those of the candidates, oldest 0, newest 1;
\* neutral when there is one date or none, 0 without a date.
Recency(i, candidates, known) ==
  LET dates == {DateIn(j, known) : j \in candidates} \ {0}
      date == DateIn(i, known)
  IN  IF Cardinality(dates) <= 1 THEN Scale
      ELSE IF date = 0 THEN 0
      ELSE Part(Cardinality({d \in dates : d < date}), Cardinality(dates) - 1)

Components(i, applied, candidates, known) ==
  LET terms == applied.text
      share(body) == IF terms = <<>> THEN Scale ELSE Part(Matched(terms, body), Len(terms))
  IN  [text |-> share(Body(i)),
       phrase |-> IF Len(terms) < 2 \/ Says(Note[i].said, terms) THEN Scale ELSE 0,
       confidence |-> Note[i].confidence,
       recency |-> Recency(i, candidates, known),
       status |-> StatusWeight[shelf.status[i]],
       meeting |-> share(Heading(i, known))]

Score(c) ==
  Weight.text * c.text + Weight.phrase * c.phrase + Weight.confidence * c.confidence
    + Weight.recency * c.recency + Weight.status * c.status + Weight.meeting * c.meeting

KeysLess(a, b) == \E k \in DOMAIN a : a[k] < b[k] /\ \A l \in 1 .. k - 1 : a[l] = b[l]

\* Stable sorts by one key after the other, the last key first.
Precedes(order, known, score, i, j) ==
  LET keys(n) ==
        CASE order = "chronological" -> <<DateIn(n, known), Note[n].index, n>>
          [] order = "reverse-chronological" -> <<-DateIn(n, known), -Note[n].created, n>>
          [] OTHER -> <<-score[n], -DateIn(n, known), -Note[n].created, n>>
  IN  KeysLess(keys(i), keys(j))

------------------------------------------------------------------------------
(* What is shown of a hit *)
\* Mutant of Explainable: a keyword found in the title is no reason.
Explainable_BodyOnly(i, known) == Body(i)

\* Where a keyword is looked for once more, to say that it was found.
Explainable(i, known) == Body(i) \cup Heading(i, known)

Reasons(i, applied, known) ==
  LET x == Note[i].meeting
      dated == x \in known /\ Sitting[x].date # 0
      reasons ==
        {<<"speaker", s>> : s \in applied.speakers \cap {Note[i].speaker}}
          \cup {<<"type", t>> : t \in applied.types \cap {Note[i].type}}
          \cup {<<"keyword", w>> : w \in ToSet(applied.text) \cap Explainable(i, known)}
          \cup {<<"phrase", p>> : p \in {q \in {applied.text} : Len(q) > 1 /\ Says(Note[i].said, q)}}
          \cup {<<"confidence", c>> : c \in {applied.low} \ {Unset}}
          \cup {<<"status", s>> : s \in applied.statuses \cap {shelf.status[i]}}
          \cup {<<"range", r>> : r \in {e \in {<<applied.from, applied.to>>} :
                                        e # <<Unset, Unset>> /\ dated}}
          \cup {<<"month", m>> : m \in {n \in applied.months : dated /\ n = Sitting[x].month}}
          \cup {<<"meeting", y>> : y \in applied.meetings \cap {x}}
          \cup {<<"participant", p>> : p \in {q \in applied.participants :
                                              x \in known /\ q \in Sitting[x].present}}
  IN  IF reasons = {} THEN {<<"confidence", Note[i].confidence>>} ELSE reasons

\* The utterances around it that can be read, or itself alone.
Window(i, size, lines) ==
  LET at == Note[i].index
  IN  IF at >= lines THEN {at} ELSE Max({0, at - size}) .. Min({lines - 1, at + size})

------------------------------------------------------------------------------
(* One search *)
NoHunt ==
  [state |-> "idle", query |-> Anything, since |-> 0, meetings |-> {}, applied |-> Anything,
   ranked |-> <<>>, components |-> <<>>, page |-> <<>>, reasons |-> <<>>,
   lines |-> [x \in Meetings |-> Unset], windows |-> <<>>]

RetrievalInit ==
  /\ \E ms, ns \in (SUBSET Meetings) \ {{}} :
       shelf = [meetings |-> ms, notes |-> {i \in Notes : Note[i].meeting \in ns},
                status |-> [i \in Notes |-> "active"],
                lines |-> [x \in Meetings |-> Sitting[x].lines]]
  /\ \A i \in shelf.notes : Note[i].meeting \in shelf.meetings
  /\ writes = 0 /\ hunt = NoHunt

\* list_meetings
ListKnown(q) ==
  /\ hunt.state = "idle"
  /\ hunt' = [hunt EXCEPT !.state = "listed", !.query = q, !.since = writes,
                          !.meetings = shelf.meetings]
  /\ UNCHANGED <<shelf, writes>>

\* Names of the speakers are read from all memories.
PlanQuery ==
  /\ hunt.state = "listed"
  /\ hunt' = [hunt EXCEPT !.state = "planned",
                !.applied = Plan(hunt.query, {Note[i].speaker : i \in shelf.notes},
                                 UNION {Sitting[x].present : x \in hunt.meetings})]
  /\ UNCHANGED <<shelf, writes>>

\* query; the rest works on what it returned.
Rank ==
  /\ hunt.state = "planned"
  /\ LET known == hunt.meetings
         candidates == {i \in Rows(hunt.applied) : Matches(i, hunt.applied, known)}
         components == [i \in candidates |-> Components(i, hunt.applied, candidates, known)]
         score == [i \in candidates |-> Score(components[i])]
         before == {p \in candidates \X candidates :
                      Precedes(hunt.query.order, known, score, p[1], p[2])}
         ranked == Arranged(candidates, before)
         last == Min({Len(ranked), hunt.query.offset + hunt.query.limit})
     IN  hunt' = [hunt EXCEPT !.state = "ranked", !.ranked = ranked, !.components = components,
                    !.page = SubSeq(ranked, hunt.query.offset + 1, last),
                    !.reasons = [i \in candidates |-> Reasons(i, hunt.applied, known)]]
  /\ UNCHANGED <<shelf, writes>>

\* _utterances: how much can be read, if not known from an earlier hit.
LinesOf(x) ==
  IF hunt.lines[x] # Unset THEN hunt.lines[x]
  ELSE IF x \in hunt.meetings THEN shelf.lines[x] ELSE 0

\* assemble, for one hit of the page after the other.
ToQuote == Len(hunt.windows) + 1
Quote ==
  /\ hunt.state = "ranked" /\ ToQuote \in DOMAIN hunt.page
  /\ LET i == hunt.page[ToQuote]
         x == Note[i].meeting
     IN  hunt' = [hunt EXCEPT !.lines[x] = LinesOf(x),
                    !.windows = Append(@, Window(i, hunt.query.window, LinesOf(x)))]
  /\ UNCHANGED <<shelf, writes>>

Return ==
  /\ hunt.state = "ranked" /\ ToQuote \notin DOMAIN hunt.page
  /\ hunt' = [hunt EXCEPT !.state = "done", !.lines = NoHunt.lines]
  /\ UNCHANGED <<shelf, writes>>
------------------------------------------------------------------------------
(* Properties *)
\* Of two hits ranked by relevance, the one that is at least as good in every
\* respect and newer, or as new but created later, comes first, whatever was
\* written while the search ran: no weight, no missing date and no meeting
\* imported meanwhile turns the order around.
BestFirst ==
  hunt.state \in {"ranked", "done"} /\ hunt.query.order = "relevance" =>
    LET at(k) == hunt.ranked[k]
        part(k) == hunt.components[at(k)]
        date(k) == DateIn(at(k), hunt.meetings)
    IN  \A k, l \in DOMAIN hunt.ranked :
          /\ k < l
          /\ \A c \in DOMAIN Weight \ {"recency"} : part(l)[c] >= part(k)[c]
          => \/ date(l) < date(k)
             \/ date(l) = date(k) /\ Note[at(l)].created <= Note[at(k)].created

\* Every condition of the plan is among the reasons given for every hit, but for
\* a bound on dates when the meeting was imported while the search ran and for an
\* upper bound on the confidence, which has no reason of its own; the quoted
\* utterances surround the memory's own.
HitsExplained ==
  hunt.state = "done" =>
    \A k \in DOMAIN hunt.page :
      LET i == hunt.page[k]
          q == hunt.applied
          given == hunt.reasons[i]
          kinds == {r[1] : r \in given}
      IN  /\ \A w \in ToSet(q.text) : <<"keyword", w>> \in given
          /\ \A p \in q.participants : <<"participant", p>> \in given
          /\ (q.types = {} \/ "type" \in kinds) /\ (q.speakers = {} \/ "speaker" \in kinds)
          /\ (q.statuses = {} \/ "status" \in kinds) /\ (q.meetings = {} \/ "meeting" \in kinds)
          /\ (q.low = Unset \/ "confidence" \in kinds) /\ (q.months = {} \/ "month" \in kinds)
          /\ (q.from = Unset /\ q.to = Unset) \/ "range" \in kinds
               \/ Note[i].meeting \notin hunt.meetings
          /\ given # {}
          /\ Note[i].index \in hunt.windows[k]
          /\ \A a, b \in hunt.windows[k] : a .. b \subseteq hunt.windows[k]
==============================================================================
