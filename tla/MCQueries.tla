------------------------------- MODULE MCQueries -------------------------------
(***************************************************************************)
(* The parts that read and compute: a behaviour is one call of simulate,   *)
(* the traffic at the front doors, a histogram in use, some memory         *)
(* profiles, or a search and a replay.                                     *)
(*                                                                         *)
(* The calendar has hours of two minutes, days of two hours, months of     *)
(* three, two and three days and weeks of seven, and lasts three years.    *)
(***************************************************************************)
EXTENDS Scheduler, FrontDoors, Observability, Replay

CONSTANTS t1, t2, risk, task, s1, s2

MCMinuteOf == [t \in Time |-> t % 2]
MCHourOf == [t \in Time |-> (t \div 2) % 2]
DayOfYear(t) == (t \div 4) % 8
MCMonthOf == [t \in Time |-> IF DayOfYear(t) < 3 THEN 1 ELSE IF DayOfYear(t) < 5 THEN 2 ELSE 3]
FirstDay == <<0, 3, 5, 8>>
MCDayOf == [t \in Time |-> DayOfYear(t) - FirstDay[MCMonthOf[t]] + 1]
MCWeekdayOf == [t \in Time |-> (t \div 4) % 7]
MCNextHour == [t \in Time |-> (t \div 2 + 1) * 2]
MCNextDay == [t \in Time |-> (t \div 4 + 1) * 4]
MCNextMonth ==
  [t \in Time |-> (t \div 4 - DayOfYear(t) + FirstDay[MCMonthOf[t] + 1]) * 4]
MCFieldBounds == <<<<0, 1>>, <<0, 1>>, <<1, 3>>, <<1, 3>>, <<0, 6>>>>

Token(from, to, step) == [any |-> FALSE, from |-> from, to |-> to, slash |-> step # 1, step |-> step]
Value(v) == Token(v, v, 1)
Each(step) == [Star EXCEPT !.slash = TRUE, !.step = step]

\* Among them: the third of the month that has two days, both day fields
\* restricted, `*/1` (no wildcard), steps and lists; values out of range, a
\* range upside down, a step of zero, a missing field.
Expressions ==
  {<<minute, hour, day, month, weekday>> :
     minute \in {<<Star>>, <<Value(1)>>},
     hour \in {<<Star>>, <<Value(0)>>},
     day \in {<<Star>>, <<Value(3)>>, <<Each(1)>>, <<Value(1), Token(2, 3, 1)>>},
     month \in {<<Star>>, <<Value(2)>>, <<Token(1, 3, 2)>>},
     weekday \in {<<Star>>, <<Value(0)>>, <<Token(1, 5, 3)>>}}
    \cup {<<<<bad>>, <<Star>>, <<Star>>, <<Star>>, <<Star>>>> :
            bad \in {Value(2), Token(1, 0, 1), Each(0)}}
    \cup {<<<<Star>>, <<Star>>, <<Star>>, <<Star>>>>}

At(minute, aware) == [minute |-> minute, aware |-> aware, valid |-> TRUE]
MCSchedule ==
  [frequency : {"cron"}, expression : Expressions \cup {NULL}, at : {NULL}]
    \cup [frequency : {"manual", "hourly", "daily", "weekly"}, expression : {NULL}, at : {NULL}]
    \cup [frequency : {"once"}, expression : {NULL},
          at : {NULL, At(5, FALSE), At(20, TRUE), [At(5, FALSE) EXCEPT !.valid = FALSE]}]
MCStarts == {[minute |-> 2, aware |-> FALSE], [minute |-> 9, aware |-> TRUE],
             [minute |-> 15, aware |-> FALSE]}

MCCounts == {-1, 0, 3}

\* The first transcript names no meeting, the second names s1.
MCYields == (t1 :> {risk, task}) @@ (t2 :> {task})
MCNameIn == (t1 :> None) @@ (t2 :> s1)
MCDateRank == (s2 :> 1) @@ ("upload" :> 2) @@ (s1 :> 3)
MCPathRank == (s2 :> 2) @@ ("upload" :> 3) @@ (s1 :> 1)
Transcript(text, stem) == [text |-> text, stem |-> stem, supported |-> TRUE, nested |-> FALSE]
File(text) == [connector |-> "file", opens |-> TRUE, files |-> {Transcript(text, s2)}]
MCPath ==
  {File(t1), File("binary"), File("missing"), File("garbled"),
   [connector |-> "directory", opens |-> TRUE,
    files |-> {Transcript("garbled", s2), [Transcript(t1, s1) EXCEPT !.nested = TRUE],
               [Transcript(t2, "upload") EXCEPT !.supported = FALSE]}],
   [connector |-> "archive", opens |-> FALSE, files |-> {}],
   [connector |-> "archive", opens |-> TRUE, files |-> {Transcript(t2, s2)}],
   [connector |-> None, opens |-> TRUE, files |-> {}]}
MCTypeOrder == <<risk, task>>

Meeting(date, created, present, title) ==
  [date |-> date, month |-> date, present |-> present, title |-> title, lines |-> 3, created |-> created]
MCSitting == <<Meeting(2, 1, {"ann"}, {"plan"}), Meeting(1, 3, {"ann", "bob"}, {"budget"}),
               Meeting(0, 2, {}, {"budget"}), Meeting(1, 4, {"bob"}, {})>>
Memory(meeting, index, type, speaker, said, confidence, created) ==
  [meeting |-> meeting, index |-> index, type |-> type, speaker |-> speaker, said |-> said,
   confidence |-> confidence, created |-> created]
MCNote == <<Memory(1, 2, "risk", "ann", <<"budget", "plan">>, 54, 1),
            Memory(1, 0, "open_loop", "bob", <<"plan", "budget">>, 48, 2),
            Memory(2, 1, "risk", "bob", <<"plan">>, 54, 5),
            Memory(3, 0, "risk", "eve", <<"budget", "plan">>, 54, 3),
            Memory(4, 2, "risk", "ann", <<"plan">>, 30, 6)>>
Entry(class, value) == [class |-> class, value |-> value]
MCLexicon == [risk |-> Entry("type", "risk"), active |-> Entry("status", "active"),
  june |-> Entry("month", 1), the |-> Entry("stop", ""), open |-> Entry("open", ""),
  loops |-> Entry("loop", ""), budget |-> Entry("other", ""), plan |-> Entry("other", ""),
  ann |-> Entry("other", ""), bob |-> Entry("other", "")]
Say(text) == [Anything EXCEPT !.text = text]
Texts == {<<>>, <<"budget">>, <<"the", "budget", "plan">>, <<"plan", "open", "loops">>, <<"risk", "bob">>,
          <<"active", "ann", "june">>, <<"open", "risk">>}
MCErrand ==
  {[query |-> Between(from, to, Anything), filter |-> ReplayRange(from, to)] :
      from \in {Unset, 1, 2}, to \in {Unset, 1}}
  \cup {[query |-> Say(text), filter |-> ReplayProject("plan")] : text \in Texts}
  \cup {[query |-> [Anything EXCEPT !.speakers = {p}], filter |-> ReplayPerson(p)] : p \in {"ann", "eve"}}
  \cup {[query |-> Latest(2, Anything), filter |-> ReplayDate(1)],
        [query |-> Oldest(1, [Anything EXCEPT !.offset = 1]), filter |-> ReplayAll],
        [query |-> Before(1, [Anything EXCEPT !.low = 50]), filter |-> ReplayAll],
        [query |-> After(2, [Anything EXCEPT !.high = 50]), filter |-> ReplayAll],
        [query |-> [Anything EXCEPT !.meetings = {2, 3}, !.participants = {"bob"}], filter |-> ReplayAll],
        [query |-> [Anything EXCEPT !.statuses = {"active"}, !.window = 0], filter |-> ReplayAll]}

------------------------------------------------------------------------------
NoTraffic ==
  /\ db = [meetings |-> [x \in MeetingName |-> None], memories |-> {}, graph |-> {}]
  /\ journals = [j \in {"jobs", "logs"} |-> TRUE]
  /\ session = [c \in Caller |-> Idle]
  /\ tour = [stage |-> "closed", offset |-> 0, seen |-> {}, wanted |-> {}]

NoSimulation ==
  /\ schedule = CHOOSE s \in Schedule : s.frequency = "manual"
  /\ start \in {s \in Starts : s.minute = 2}
  /\ count = 0 /\ runs = <<>> /\ cursor = 2 /\ candidate = 2 /\ state = "done"

NoMetrics ==
  /\ registry = 0 /\ samples = <<>> /\ held = <<>> /\ current = {} /\ observed = <<>>
  /\ changes = 0 /\ scrape = [NoScrape EXCEPT !.state = "none"]
  /\ outer = FALSE /\ tracing = FALSE /\ profile = [w \in Worker |-> [NotProfiled EXCEPT !.state = "none"]]
NoRetrieval ==
  /\ shelf = [meetings |-> {}, notes |-> {}, status |-> <<>>, lines |-> <<>>]
  /\ writes = MaxWrites /\ hunt = [state |-> "none"] /\ play = NoPlay

\* The memories of at least three of the four meetings are stored.
SomeRetrieval == ReplayInit /\ Cardinality({Note[i].meeting : i \in shelf.notes}) >= 3

MCInit ==
  \/ SchedulerInit /\ NoTraffic /\ NoMetrics /\ NoRetrieval
  \/ NoSimulation /\ FrontInit /\ NoMetrics /\ NoRetrieval
  \/ NoSimulation /\ NoTraffic /\ (MetricsInit \/ ProfileInit) /\ NoRetrieval
  \/ NoSimulation /\ NoTraffic /\ NoMetrics /\ SomeRetrieval
MCNext ==
  \/ SchedulerNext /\ UNCHANGED <<frontVars, observabilityVars, replayVars>>
  \/ /\ tour.stage # "closed" /\ FrontNext
     /\ UNCHANGED <<schedulerVars, observabilityVars, replayVars>>
  \/ ObservabilityNext /\ UNCHANGED <<schedulerVars, frontVars, replayVars>>
  \/ /\ hunt.state # "none" /\ ReplayNext
     /\ UNCHANGED <<schedulerVars, frontVars, observabilityVars>>
MCSpec ==
  MCInit /\ [][MCNext]_<<schedulerVars, frontVars, observabilityVars, replayVars>>
==============================================================================
