---------------------------- MODULE QueriesProofs ----------------------------
(***************************************************************************)
(* Proofs about the parts that read and compute.  Scheduler: every         *)
(* calendar, every schedule, every moment and any number of runs.          *)
(* FrontDoors: a walk over the pages, with any number of callers, requests *)
(* and meetings and pages of any size, and what requests may fail with.    *)
(* Observability: memory profiles,                                         *)
(* whatever the number of threads.  Retrieval and Replay: any shelf, query *)
(* and filter, and any number of changes while they run.                   *)
(***************************************************************************)
EXTENDS Scheduler, FrontDoors, Observability, Replay, SequenceTheorems, OrderingProofs

------------------------------------------------------------------------------
(* Scheduler *)
States == {"ask", "cron", "weekly", "done", "ScheduleError", "TypeError"}

LEMMA CalendarFields ==
  /\ LastMinute \in Nat /\ Horizon \in Nat /\ Time = 0 .. LastMinute
  /\ NextHour \in [Time -> Nat] /\ NextDay \in [Time -> Nat] /\ NextMonth \in [Time -> Nat]
BY CalendarAssumption DEF Time

LEMMA MinuteBefore ==
  ASSUME NEW t \in Nat, NEW u \in Nat, t < u, u <= LastMinute
  PROVE  u - 1 \in Time /\ t <= u - 1 /\ u - 1 < u /\ u > 0
BY CalendarFields

\* What a unit's length means, minute by minute.
LEMMA Later ==
  ASSUME NEW t \in Time
  PROVE  t < NextHour[t] /\ t < NextDay[t] /\ t < NextMonth[t]
BY CalendarAssumption DEF Lasts

LEMMA SameHour ==
  ASSUME NEW t \in Time, NEW u \in Time, t <= u, u < NextHour[t]
  PROVE  NextHour[u] = NextHour[t] /\ HourOf[u] = HourOf[t]
BY CalendarAssumption DEF Lasts

LEMMA SameDay ==
  ASSUME NEW t \in Time, NEW u \in Time, t <= u, u < NextDay[t]
  PROVE  /\ NextDay[u] = NextDay[t]
         /\ DayOf[u] = DayOf[t] /\ WeekdayOf[u] = WeekdayOf[t]
BY CalendarAssumption DEF Lasts

LEMMA SameMonth ==
  ASSUME NEW t \in Time, NEW u \in Time, t <= u, u < NextMonth[t]
  PROVE  MonthOf[u] = MonthOf[t]
BY CalendarAssumption DEF Lasts

\* Between a minute and where its unit's successor begins, no unit begins; and
\* that is where one does.
LEMMA NextIsFirst ==
  ASSUME NEW next \in {NextHour, NextDay}, NEW t \in Time
  PROVE  /\ \A u \in Time : t < u /\ u < next[t] => ~Begins(next, u)
         /\ next[t] \in Time => Begins(next, next[t])
<1>1. next \in [Time -> Nat] /\ t < next[t] /\ next[t] \in Nat
  BY CalendarFields, Later
<1>a. \A u \in Time : u \in Nat /\ u <= LastMinute
  BY CalendarFields
<1>2. ASSUME NEW u \in Time, t <= u, u < next[t]
      PROVE  next[u] = next[t]
  BY <1>2, SameHour, SameDay
<1>3. ASSUME NEW u \in Time, t < u, u < next[t]
      PROVE  ~Begins(next, u)
  <2>1. u - 1 \in Time /\ t <= u - 1 /\ u - 1 < next[t]
    <3>1. u \in Nat /\ t \in Nat /\ u <= LastMinute /\ LastMinute \in Nat
      BY <1>a, <1>3, CalendarFields
    <3> QED
      BY <3>1, <1>1, <1>3, CalendarFields
  <2>2. next[u - 1] = next[t]
    BY <2>1, <1>2
  <2> QED
    BY <2>2, <1>1, <1>3, CalendarFields DEF Begins
<1>4. ASSUME next[t] \in Time
      PROVE  Begins(next, next[t])
  <2>1. next[t] - 1 \in Time /\ t <= next[t] - 1 /\ next[t] - 1 < next[t] /\ next[t] > 0
    <3>1. t \in Nat /\ next[t] <= LastMinute /\ LastMinute \in Nat
      BY <1>a, <1>4, CalendarFields
    <3> QED
      BY <3>1, <1>1, MinuteBefore
  <2> QED
    BY <2>1, <1>2 DEF Begins
<1> QED
  BY <1>3, <1>4

------------------------------------------------------------------------------
(* Types *)
LEMMA TypeInit == SchedulerInit => SchedulerTypeOK
BY CallAssumption DEF SchedulerInit, SchedulerTypeOK, Time

\* The two ways in which an action ends a step.
LEMMA ListsTypes ==
  ASSUME SchedulerTypeOK, NEW m, Lists(m), candidate' \in Nat,
         UNCHANGED <<schedule, start, count>>
  PROVE  SchedulerTypeOK'
BY DEF SchedulerTypeOK, Lists

LEMMA EndsTypes ==
  ASSUME SchedulerTypeOK, NEW outcome \in States, Ends(outcome),
         UNCHANGED <<schedule, start, count>>
  PROVE  SchedulerTypeOK'
BY DEF SchedulerTypeOK, Ends, States

LEMMA JumpTypes ==
  ASSUME SchedulerTypeOK, NEW to \in Nat, candidate' = to,
         state' \in States, UNCHANGED <<runs, cursor>>,
         UNCHANGED <<schedule, start, count>>
  PROVE  SchedulerTypeOK'
BY DEF SchedulerTypeOK, States

\* While the search goes on, the candidate is a minute of the calendar.
LEMMA CandidateInTime ==
  ASSUME SchedulerTypeOK, candidate <= cursor + Horizon, cursor + Horizon <= LastMinute
  PROVE  candidate \in Time
BY CalendarFields DEF SchedulerTypeOK

\* A search begins only where the calendar covers its horizon (the bound of
\* AskCron), so each minute it looks at has its fields.
WithinCalendar == state = "cron" => cursor + Horizon <= LastMinute

LEMMA TypeStep ==
  ASSUME SchedulerTypeOK, WithinCalendar, SchedulerNext
  PROVE  SchedulerTypeOK'
<1> SUFFICES ASSUME UNCHANGED <<schedule, start, count>>
             PROVE  SchedulerTypeOK'
  BY DEF SchedulerNext
<1>c. cursor \in Time /\ cursor \in Nat /\ candidate \in Nat
  BY CalendarFields DEF SchedulerTypeOK
<1>e. ASSUME NEW outcome \in States, Ends(outcome)
      PROVE  SchedulerTypeOK'
  BY <1>e, EndsTypes
<1>l. ASSUME NEW m, Lists(m), UNCHANGED candidate
      PROVE  SchedulerTypeOK'
  BY <1>l, <1>c, ListsTypes
<1>1. CASE AskManual \/ Finish \/ Refuse
  BY <1>1, <1>e DEF AskManual, Finish, Refuse, States
<1>2. CASE AskOnce
  BY <1>2, <1>e, <1>l DEF AskOnce, States
<1>3. CASE AskHourly \/ AskDaily \/ Found
  BY <1>3, <1>l DEF AskHourly, AskDaily, Found
<1>4. CASE AskWeekly
  <2>1. NextDay[cursor] \in Nat
    BY <1>c, CalendarFields
  <2> QED
    BY <1>4, <2>1, JumpTypes DEF AskWeekly, States
<1>5. CASE NextWeekly
  <2>1. CASE Lists(candidate) /\ UNCHANGED candidate
    BY <2>1, <1>l
  <2>2. CASE candidate' = NextDay[candidate] /\ UNCHANGED <<runs, cursor, state>>
    <3>1. NextDay[candidate] \in Nat /\ state' \in States
      BY <1>5, <2>2, CalendarFields DEF NextWeekly, States
    <3> QED
      BY <2>2, <3>1, JumpTypes
  <2> QED
    BY <1>5, <2>1, <2>2 DEF NextWeekly
<1>6. CASE AskCron
  <2>1. CASE Ends("ScheduleError")
    BY <2>1, <1>e DEF States
  <2>2. CASE state' = "cron" /\ candidate' = cursor + 1 /\ UNCHANGED <<runs, cursor>>
    <3>1. cursor + 1 \in Nat
      BY <1>c
    <3> QED
      BY <2>2, <3>1, JumpTypes DEF States
  <2> QED
    BY <1>6, <2>1, <2>2 DEF AskCron
<1>7. CASE SkipMonth \/ SkipDay \/ SkipHour \/ SkipMinute
  <2>1. Searching
    BY <1>7 DEF SkipMonth, SkipDay, SkipHour, SkipMinute
  <2>2. candidate \in Time
    BY <2>1, CandidateInTime DEF Searching, WithinCalendar
  <2>3. /\ candidate + 1 \in Nat
        /\ NextMonth[candidate] \in Nat
        /\ NextDay[candidate] \in Nat
        /\ NextHour[candidate] \in Nat
    BY <2>2, <1>c, CalendarFields
  <2>4. ASSUME NEW to \in Nat, Jump(to)
        PROVE  SchedulerTypeOK'
    BY <2>1, <2>4, JumpTypes DEF Searching, Jump, States
  <2> QED
    BY <1>7, <2>3, <2>4 DEF SkipMonth, SkipDay, SkipHour, SkipMinute
<1>8. CASE GiveUp
  BY <1>8, <1>e DEF GiveUp, States
<1> QED
  BY <1>1, <1>2, <1>3, <1>4, <1>5, <1>6, <1>7, <1>8 DEF SchedulerNext

------------------------------------------------------------------------------
(***************************************************************************)
(* The inductive invariant.  Behind the candidate nothing is due that is   *)
(* not listed: a jump passes only minutes that share with the candidate    *)
(* the field that does not match.                                          *)
(***************************************************************************)
NoneDue(limit) == \A t \in Time : cursor < t /\ t < limit => ~Due(t)

CronSearch ==
  state = "cron" =>
    /\ schedule.frequency = "cron" /\ Parses(schedule.expression)
    /\ cursor < candidate
    /\ NoneDue(candidate)

WeeklySearch ==
  state = "weekly" =>
    /\ schedule.frequency = "weekly"
    /\ cursor < candidate
    /\ NoneDue(candidate)
    /\ candidate \in Time => Begins(NextDay, candidate)

CursorLatest == start.minute <= cursor /\ \A i \in DOMAIN runs : runs[i] <= cursor

IInv ==
  /\ SchedulerTypeOK
  /\ WithinCalendar
  /\ RunsExact
  /\ RunsIncrease
  /\ CursorLatest
  /\ CronSearch
  /\ WeeklySearch

LEMMA InitInv == SchedulerInit => IInv
<1> SUFFICES ASSUME SchedulerInit PROVE IInv
  OBVIOUS
<1>1. SchedulerTypeOK
  BY TypeInit
<1>2. state = "ask" /\ runs = <<>> /\ cursor = start.minute
  BY DEF SchedulerInit
<1>3. cursor \in Int
  BY <1>1, CalendarFields DEF SchedulerTypeOK
<1>4. RunTimes = {}
  BY <1>2 DEF RunTimes
<1>5. RunsExact
  BY <1>2, <1>3, <1>4 DEF RunsExact
<1>6. RunsIncrease /\ CursorLatest
  BY <1>2, <1>3 DEF RunsIncrease, CursorLatest
<1> QED
  BY <1>1, <1>2, <1>5, <1>6 DEF IInv, WithinCalendar, CronSearch, WeeklySearch

\* What is due depends on the schedule and the calendar alone.
LEMMA DueStable ==
  ASSUME UNCHANGED schedule
  PROVE  /\ \A t : Due(t)' <=> Due(t)
         /\ Recurring' <=> Recurring
BY DEF Due, CronMatches, MonthMatches, DayMatches, HourMatches, MinuteMatches, Begins,
       Recurring, Parses, Values, Wildcard, TokenValues, BadToken, LowEnd, HighEnd

\* A run that is due, with none due before it, keeps the list exact.
LEMMA ListingExact ==
  ASSUME IInv, NEW m \in Time, Lists(m), cursor < m,
         Recurring, Due(m), NoneDue(m), UNCHANGED <<schedule, start, count>>
  PROVE  RunsExact'
<1>1. runs \in Seq(Time) /\ cursor \in Time /\ start.minute \in Int /\ start.minute <= cursor
  BY CallAssumption, CalendarFields DEF IInv, SchedulerTypeOK, CursorLatest
<1>0. m \in Int /\ cursor \in Int /\ start.minute \in Int /\ start.minute < m
  BY <1>1, CalendarFields
<1>2. RunTimes = {t \in start.minute + 1 .. cursor : Due(t)}
  BY DEF IInv, RunsExact
<1>3. RunTimes' = RunTimes \cup {m}
  BY <1>1 DEF RunTimes, Lists
<1>4. RunTimes' = {t \in start.minute + 1 .. m : Due(t)}
  <2>1. ASSUME NEW t \in start.minute + 1 .. m, Due(t)
        PROVE  t \in RunTimes \cup {m}
    <3>1. t \in Int /\ start.minute < t /\ t <= m /\ cursor \in Int /\ m \in Int
      BY <1>1, CalendarFields
    <3>2. CASE t <= cursor
      <4>1. t \in start.minute + 1 .. cursor
        BY <3>1, <3>2, <1>1
      <4> QED
        BY <4>1, <2>1, <1>2
    <3>3. CASE cursor < t /\ t < m
      <4>1. t \in Time
        BY <3>1, <3>3, <1>1, CalendarFields
      <4> QED
        BY <4>1, <3>3, <2>1 DEF NoneDue
    <3>4. CASE t = m
      BY <3>4
    <3> QED
      BY <3>1, <3>2, <3>3, <3>4
  <2>2. ASSUME NEW t \in RunTimes \cup {m}
        PROVE  t \in start.minute + 1 .. m /\ Due(t)
    <3>1. CASE t \in RunTimes
      <4>1. t \in start.minute + 1 .. cursor /\ Due(t)
        BY <3>1, <1>2
      <4> QED
        BY <4>1, <1>1, CalendarFields
    <3>2. CASE t = m
      <4>1. m \in start.minute + 1 .. m
        BY <1>0
      <4> QED
        BY <3>2, <4>1
    <3> QED
      BY <3>1, <3>2
  <2> QED
    BY <2>1, <2>2, <1>3
<1>5. state' = "ask" /\ cursor' = m /\ start' = start
  BY DEF Lists
<1> QED
  BY <1>4, <1>5, DueStable DEF RunsExact

LEMMA ListingOrdered ==
  ASSUME IInv, NEW m \in Time, Lists(m), cursor < m, UNCHANGED <<schedule, start, count>>
  PROVE  RunsIncrease' /\ CursorLatest'
<1>1. /\ runs \in Seq(Time) /\ cursor \in Int /\ m \in Int
      /\ start.minute \in Int /\ start.minute <= cursor
      /\ \A i \in DOMAIN runs : runs[i] \in Int /\ runs[i] <= cursor
  <2>1. runs \in Seq(Time) /\ cursor \in Time /\ start.minute \in Time
    BY CallAssumption DEF IInv, SchedulerTypeOK
  <2>2. \A i \in DOMAIN runs : runs[i] \in Time
    BY <2>1
  <2>3. \A t \in Time : t \in Int
    BY CalendarFields
  <2> QED
    BY <2>1, <2>2, <2>3 DEF IInv, CursorLatest
<1>2. /\ runs' = Append(runs, m) /\ cursor' = m /\ start' = start
      /\ DOMAIN runs' = DOMAIN runs \cup {Len(runs) + 1}
      /\ \A i \in DOMAIN runs : runs'[i] = runs[i]
      /\ runs'[Len(runs) + 1] = m
  BY <1>1 DEF Lists
<1>3. \A i \in DOMAIN runs' : runs'[i] <= m
  BY <1>1, <1>2
<1>4. CursorLatest'
  BY <1>1, <1>2, <1>3 DEF CursorLatest
<1>5. CASE schedule.frequency = "once" /\ schedule.at = NULL
  BY <1>5, <1>4 DEF RunsIncrease
<1>6. CASE ~(schedule.frequency = "once" /\ schedule.at = NULL)
  <2>1. /\ \A i \in DOMAIN runs : runs[i] > start.minute
        /\ \A i, j \in DOMAIN runs : i < j => runs[i] < runs[j]
    BY <1>6 DEF IInv, RunsIncrease
  <2>2. \A i \in DOMAIN runs' : runs'[i] > start'.minute
    BY <2>1, <1>1, <1>2
  <2>3. ASSUME NEW i \in DOMAIN runs', NEW j \in DOMAIN runs', i < j
        PROVE  runs'[i] < runs'[j]
    <3>1. i \in DOMAIN runs
      BY <2>3, <1>1, <1>2
    <3> QED
      BY <3>1, <2>1, <2>3, <1>1, <1>2
  <2> QED
    BY <2>2, <2>3, <1>4 DEF RunsIncrease
<1> QED
  BY <1>5, <1>6

\* A step that lists a run: the next one due, or that of a schedule that does
\* not recur.
LEMMA ListingStep ==
  ASSUME IInv, SchedulerTypeOK', NEW m \in Time, Lists(m), cursor < m,
         Recurring => Due(m) /\ NoneDue(m), UNCHANGED <<schedule, start, count>>
  PROVE  IInv'
<1>1. state' = "ask"
  BY DEF Lists
<1>2. RunsIncrease' /\ CursorLatest'
  BY ListingOrdered
<1>3. RunsExact'
  <2>1. CASE Recurring
    BY <2>1, ListingExact
  <2>2. CASE ~Recurring
    BY <2>2, <1>1, DueStable DEF RunsExact
  <2> QED
    BY <2>1, <2>2
<1> QED
  BY <1>1, <1>2, <1>3 DEF IInv, WithinCalendar, CronSearch, WeeklySearch

\* A `once` without a time lists the moment it is asked about.
LEMMA ListingNow ==
  ASSUME IInv, SchedulerTypeOK', Lists(cursor),
         schedule.frequency = "once", schedule.at = NULL,
         UNCHANGED <<schedule, start, count>>
  PROVE  IInv'
<1>1. state' = "ask" /\ cursor' = cursor /\ runs' = Append(runs, cursor) /\ start' = start
  BY DEF Lists
<1>2. RunsIncrease'
  BY <1>1 DEF RunsIncrease
<1>3. RunsExact'
  BY <1>1, DueStable DEF RunsExact, Recurring
<1>4. CursorLatest'
  <2>1. runs \in Seq(Time) /\ cursor \in Time /\ cursor <= cursor
    BY CalendarFields DEF IInv, SchedulerTypeOK
  <2>2. ASSUME NEW i \in DOMAIN runs'
        PROVE  runs'[i] <= cursor
    <3>1. (i \in DOMAIN runs /\ runs'[i] = runs[i]) \/ runs'[i] = cursor
      BY <1>1, <2>1, <2>2
    <3> QED
      BY <3>1, <2>1 DEF IInv, CursorLatest
  <2> QED
    BY <1>1, <2>2 DEF IInv, CursorLatest
<1> QED
  BY <1>1, <1>2, <1>3, <1>4 DEF IInv, WithinCalendar, CronSearch, WeeklySearch

\* A step that ends the call.
LEMMA EndingStep ==
  ASSUME IInv, SchedulerTypeOK',
         NEW outcome \in {"done", "ScheduleError", "TypeError"}, Ends(outcome),
         outcome = "ScheduleError" /\ schedule.frequency = "cron" /\ count >= 0 =>
           \A t \in cursor + 1 .. cursor + Horizon : t \in Time => ~Due(t),
         UNCHANGED <<schedule, start, count>>
  PROVE  IInv'
<1>1. /\ state' = outcome /\ runs' = runs /\ cursor' = cursor /\ start' = start
      /\ schedule' = schedule /\ count' = count
  BY DEF Ends
<1>2. RunTimes' = RunTimes
  BY <1>1 DEF RunTimes
<1>3. RunsExact'
  BY <1>1, <1>2, DueStable DEF IInv, RunsExact
<1>4. RunsIncrease' /\ CursorLatest'
  BY <1>1 DEF IInv, RunsIncrease, CursorLatest
<1> QED
  BY <1>1, <1>3, <1>4 DEF IInv, WithinCalendar, CronSearch, WeeklySearch

\* A step of a search: nothing that is due is passed.
LEMMA SearchingStep ==
  ASSUME IInv, SchedulerTypeOK',
         NEW to \in Nat, candidate' = to, state' \in {"cron", "weekly"},
         UNCHANGED <<runs, cursor>>, UNCHANGED <<schedule, start, count>>,
         schedule.frequency = state', cursor < to, NoneDue(to),
         state' = "cron" => Parses(schedule.expression) /\ cursor + Horizon <= LastMinute,
         state' = "weekly" /\ to \in Time => Begins(NextDay, to)
  PROVE  IInv'
<1>1. RunTimes' = RunTimes
  BY DEF RunTimes
<1>2. RunsExact'
  BY <1>1, DueStable DEF IInv, RunsExact
<1>3. RunsIncrease' /\ CursorLatest'
  BY DEF IInv, RunsIncrease, CursorLatest
<1>4. NoneDue(candidate)'
  BY DueStable DEF NoneDue
<1>5. Parses(schedule.expression)' <=> Parses(schedule.expression)
  BY DEF Parses, BadToken, LowEnd, HighEnd
<1>6. Begins(NextDay, candidate)' <=> Begins(NextDay, to)
  BY DEF Begins
<1>7. CronSearch'
  BY <1>4, <1>5 DEF CronSearch
<1>8. WeeklySearch'
  BY <1>4, <1>6 DEF WeeklySearch
<1>9. WithinCalendar'
  BY DEF WithinCalendar
<1> QED
  BY <1>2, <1>3, <1>7, <1>8, <1>9 DEF IInv

------------------------------------------------------------------------------
(* A jump passes no due minute: the field that did not match stays. *)
LEMMA JumpPassesNothing ==
  ASSUME IInv, Searching, NEW to \in Nat,
         \/ SkipMonth /\ to = NextMonth[candidate]
         \/ SkipDay /\ to = NextDay[candidate]
         \/ SkipHour /\ to = NextHour[candidate]
         \/ SkipMinute /\ to = candidate + 1
  PROVE  cursor < to /\ NoneDue(to)
<1>1. candidate \in Time /\ cursor \in Time
  BY CandidateInTime DEF IInv, SchedulerTypeOK, Searching, WithinCalendar
<1>2. /\ schedule.frequency = "cron" /\ Parses(schedule.expression)
      /\ cursor < candidate /\ NoneDue(candidate)
  BY DEF IInv, CronSearch, Searching
<1>i. \A t \in Time : t \in Int
  BY CalendarFields
<1>3. candidate < to
  BY <1>1, <1>i, Later
<1>4. ASSUME NEW t \in Time, candidate <= t, t < to
      PROVE  ~Due(t)
  <2>1. SUFFICES ~CronMatches(t)
    BY <1>2 DEF Due
  <2>2. CASE SkipMonth /\ to = NextMonth[candidate]
    <3>1. MonthOf[t] = MonthOf[candidate]
      BY <1>1, <1>4, <2>2, SameMonth
    <3> QED
      BY <2>2, <3>1 DEF SkipMonth, CronMatches, MonthMatches
  <2>3. CASE SkipDay /\ to = NextDay[candidate]
    <3>1. DayOf[t] = DayOf[candidate] /\ WeekdayOf[t] = WeekdayOf[candidate]
      BY <1>1, <1>4, <2>3, SameDay
    <3> QED
      BY <2>3, <3>1 DEF SkipDay, CronMatches, DayMatches
  <2>4. CASE SkipHour /\ to = NextHour[candidate]
    <3>1. HourOf[t] = HourOf[candidate]
      BY <1>1, <1>4, <2>4, SameHour
    <3> QED
      BY <2>4, <3>1 DEF SkipHour, CronMatches, HourMatches
  <2>5. CASE SkipMinute /\ to = candidate + 1
    <3>1. t = candidate
      BY <1>1, <1>i, <1>4, <2>5
    <3> QED
      BY <2>5, <3>1 DEF SkipMinute, CronMatches
  <2> QED
    BY <2>2, <2>3, <2>4, <2>5
<1> QED
  BY <1>1, <1>2, <1>3, <1>4, <1>i DEF NoneDue

LEMMA NextStep ==
  ASSUME IInv, SchedulerNext
  PROVE  IInv'
<1>t. SchedulerTypeOK'
  BY TypeStep DEF IInv
<1>u. UNCHANGED <<schedule, start, count>>
  BY DEF SchedulerNext
<1>c. /\ cursor \in Time /\ candidate \in Nat
      /\ \A t \in Time : t \in Nat
  BY CalendarFields DEF IInv, SchedulerTypeOK
<1>l. ASSUME NEW m \in Time, Lists(m), cursor < m, Recurring => Due(m) /\ NoneDue(m)
      PROVE  IInv'
  BY <1>l, <1>t, <1>u, ListingStep
<1>e. ASSUME NEW outcome \in {"done", "TypeError"}, Ends(outcome)
      PROVE  IInv'
  BY <1>e, <1>t, <1>u, EndingStep
<1>1. CASE AskManual \/ Finish
  BY <1>1, <1>e DEF AskManual, Finish
<1>2. CASE Refuse
  <2>1. Ends("ScheduleError") /\ ~(count >= 0)
    BY <1>2, CallAssumption DEF Refuse, IInv, SchedulerTypeOK
  <2> QED
    BY <2>1, <1>t, <1>u, EndingStep
<1>3. CASE AskOnce
  <2>1. schedule.frequency = "once" /\ ~Recurring
    BY <1>3 DEF AskOnce, Asked, Recurring
  <2>2. CASE schedule.at = NULL /\ Lists(cursor)
    BY <2>1, <2>2, <1>t, <1>u, ListingNow
  <2>3. CASE Ends("ScheduleError")
    BY <2>1, <2>3, <1>t, <1>u, EndingStep
  <2>4. CASE Ends("TypeError") \/ Ends("done")
    BY <2>4, <1>e
  <2>5. CASE schedule.at.minute > cursor /\ Lists(schedule.at.minute)
    <3>1. schedule.at.minute \in Time
      BY <2>5 DEF Lists
    <3> QED
      BY <3>1, <2>1, <2>5, <1>l, <1>c
  <2> QED
    BY <1>3, <2>2, <2>3, <2>4, <2>5 DEF AskOnce
<1>4. CASE AskHourly
  <2>1. Lists(NextHour[cursor]) /\ NextHour[cursor] \in Time /\ schedule.frequency = "hourly"
    BY <1>4 DEF AskHourly, Asked, Lists
  <2>2. cursor < NextHour[cursor]
    BY <1>c, Later
  <2>3. Due(NextHour[cursor])
    BY <2>1, <1>c, NextIsFirst DEF Due
  <2>4. NoneDue(NextHour[cursor])
    BY <2>1, <1>c, NextIsFirst DEF Due, NoneDue
  <2> QED
    BY <2>1, <2>2, <2>3, <2>4, <1>l
<1>5. CASE AskDaily
  <2>1. Lists(NextDay[cursor]) /\ NextDay[cursor] \in Time /\ schedule.frequency = "daily"
    BY <1>5 DEF AskDaily, Asked, Lists
  <2>2. cursor < NextDay[cursor]
    BY <1>c, Later
  <2>3. Due(NextDay[cursor])
    BY <2>1, <1>c, NextIsFirst DEF Due
  <2>4. NoneDue(NextDay[cursor])
    BY <2>1, <1>c, NextIsFirst DEF Due, NoneDue
  <2> QED
    BY <2>1, <2>2, <2>3, <2>4, <1>l
<1>6. CASE AskWeekly
  <2>1. /\ schedule.frequency = "weekly" /\ state' = "weekly"
        /\ candidate' = NextDay[cursor] /\ UNCHANGED <<runs, cursor>>
    BY <1>6 DEF AskWeekly, Asked
  <2>2. NextDay[cursor] \in Nat /\ cursor < NextDay[cursor]
    BY <1>c, Later, CalendarFields
  <2>3. NoneDue(NextDay[cursor])
    BY <2>1, <1>c, NextIsFirst DEF Due, NoneDue
  <2>4. NextDay[cursor] \in Time => Begins(NextDay, NextDay[cursor])
    BY <1>c, NextIsFirst
  <2> QED
    BY <2>1, <2>2, <2>3, <2>4, <1>t, <1>u, SearchingStep
<1>7. CASE NextWeekly
  <2>1. /\ schedule.frequency = "weekly" /\ state = "weekly" /\ candidate \in Time
        /\ cursor < candidate /\ NoneDue(candidate) /\ Begins(NextDay, candidate)
    BY <1>7 DEF NextWeekly, IInv, WeeklySearch
  <2>2. CASE WeekdayOf[candidate] = 0 /\ Lists(candidate)
    <3>1. Due(candidate)
      BY <2>1, <2>2 DEF Due
    <3> QED
      BY <2>1, <2>2, <3>1, <1>l
  <2>3. CASE /\ WeekdayOf[candidate] # 0 /\ candidate' = NextDay[candidate]
             /\ UNCHANGED <<runs, cursor, state>>
    <3>1. NextDay[candidate] \in Nat /\ candidate < NextDay[candidate]
      BY <2>1, Later, CalendarFields
    <3>2. cursor < NextDay[candidate]
      BY <2>1, <3>1, <1>c
    <3>3. ~Due(candidate)
      BY <2>1, <2>3 DEF Due
    <3>4. \A t \in Time : candidate < t /\ t < NextDay[candidate] => ~Due(t)
      BY <2>1, NextIsFirst DEF Due
    <3>5. NoneDue(NextDay[candidate])
      BY <2>1, <3>3, <3>4, <1>c DEF NoneDue
    <3>6. NextDay[candidate] \in Time => Begins(NextDay, NextDay[candidate])
      BY <2>1, NextIsFirst
    <3> QED
      BY <2>1, <2>3, <3>1, <3>2, <3>5, <3>6, <1>t, <1>u, SearchingStep
  <2> QED
    BY <1>7, <2>2, <2>3 DEF NextWeekly
<1>8. CASE AskCron
  <2>1. schedule.frequency = "cron"
    BY <1>8 DEF AskCron, Asked
  <2>2. CASE ~Parses(schedule.expression) /\ Ends("ScheduleError")
    <3>1. \A t \in Time : ~Due(t)
      BY <2>1, <2>2 DEF Due
    <3> QED
      BY <2>2, <3>1, <1>t, <1>u, EndingStep
  <2>3. CASE /\ Parses(schedule.expression) /\ cursor + Horizon <= LastMinute
             /\ state' = "cron" /\ candidate' = cursor + 1 /\ UNCHANGED <<runs, cursor>>
    <3>1. cursor + 1 \in Nat /\ cursor < cursor + 1
      BY <1>c
    <3>2. NoneDue(cursor + 1)
      BY <1>c DEF NoneDue
    <3> QED
      BY <2>1, <2>3, <3>1, <3>2, <1>t, <1>u, SearchingStep
  <2> QED
    BY <1>8, <2>2, <2>3 DEF AskCron
<1>9. CASE SkipMonth \/ SkipDay \/ SkipHour \/ SkipMinute
  <2>1. Searching
    BY <1>9 DEF SkipMonth, SkipDay, SkipHour, SkipMinute
  <2>2. /\ state = "cron" /\ schedule.frequency = "cron" /\ Parses(schedule.expression)
        /\ cursor + Horizon <= LastMinute
    BY <2>1 DEF Searching, IInv, CronSearch, WithinCalendar
  <2>3. candidate \in Time
    BY <2>1, <2>2, CandidateInTime DEF Searching, IInv
  <2>4. /\ NextMonth[candidate] \in Nat /\ NextDay[candidate] \in Nat
        /\ NextHour[candidate] \in Nat /\ candidate + 1 \in Nat
    BY <2>3, <1>c, CalendarFields
  <2>5. ASSUME NEW to \in Nat, Jump(to), cursor < to /\ NoneDue(to)
        PROVE  IInv'
    BY <2>2, <2>5, <1>t, <1>u, SearchingStep DEF Jump
  <2> QED
    BY <1>9, <2>1, <2>4, <2>5, JumpPassesNothing DEF SkipMonth, SkipDay, SkipHour, SkipMinute
<1>10. CASE Found
  <2>1. /\ candidate \in Time /\ schedule.frequency = "cron" /\ Parses(schedule.expression)
        /\ cursor < candidate /\ NoneDue(candidate)
        /\ CronMatches(candidate) /\ Lists(candidate)
    BY <1>10 DEF Found, Lists, Searching, IInv, CronSearch
  <2>2. Due(candidate)
    BY <2>1 DEF Due
  <2> QED
    BY <2>1, <2>2, <1>l
<1>11. CASE GiveUp
  <2>1. /\ NoneDue(candidate) /\ candidate > cursor + Horizon /\ Ends("ScheduleError")
    BY <1>11 DEF GiveUp, IInv, CronSearch
  <2>2. ASSUME NEW t \in cursor + 1 .. cursor + Horizon, t \in Time
        PROVE  ~Due(t)
    <3>1. cursor < t /\ t < candidate
      BY <2>1, <1>c, CalendarFields
    <3> QED
      BY <2>1, <2>2, <3>1 DEF NoneDue
  <2> QED
    BY <2>1, <2>2, <1>t, <1>u, EndingStep
<1> QED
  BY <1>1, <1>2, <1>3, <1>4, <1>5, <1>6, <1>7, <1>8, <1>9, <1>10, <1>11 DEF SchedulerNext

LEMMA StutterStep ==
  ASSUME IInv, UNCHANGED schedulerVars
  PROVE  IInv'
<1>1. UNCHANGED <<schedule, start, count, runs, cursor, candidate, state>>
  BY DEF schedulerVars
<1>2. SchedulerTypeOK' /\ WithinCalendar' /\ CursorLatest' /\ RunsIncrease'
  BY <1>1 DEF IInv, SchedulerTypeOK, WithinCalendar, CursorLatest, RunsIncrease
<1>3. RunTimes' = RunTimes
  BY <1>1 DEF RunTimes
<1>4. RunsExact'
  BY <1>1, <1>3, DueStable DEF IInv, RunsExact
<1>5. NoneDue(candidate)' <=> NoneDue(candidate)
  BY <1>1, DueStable DEF NoneDue
<1>6. Parses(schedule.expression)' <=> Parses(schedule.expression)
  BY <1>1 DEF Parses, BadToken, LowEnd, HighEnd
<1>7. Begins(NextDay, candidate)' <=> Begins(NextDay, candidate)
  BY <1>1 DEF Begins
<1>8. CronSearch' /\ WeeklySearch'
  BY <1>1, <1>5, <1>6, <1>7 DEF IInv, CronSearch, WeeklySearch
<1> QED
  BY <1>2, <1>4, <1>8 DEF IInv

LEMMA Invariance == SchedulerSpec => []IInv
<1>1. IInv /\ [SchedulerNext]_schedulerVars => IInv'
  BY NextStep, StutterStep
<1> QED
  BY <1>1, InitInv, PTL DEF SchedulerSpec

\* The runs, the cursor and the candidate are minutes, of any calendar.
THEOREM SchedulerTypeCorrect == SchedulerSpec => []SchedulerTypeOK
<1>1. IInv => SchedulerTypeOK
  BY DEF IInv
<1> QED
  BY <1>1, Invariance, PTL

\* For every calendar and expression, the jumping search of cron_next and the
\* steps of _next_hourly, _next_daily and _next_weekly list exactly the minutes
\* that are due, and cron_next gives up only when there is none to find.
THEOREM SearchIsExact == SchedulerSpec => []RunsExact
<1>1. IInv => RunsExact
  BY DEF IInv
<1> QED
  BY <1>1, Invariance, PTL

\* simulate lists runs in strictly increasing order after `start`, except for a
\* `once` without a time.
THEOREM RunsInOrder == SchedulerSpec => []RunsIncrease
<1>1. IInv => RunsIncrease
  BY DEF IInv
<1> QED
  BY <1>1, Invariance, PTL

------------------------------------------------------------------------------
(* FrontDoors: pages *)
\* The place of a meeting in a listing of all of them.
UpTo(x, known) == {y \in known : DateRank[y] <= DateRank[x]}
Place(x, known) == Cardinality(UpTo(x, known))

\* Places are numbers from one to the number of meetings, and in the order of
\* the dates.
LEMMA Places ==
  ASSUME NEW known \in SUBSET MeetingName, IsFiniteSet(known), NEW x \in known
  PROVE  /\ Cardinality(known) \in Nat
         /\ Place(x, known) \in 1 .. Cardinality(known)
         /\ \A y \in known : DateRank[y] > DateRank[x] => Place(y, known) > Place(x, known)
         /\ \A y \in known : Place(y, known) = Place(x, known) => y = x
<1>n. Cardinality(known) \in Nat
  BY FS_CardinalityType
<1>f. ASSUME NEW y \in known
      PROVE  /\ UpTo(y, known) \in SUBSET known /\ IsFiniteSet(UpTo(y, known))
             /\ Place(y, known) \in Nat /\ Place(y, known) <= Cardinality(known)
             /\ DateRank[y] \in Nat /\ y \in UpTo(y, known)
  <2>1. UpTo(y, known) \in SUBSET known
    BY DEF UpTo
  <2>2. IsFiniteSet(UpTo(y, known)) /\ Place(y, known) <= Cardinality(known)
    BY <2>1, FS_Subset DEF Place
  <2>3. Place(y, known) \in Nat
    BY <2>2, FS_CardinalityType DEF Place
  <2>4. DateRank[y] \in Nat
    BY NamesAssumption
  <2> QED
    BY <2>1, <2>2, <2>3, <2>4 DEF UpTo
<1>1. Place(x, known) # 0
  BY <1>f, FS_EmptySet DEF Place
<1>2. ASSUME NEW y \in known, DateRank[y] > DateRank[x]
      PROVE  Place(y, known) > Place(x, known)
  <2>0. DateRank[x] \in Nat /\ DateRank[y] \in Nat
    BY <1>f
  <2>1. UpTo(x, known) \in SUBSET UpTo(y, known)
    <3> SUFFICES ASSUME NEW z \in known, DateRank[z] <= DateRank[x]
                 PROVE  DateRank[z] <= DateRank[y]
      BY DEF UpTo
    <3>1. DateRank[z] \in Nat
      BY <1>f
    <3> QED
      BY <2>0, <3>1, <1>2
  <2>2. UpTo(x, known) # UpTo(y, known)
    BY <2>0, <1>2, <1>f DEF UpTo
  <2>3. /\ Place(x, known) <= Place(y, known)
        /\ Place(x, known) # Place(y, known)
    BY <1>f, <2>1, <2>2, FS_Subset DEF Place
  <2> QED
    BY <2>3, <1>f
<1>3. ASSUME NEW y \in known, Place(y, known) = Place(x, known)
      PROVE  y = x
  <2>1. ~(DateRank[y] > DateRank[x])
    BY <1>2, <1>3, <1>f
  <2>2. ~(DateRank[x] > DateRank[y])
    <3>1. SUFFICES ASSUME DateRank[x] > DateRank[y]
                   PROVE  FALSE
      OBVIOUS
    <3>2. UpTo(y, known) \in SUBSET UpTo(x, known)
      <4> SUFFICES ASSUME NEW z \in known, DateRank[z] <= DateRank[y]
                   PROVE  DateRank[z] <= DateRank[x]
        BY DEF UpTo
      <4>1. DateRank[z] \in Nat /\ DateRank[x] \in Nat /\ DateRank[y] \in Nat
        BY <1>f
      <4> QED
        BY <4>1, <3>1
    <3>3. UpTo(x, known) = UpTo(y, known)
      BY <3>2, <1>3, <1>f, FS_Subset DEF Place
    <3>4. DateRank[x] \in Nat /\ DateRank[y] \in Nat
      BY <1>f
    <3> QED
      BY <3>1, <3>3, <3>4, <1>f DEF UpTo
  <2>3. DateRank[x] = DateRank[y]
    BY <2>1, <2>2, <1>f
  <2> QED
    BY <2>3, NamesAssumption
<1> QED
  BY <1>n, <1>f, <1>1, <1>2, <1>3

\* There is a listing by date, and only the one in which every meeting stands
\* at its place.
LEMMA ListedByDate ==
  ASSUME NEW known \in SUBSET MeetingName, IsFiniteSet(known)
  PROVE  /\ Chronological(known) \in [1 .. Cardinality(known) -> known]
         /\ ByDate(Chronological(known))
<1> DEFINE n == Cardinality(known)
           place == [x \in known |-> Place(x, known)]
<1>1. n \in Nat /\ IsFiniteSet(1 .. n) /\ Cardinality(1 .. n) = n
  BY FS_CardinalityType, FS_Interval
<1>2. place \in [known -> 1 .. n]
  BY Places
<1>3. place \in Injection(known, 1 .. n)
  BY <1>2, Places DEF Injection, IsInjective
<1>4. place \in Surjection(known, 1 .. n)
  <2> HIDE DEF place
  <2> QED
    BY <1>1, <1>3, FS_Injection
<1>5. \A i \in 1 .. n : \E x \in known : Place(x, known) = i
  BY <1>4 DEF Surjection
<1> DEFINE rows == [i \in 1 .. n |-> CHOOSE x \in known : Place(x, known) = i]
<1>6. \A i \in 1 .. n : rows[i] \in known /\ Place(rows[i], known) = i
  BY <1>5
<1>7. rows \in [1 .. n -> known]
  BY <1>6
<1>8. ByDate(rows)
  <2> SUFFICES ASSUME NEW i \in 1 .. n, NEW j \in 1 .. n, i < j
               PROVE  DateRank[rows[i]] < DateRank[rows[j]]
    BY DEF ByDate
  <2>1. /\ rows[i] \in known /\ Place(rows[i], known) = i
        /\ rows[j] \in known /\ Place(rows[j], known) = j
    BY <1>6
  <2> HIDE DEF rows
  <2>2. DateRank[rows[i]] \in Nat /\ DateRank[rows[j]] \in Nat
    BY <2>1, NamesAssumption
  <2>3. ~(DateRank[rows[i]] > DateRank[rows[j]])
    BY <2>1, Places
  <2>4. DateRank[rows[i]] # DateRank[rows[j]]
    BY <2>1, NamesAssumption
  <2> QED
    BY <2>2, <2>3, <2>4
<1> HIDE DEF rows
<1> QED
  BY <1>7, <1>8 DEF Chronological

LEMMA EachAtItsPlace ==
  ASSUME NEW known \in SUBSET MeetingName, IsFiniteSet(known), NEW x \in known
  PROVE  Chronological(known)[Place(x, known)] = x
<1> DEFINE n == Cardinality(known)
<1> SUFFICES ASSUME NEW rows, rows = Chronological(known)
             PROVE  rows[Place(x, known)] = x
  OBVIOUS
<1>1. /\ n \in Nat /\ IsFiniteSet(1 .. n) /\ Cardinality(1 .. n) = n
      /\ rows \in [1 .. n -> known] /\ ByDate(rows)
  <2>1. n \in Nat /\ rows \in [1 .. n -> known] /\ ByDate(rows)
    BY FS_CardinalityType, ListedByDate
  <2> HIDE DEF n
  <2>2. IsFiniteSet(1 .. n) /\ Cardinality(1 .. n) = n
    BY <2>1, FS_Interval
  <2> QED
    BY <2>1, <2>2
<1>2. \A i, j \in 1 .. n : i < j => DateRank[rows[i]] < DateRank[rows[j]]
  BY <1>1 DEF ByDate
<1>r. \A i \in 1 .. n : rows[i] \in known /\ DateRank[rows[i]] \in Nat
  BY <1>1, NamesAssumption
<1>3. ASSUME NEW i \in 1 .. n, NEW j \in 1 .. n, rows[i] = rows[j]
      PROVE  i = j
  BY <1>2, <1>3, <1>r, <1>1
<1>4. rows \in Injection(1 .. n, known)
  BY <1>1, <1>3 DEF Injection, IsInjective
<1>5. rows \in Surjection(1 .. n, known)
  <2> HIDE DEF n
  <2> QED
    BY <1>1, <1>4, FS_Injection DEF n
<1>6. PICK i \in 1 .. n : rows[i] = x
  BY <1>5 DEF Surjection
<1>7. IsFiniteSet(1 .. i) /\ Cardinality(1 .. i) = i /\ i \in Nat
  BY <1>1, FS_Interval
<1> DEFINE first == [j \in 1 .. i |-> rows[j]]
<1>8. ASSUME NEW j \in 1 .. n
      PROVE  DateRank[rows[j]] <= DateRank[x] <=> j <= i
  BY <1>1, <1>2, <1>6, <1>r
<1>9. first \in [1 .. i -> UpTo(x, known)]
  BY <1>1, <1>8, <1>r DEF UpTo
<1>10. first \in Injection(1 .. i, UpTo(x, known))
  BY <1>1, <1>3, <1>9 DEF Injection, IsInjective
<1>11. ASSUME NEW y \in UpTo(x, known)
       PROVE  \E j \in 1 .. i : first[j] = y
  <2>1. PICK j \in 1 .. n : rows[j] = y
    BY <1>5 DEF Surjection, UpTo
  <2>2. j \in 1 .. i
    BY <1>1, <1>8, <2>1 DEF UpTo
  <2> QED
    BY <2>1, <2>2
<1>12. ExistsBijection(1 .. i, UpTo(x, known))
  BY <1>9, <1>10, <1>11 DEF Surjection, Bijection, ExistsBijection
<1>13. Place(x, known) = i
  BY <1>7, <1>12, FS_Bijection DEF Place
<1> QED
  BY <1>6, <1>13

\* A meeting only moves back when others are registered.
LEMMA PlaceGrows ==
  ASSUME NEW known, NEW later \in SUBSET MeetingName, known \subseteq later,
         IsFiniteSet(later), NEW x \in known
  PROVE  Place(x, known) \in Nat /\ Place(x, later) \in Nat /\ Place(x, known) <= Place(x, later)
<1>1. UpTo(x, known) \in SUBSET UpTo(x, later) /\ UpTo(x, later) \in SUBSET later
  BY DEF UpTo
<1>2. IsFiniteSet(UpTo(x, later))
  BY <1>1, FS_Subset
<1> QED
  BY <1>1, <1>2, FS_Subset, FS_CardinalityType DEF Place

\* One page: what stands behind `offset` is on it, or behind its end.
LEMMA OnPageOrBehind ==
  ASSUME NEW known \in SUBSET MeetingName, IsFiniteSet(known), NEW offset \in Nat
  PROVE  LET page == PageOf(Chronological(known), PageSize, offset)
         IN  /\ page \in Seq(known)
             /\ \A x \in known : Place(x, known) > offset =>
                  \/ x \in ToSet(page)
                  \/ Place(x, known) > offset + Len(page)
<1> DEFINE n == Cardinality(known)
           last == Min({n, offset + PageSize})
<1> SUFFICES ASSUME NEW rows, rows = Chronological(known),
                    NEW page, page = PageOf(rows, PageSize, offset)
             PROVE  /\ page \in Seq(known)
                    /\ \A x \in known : Place(x, known) > offset =>
                         \/ x \in ToSet(page)
                         \/ Place(x, known) > offset + Len(page)
  OBVIOUS
<1>1. n \in Nat /\ rows \in [1 .. n -> known]
  BY FS_CardinalityType, ListedByDate
<1>2. rows \in Seq(known) /\ Len(rows) = n
  BY <1>1
<1>3. PageSize \in Nat \ {0}
  BY WalkAssumption
<1>4. last = IF n <= offset + PageSize THEN n ELSE offset + PageSize
  BY <1>1, <1>3 DEF Min
<1>5. page = SubSeq(rows, offset + 1, last)
  BY <1>2, <1>3 DEF PageOf, NoLimit
<1> HIDE DEF n, last
<1>6. last \in Nat /\ last <= n /\ last <= offset + PageSize
      /\ (last < n => last = offset + PageSize)
  BY <1>1, <1>3, <1>4
<1>7. /\ page \in Seq(known)
      /\ Len(page) = IF offset < last THEN last - offset ELSE 0
      /\ \A i \in 1 .. Len(page) : page[i] = rows[offset + i]
  BY <1>1, <1>2, <1>5, <1>6
<1>8. ASSUME NEW x \in known, Place(x, known) > offset, Place(x, known) <= offset + Len(page)
      PROVE  x \in ToSet(page)
  <2>1. Place(x, known) \in 1 .. n /\ rows[Place(x, known)] = x
    BY Places, EachAtItsPlace DEF n
  <2>2. Place(x, known) - offset \in 1 .. Len(page)
    BY <1>7, <1>8, <2>1, <1>6, <1>1
  <2>3. page[Place(x, known) - offset] = x
    BY <1>7, <2>1, <2>2
  <2> QED
    BY <1>7, <2>2, <2>3 DEF ToSet
<1>9. ASSUME NEW x \in known
      PROVE  Place(x, known) \in Nat /\ Len(page) \in Nat
  BY <1>7, <1>1, Places DEF n
<1> QED
  BY <1>7, <1>8, <1>9

------------------------------------------------------------------------------
(* The walk over the pages *)
StoreOK ==
  /\ db = [meetings |-> db.meetings, memories |-> db.memories, graph |-> db.graph]
  /\ db.meetings = [x \in MeetingName |-> db.meetings[x]]
  /\ IsFiniteSet(Known)

SessionOK == session = [c \in Caller |-> session[c]]

TourOK ==
  /\ tour \in [stage : {"never", "new", "next", "asked", "over"}, offset : Nat,
               seen : SUBSET MeetingName, wanted : SUBSET MeetingName]
  /\ tour.wanted \subseteq Known

\* The walker's session has the fields of a session.
WalkerOK ==
  LET w == session[Walker]
  IN  /\ w = [door |-> w.door, program |-> w.program, got |-> w.got, reply |-> w.reply,
              alone |-> w.alone, asked |-> w.asked]
      /\ w.got = [page |-> w.got.page, counts |-> w.got.counts, memories |-> w.got.memories,
                  meetings |-> w.got.meetings, outcomes |-> w.got.outcomes]

AskList == <<"list meetings", [limit |-> PageSize, offset |-> tour.offset]>>
AskCount == <<"count meetings", {}>>

\* What was wanted and is not among these stands behind the n-th meeting.
StillToCome(met, n) == \A x \in tour.wanted \ met : Place(x, Known) > n

Met == tour.seen \cup ToSet(Got(Walker).page)
Reached == tour.offset + Len(Got(Walker).page)

\* Between two requests.
Resting == session[Walker].program = <<>> /\ session[Walker].reply = "ready"

\* The page is to be read, the total is to be read, both were read: then the
\* total covers what is still to come.
Asking ==
  /\ session[Walker].door = "http" /\ session[Walker].reply = "busy"
  /\ session[Walker].program = <<AskList, AskCount>>
  /\ Got(Walker).page = <<>> /\ Got(Walker).counts = <<>>
HasPage ==
  /\ session[Walker].door = "http" /\ session[Walker].reply = "busy"
  /\ session[Walker].program = <<AskCount>> /\ Got(Walker).counts = <<>>
HasTotal ==
  /\ session[Walker].door = "http" /\ session[Walker].reply \in {"busy", "ok"}
  /\ session[Walker].program = <<>>
  /\ \E total \in Nat : /\ Got(Walker).counts = <<<<"meetings", total>>>>
                        /\ \A x \in tour.wanted \ Met : Reached < total

WalkOK ==
  /\ WalkerOK
  /\ tour.stage # "asked" => Resting
  /\ tour.stage = "new" => tour.offset = 0
  /\ tour.stage = "next" => StillToCome(tour.seen, tour.offset)
  /\ tour.stage = "asked" => /\ Asking \/ HasPage \/ HasTotal
                             /\ Got(Walker).page \in Seq(MeetingName)
                             /\ StillToCome(Met, Reached)
  /\ PagesComplete

PagesInv == StoreOK /\ SessionOK /\ TourOK /\ (tour.stage # "never" => WalkOK)

LEMMA TwoStatements ==
  ASSUME NEW a, NEW b
  PROVE  /\ <<a>> \o <<b>> = <<a, b>>
         /\ Head(<<a, b>>) = a /\ Head(<<b>>) = b /\ <<a, b>> # <<>> /\ <<b>> # <<>>
         /\ SubSeq(<<a, b>>, 2, Len(<<a, b>>)) = <<b>>
         /\ SubSeq(<<b>>, 2, Len(<<b>>)) = <<>>
<1> DEFINE S == {a, b}
<1>1. <<a>> \in Seq(S) /\ <<b>> \in Seq(S) /\ <<a, b>> \in Seq(S)
  OBVIOUS
<1>2. Len(<<a>>) = 1 /\ Len(<<b>>) = 1 /\ Len(<<a, b>>) = 2
  OBVIOUS
<1>3. <<a>> \o <<b>> = <<a, b>>
  <2>1. /\ <<a>> \o <<b>> \in Seq(S)
        /\ Len(<<a>> \o <<b>>) = 2
        /\ (<<a>> \o <<b>>)[1] = a /\ (<<a>> \o <<b>>)[2] = b
    BY <1>1, <1>2, ConcatProperties
  <2>2. \A i \in 1 .. Len(<<a>> \o <<b>>) : (<<a>> \o <<b>>)[i] = <<a, b>>[i]
    BY <2>1
  <2> QED
    BY <1>1, <1>2, <2>1, <2>2, SeqEqual
<1>4. SubSeq(<<a, b>>, 2, 2) = <<b>>
  <2>1. \A i \in 2 .. 2 : <<a, b>>[i] \in S
    OBVIOUS
  <2>2. /\ SubSeq(<<a, b>>, 2, 2) \in Seq(S)
        /\ Len(SubSeq(<<a, b>>, 2, 2)) = 1
        /\ \A i \in 1 .. 1 : SubSeq(<<a, b>>, 2, 2)[i] = b
    BY <2>1, SubSeqProperties
  <2>3. \A i \in 1 .. Len(SubSeq(<<a, b>>, 2, 2)) : SubSeq(<<a, b>>, 2, 2)[i] = <<b>>[i]
    BY <2>2
  <2> QED
    BY <1>1, <1>2, <2>2, <2>3, SeqEqual
<1>5. SubSeq(<<b>>, 2, 1) = <<>>
  BY SubSeqEmpty
<1> QED
  BY <1>2, <1>3, <1>4, <1>5

\* Whatever the statement, the caller goes on or gets an error.
Moves(c) ==
  \/ \E k, got, wrote : Onward(c, k, got, wrote)
  \/ \E error : Throw(c, error)

LEMMA StatementMoves ==
  ASSUME NEW c, Statement(c)
  PROVE  Moves(c)
<1>1. CASE ListMeetingRows(c)
  BY <1>1 DEF ListMeetingRows, Moves
<1>2. CASE AllMeetingRows(c)
  BY <1>2 DEF AllMeetingRows, Moves
<1>3. CASE CountRows(c)
  BY <1>3 DEF CountRows, Moves
<1>4. CASE QueryRows(c)
  BY <1>4 DEF QueryRows, Moves
<1>5. CASE FetchRow(c)
  BY <1>5 DEF FetchRow, Moves
<1>6. CASE ReadGraph(c)
  BY <1>6 DEF ReadGraph, Moves
<1>7. CASE ReadJournal(c)
  BY <1>7 DEF ReadJournal, Moves
<1>8. CASE Check(c)
  BY <1>8 DEF Check, Moves
<1>9. CASE BuildGraph(c)
  BY <1>9 DEF BuildGraph, Moves
<1>10. CASE ResolveSource(c)
  BY <1>10 DEF ResolveSource, Moves
<1>11. CASE ProcessFile(c)
  BY <1>11 DEF ProcessFile, Moves
<1>12. CASE Register(c)
  BY <1>12 DEF Register, Moves
<1>13. CASE SaveMemories(c)
  BY <1>13 DEF SaveMemories, Moves
<1>14. CASE EndStage(c)
  BY <1>14 DEF EndStage, Moves
<1>15. CASE AppendRecord(c)
  BY <1>15 DEF AppendRecord, Moves
<1> QED
  BY <1>1, <1>2, <1>3, <1>4, <1>5, <1>6, <1>7, <1>8, <1>9, <1>10, <1>11, <1>12, <1>13, <1>14, <1>15
     DEF Statement

\* What others do leaves the walker's request as it is.
WalkerStays ==
  /\ session'[Walker].door = session[Walker].door
  /\ session'[Walker].program = session[Walker].program
  /\ session'[Walker].got = session[Walker].got
  /\ session'[Walker].reply = session[Walker].reply

LEMMA OthersMove ==
  ASSUME SessionOK, NEW c \in Caller, Moves(c)
  PROVE  /\ SessionOK'
         /\ c # Walker /\ WalkerOK => WalkerOK' /\ WalkerStays
<1>w. Walker \in Caller
  BY WalkAssumption
<1>1. ASSUME NEW k, NEW got, NEW wrote, Onward(c, k, got, wrote)
      PROVE  /\ SessionOK'
             /\ c # Walker /\ WalkerOK => WalkerOK' /\ WalkerStays
  <2>1. SessionOK'
    BY <1>1 DEF Onward, SessionOK
  <2>2. ASSUME c # Walker, WalkerOK
        PROVE  session'[Walker] = [session[Walker] EXCEPT !.alone = @ /\ ~wrote]
    BY <1>1, <1>w, <2>2 DEF Onward
  <2> QED
    BY <2>1, <2>2 DEF WalkerOK, WalkerStays
<1>2. ASSUME NEW error, Throw(c, error)
      PROVE  /\ SessionOK'
             /\ c # Walker /\ WalkerOK => WalkerOK' /\ WalkerStays
  <2>1. CASE session' = [session EXCEPT ![c].program = <<>>, ![c].reply = error]
    BY <1>w, <2>1 DEF SessionOK, WalkerOK, WalkerStays
  <2>2. CASE Onward(c, Len(session[c].program) - 2, Failed(c), FALSE)
    BY <1>1, <2>2
  <2> QED
    BY <1>2, <2>1, <2>2 DEF Throw
<1> QED
  BY <1>1, <1>2 DEF Moves

\* No statement forgets a meeting.
LEMMA StoreKeeps ==
  ASSUME StoreOK, NEW c, Statement(c)
  PROVE  StoreOK' /\ Known \subseteq Known'
<1>1. ASSUME db'.meetings = db.meetings, NEW memories, NEW graph,
             db' = [meetings |-> db.meetings, memories |-> memories, graph |-> graph]
      PROVE  StoreOK' /\ Known \subseteq Known'
  BY <1>1 DEF StoreOK, Known
<1>2. CASE UNCHANGED db
  BY <1>2 DEF StoreOK, Known
<1>3. CASE BuildGraph(c)
  <2>1. PICK graph : db' = [db EXCEPT !.graph = graph]
    BY <1>3 DEF BuildGraph
  <2>2. db' = [meetings |-> db.meetings, memories |-> db.memories, graph |-> graph]
    BY <2>1 DEF StoreOK
  <2> QED
    BY <1>1, <2>2
<1>4. CASE SaveMemories(c)
  <2>1. PICK memories : db' = [db EXCEPT !.memories = memories]
    BY <1>4 DEF SaveMemories
  <2>2. db' = [meetings |-> db.meetings, memories |-> memories, graph |-> db.graph]
    BY <2>1 DEF StoreOK
  <2> QED
    BY <1>1, <2>2
<1>5. ASSUME NEW name, NEW text, name \notin Known, db' = [db EXCEPT !.meetings[name] = text]
      PROVE  StoreOK' /\ Known \subseteq Known'
  <2>1. db' = [meetings |-> [x \in MeetingName |-> IF x = name THEN text ELSE db.meetings[x]],
               memories |-> db.memories, graph |-> db.graph]
    BY <1>5 DEF StoreOK
  <2>2. Known' \subseteq Known \cup {name} /\ Known \subseteq Known'
    BY <1>5, <2>1 DEF Known
  <2>3. IsFiniteSet(Known')
    BY <2>2, FS_AddElement, FS_Subset DEF StoreOK
  <2> QED
    BY <2>1, <2>2, <2>3 DEF StoreOK
<1>6. CASE Register(c)
  <2>1. CASE UNCHANGED db
    BY <2>1, <1>2
  <2>2. CASE /\ NameFor(Argument(c).source) \notin Known
             /\ db' = [db EXCEPT !.meetings[NameFor(Argument(c).source)] = Argument(c).source.text]
    BY <2>2, <1>5
  <2> QED
    BY <1>6, <2>1, <2>2 DEF Register
<1> QED
  BY <1>2, <1>3, <1>4, <1>6 DEF Statement, StoreOnly, ListMeetingRows, AllMeetingRows, CountRows,
     QueryRows, FetchRow, ReadGraph, ReadJournal, Check, ResolveSource, ProcessFile, EndStage,
     AppendRecord

\* What is still to come stays so when meetings are registered.
LEMMA StillComing ==
  ASSUME StoreOK, StoreOK', Known \subseteq Known', TourOK, NEW n \in Nat,
         NEW met, StillToCome(met, n)
  PROVE  \A x \in tour.wanted \ met : Place(x, Known') > n
<1> SUFFICES ASSUME NEW x \in tour.wanted \ met
             PROVE  Place(x, Known') > n
  OBVIOUS
<1>1. x \in Known /\ Place(x, Known) > n
  BY DEF TourOK, StillToCome
<1>2. Known \in SUBSET MeetingName /\ Known' \in SUBSET MeetingName /\ IsFiniteSet(Known')
  BY DEF Known, StoreOK
<1>3. Place(x, Known) \in Nat /\ Place(x, Known') \in Nat /\ Place(x, Known) <= Place(x, Known')
  BY <1>1, <1>2, PlaceGrows
<1> QED
  BY <1>1, <1>3

LEMMA ReachedIsNumber ==
  ASSUME TourOK, Got(Walker).page \in Seq(MeetingName)
  PROVE  tour.offset \in Nat /\ Reached \in Nat
BY DEF TourOK, Reached

\* Steps of the others, and of the store under the walk.
LEMMA OthersStep ==
  ASSUME PagesInv, StoreOK', SessionOK', Known \subseteq Known', UNCHANGED tour,
         tour.stage # "never" => WalkerOK' /\ WalkerStays
  PROVE  PagesInv'
<1>1. TourOK'
  BY DEF PagesInv, TourOK
<1>2. ASSUME tour.stage # "never"
      PROVE  WalkOK'
  <2>0. WalkOK /\ WalkerOK' /\ WalkerStays /\ TourOK /\ StoreOK
    BY <1>2 DEF PagesInv
  <2>1. (tour.stage # "asked" => Resting)'
    BY <2>0 DEF WalkOK, Resting, WalkerStays
  <2>2. (tour.stage = "new" => tour.offset = 0)' /\ PagesComplete'
    BY <2>0 DEF WalkOK, PagesComplete
  <2>3. ASSUME tour.stage = "next"
        PROVE  StillToCome(tour.seen, tour.offset)'
    BY <2>0, <2>3, StillComing DEF WalkOK, StillToCome, TourOK
  <2>4. ASSUME tour.stage = "asked"
        PROVE  /\ (Asking \/ HasPage \/ HasTotal)'
               /\ (Got(Walker).page \in Seq(MeetingName))'
               /\ StillToCome(Met, Reached)'
    <3>1. Met' = Met /\ Reached' = Reached /\ Got(Walker)' = Got(Walker)
      BY <2>0 DEF Met, Reached, Got, WalkerStays
    <3>2. Got(Walker).page \in Seq(MeetingName) /\ StillToCome(Met, Reached)
      BY <2>0, <2>4 DEF WalkOK
    <3>3. StillToCome(Met, Reached)'
      BY <2>0, <3>1, <3>2, ReachedIsNumber, StillComing DEF StillToCome
    <3>4. Asking => Asking'
      BY <2>0, <3>1 DEF Asking, WalkerStays, AskList, AskCount
    <3>5. HasPage => HasPage'
      BY <2>0, <3>1 DEF HasPage, WalkerStays, AskCount
    <3>6. HasTotal => HasTotal'
      BY <2>0, <3>1 DEF HasTotal, WalkerStays
    <3> QED
      BY <2>0, <2>4, <3>1, <3>2, <3>3, <3>4, <3>5, <3>6 DEF WalkOK
  <2> QED
    BY <2>0, <2>1, <2>2, <2>3, <2>4 DEF WalkOK
<1> QED
  BY <1>1, <1>2 DEF PagesInv

\* A step of the session of one caller, other than by a statement.
LEMMA SessionStep ==
  ASSUME PagesInv, NEW c \in Caller, UNCHANGED <<db, tour>>, NEW s,
         session' = [session EXCEPT ![c] = s], tour.stage # "never" => c # Walker
  PROVE  PagesInv'
<1>w. Walker \in Caller
  BY WalkAssumption
<1>1. StoreOK' /\ Known \subseteq Known'
  BY DEF PagesInv, StoreOK, Known
<1>2. SessionOK'
  BY DEF PagesInv, SessionOK
<1>3. ASSUME c # Walker
      PROVE  session'[Walker] = session[Walker]
  BY <1>w, <1>3 DEF PagesInv, SessionOK
<1>4. ASSUME tour.stage # "never"
      PROVE  WalkerOK' /\ WalkerStays
  BY <1>3, <1>4 DEF PagesInv, WalkOK, WalkerOK, WalkerStays
<1> QED
  BY <1>1, <1>2, <1>4, OthersStep

LEMMA OtherStatementInv ==
  ASSUME PagesInv, NEW c \in Caller, Run(c), tour.stage # "never" => c # Walker
  PROVE  PagesInv'
<1>1. Moves(c) /\ StoreOK' /\ Known \subseteq Known' /\ UNCHANGED tour
  BY StatementMoves, StoreKeeps DEF Run, PagesInv
<1>2. SessionOK' /\ (tour.stage # "never" => WalkerOK' /\ WalkerStays)
  BY <1>1, OthersMove DEF PagesInv, WalkOK
<1> QED
  BY <1>1, <1>2, OthersStep

\* What the walker may do while its page is under way.
LEMMA WalkerServes ==
  ASSUME PagesInv, tour.stage # "never", NEW what, Serving(Walker, what)
  PROVE  /\ tour.stage = "asked"
         /\ \/ Asking /\ what = "list meetings" /\ Argument(Walker) = AskList[2]
            \/ HasPage /\ what = "count meetings"
<1>1. session[Walker].program # <<>> /\ Head(session[Walker].program)[1] = what
  BY DEF Serving, Now
<1>2. tour.stage = "asked" /\ (Asking \/ HasPage)
  BY <1>1 DEF PagesInv, WalkOK, Resting, HasTotal
<1>3. CASE Asking
  <2>1. Head(session[Walker].program) = AskList
    BY <1>3, TwoStatements DEF Asking
  <2> QED
    <3>1. AskList[1] = "list meetings"
      BY DEF AskList
    <3>2. what = "list meetings"
      BY <1>1, <2>1, <3>1
    <3>3. Argument(Walker) = AskList[2]
      BY <2>1 DEF Argument, Now
    <3> QED
      BY <1>2, <1>3, <3>2, <3>3
<1>4. CASE HasPage
  <2>1. Head(session[Walker].program) = AskCount
    BY <1>4, TwoStatements DEF HasPage
  <2> QED
    <3>1. AskCount[1] = "count meetings"
      BY DEF AskCount
    <3>2. what = "count meetings"
      BY <1>1, <2>1, <3>1
    <3> QED
      BY <1>2, <1>4, <3>2
<1> QED
  BY <1>2, <1>3, <1>4

\* The walker's session after a statement of its own.
LEMMA WalkerGoesOn ==
  ASSUME SessionOK, WalkerOK, NEW got, Onward(Walker, 1, got, FALSE)
  PROVE  /\ SessionOK'
         /\ session'[Walker] = [door |-> session[Walker].door,
                                program |-> SubSeq(session[Walker].program, 2, Len(session[Walker].program)),
                                got |-> got, reply |-> session[Walker].reply,
                                alone |-> session[Walker].alone, asked |-> session[Walker].asked]
<1>1. Walker \in Caller
  BY WalkAssumption
<1>2. SessionOK'
  BY DEF Onward, SessionOK
<1>3. session'[Walker] = [session[Walker] EXCEPT
                            !.program = SubSeq(@, 2, Len(@)), !.got = got]
  BY <1>1 DEF Onward
<1> QED
  BY <1>2, <1>3 DEF WalkerOK

LEMMA GetPageInv ==
  ASSUME PagesInv, tour.stage = "asked", Asking, ListMeetingRows(Walker), UNCHANGED tour
  PROVE  PagesInv'
<1> DEFINE page == PageOf(Chronological(Known), PageSize, tour.offset)
<1>0. /\ StoreOK /\ SessionOK /\ TourOK /\ WalkOK /\ WalkerOK /\ UNCHANGED db
      /\ tour.offset \in Nat /\ Known \in SUBSET MeetingName /\ IsFiniteSet(Known)
  BY DEF PagesInv, WalkOK, ListMeetingRows, StoreOnly, StoreOK, TourOK, Known
<1>1. Argument(Walker).limit = PageSize /\ Argument(Walker).offset = tour.offset
  <2>1. Serving(Walker, "list meetings")
    BY DEF ListMeetingRows
  <2>2. Argument(Walker) = AskList[2]
    <3>1. tour.stage # "never" /\ "list meetings" # "count meetings"
      OBVIOUS
    <3> QED
      BY <2>1, <3>1, WalkerServes
  <2>3. AskList[2] = [limit |-> PageSize, offset |-> tour.offset]
    BY DEF AskList
  <2> QED
    BY <2>2, <2>3
<1>2. Onward(Walker, 1, [Got(Walker) EXCEPT !.page = page], FALSE)
  BY <1>1 DEF ListMeetingRows
<1> HIDE DEF page
<1>3. /\ SessionOK'
      /\ session'[Walker] = [door |-> "http", program |-> <<AskCount>>,
                             got |-> [Got(Walker) EXCEPT !.page = page], reply |-> "busy",
                             alone |-> session[Walker].alone, asked |-> session[Walker].asked]
  <2>1. SubSeq(session[Walker].program, 2, Len(session[Walker].program)) = <<AskCount>>
    BY TwoStatements DEF Asking
  <2>2. session[Walker].door = "http" /\ session[Walker].reply = "busy"
    BY DEF Asking
  <2> QED
    BY <1>0, <1>2, <2>1, <2>2, WalkerGoesOn
<1>4. Got(Walker)' = [page |-> page, counts |-> <<>>, memories |-> Got(Walker).memories,
                      meetings |-> Got(Walker).meetings, outcomes |-> Got(Walker).outcomes]
  BY <1>0, <1>3 DEF Got, WalkerOK, Asking
<1>5. /\ page \in Seq(Known)
      /\ \A x \in Known : Place(x, Known) > tour.offset =>
           x \in ToSet(page) \/ Place(x, Known) > tour.offset + Len(page)
  BY <1>0, OnPageOrBehind DEF page
<1>6. StoreOK' /\ TourOK' /\ WalkerOK' /\ HasPage' /\ Known' = Known
  <2>1. StoreOK' /\ Known' = Known
    BY <1>0 DEF StoreOK, Known
  <2>2. TourOK'
    BY <1>0, <2>1 DEF TourOK
  <2>3. WalkerOK'
    BY <1>3, <1>4 DEF WalkerOK, Got
  <2>4. HasPage'
    <3>1. session'[Walker].door = "http" /\ session'[Walker].reply = "busy"
      BY <1>3
    <3>2. session'[Walker].program = <<AskCount>>
      BY <1>3
    <3>3. Got(Walker)'.counts = <<>>
      BY <1>4
    <3> QED
      BY <3>1, <3>2, <3>3 DEF HasPage, AskCount
  <2> QED
    BY <2>1, <2>2, <2>3, <2>4
<1>7. (Got(Walker).page \in Seq(MeetingName))'
  BY <1>0, <1>4, <1>5
<1>8. StillToCome(Met, Reached)'
  <2> SUFFICES ASSUME NEW x \in tour.wanted, x \notin tour.seen, x \notin ToSet(page)
               PROVE  Place(x, Known) > tour.offset + Len(page)
    BY <1>4, <1>6 DEF StillToCome, Met, Reached
  <2>1. Got(Walker).page = <<>> /\ StillToCome(Met, Reached)
    BY <1>0 DEF Asking, WalkOK
  <2>2. x \notin Met /\ Reached = tour.offset
    BY <1>0, <2>1 DEF Met, Reached, ToSet
  <2> QED
    BY <1>0, <1>5, <2>1, <2>2 DEF StillToCome, TourOK
<1>9. WalkOK'
  BY <1>0, <1>6, <1>7, <1>8 DEF WalkOK, PagesComplete
<1> QED
  BY <1>3, <1>6, <1>9 DEF PagesInv

LEMMA GetTotalInv ==
  ASSUME PagesInv, tour.stage = "asked", HasPage, CountRows(Walker), UNCHANGED tour
  PROVE  PagesInv'
<1> DEFINE total == Cardinality(Known)
           got == Counted(Walker, "meetings", Known)
<1>0. /\ StoreOK /\ SessionOK /\ TourOK /\ WalkOK /\ WalkerOK /\ UNCHANGED db
      /\ Known \in SUBSET MeetingName /\ IsFiniteSet(Known) /\ total \in Nat
  BY FS_CardinalityType DEF PagesInv, WalkOK, CountRows, StoreOnly, StoreOK, TourOK, Known
<1>1. Onward(Walker, 1, got, FALSE)
  <2>1. tour.stage # "never" /\ "count meetings" # "count memories" /\ "list meetings" # "count memories"
    OBVIOUS
  <2>2. ~Serving(Walker, "count memories")
    BY <2>1, WalkerServes
  <2> QED
    BY <2>2 DEF CountRows
<1>2. got = [page |-> Got(Walker).page, counts |-> <<<<"meetings", total>>>>,
             memories |-> Got(Walker).memories, meetings |-> Got(Walker).meetings,
             outcomes |-> Got(Walker).outcomes]
  <2>1. Append(<<>>, <<"meetings", total>>) = <<<<"meetings", total>>>>
    OBVIOUS
  <2>2. Got(Walker).counts = <<>>
    BY DEF HasPage
  <2> QED
    BY <1>0, <2>1, <2>2 DEF Counted, Got, WalkerOK
<1> HIDE DEF got
<1>3. /\ SessionOK'
      /\ session'[Walker] = [door |-> "http", program |-> <<>>, got |-> got, reply |-> "busy",
                             alone |-> session[Walker].alone, asked |-> session[Walker].asked]
  BY <1>0, <1>1, WalkerGoesOn, TwoStatements DEF HasPage
<1>4. Got(Walker)' = got
  BY <1>3 DEF Got
<1>5. StoreOK' /\ Known' = Known
  BY <1>0 DEF StoreOK, Known
<1>6. TourOK'
  BY <1>0, <1>5 DEF TourOK
<1>7. WalkerOK'
  BY <1>2, <1>3 DEF WalkerOK
<1>8. Met' = Met /\ Reached' = Reached /\ Got(Walker)'.page = Got(Walker).page
  BY <1>2, <1>4 DEF Met, Reached
<1>9. Got(Walker).page \in Seq(MeetingName) /\ StillToCome(Met, Reached)
  BY <1>0 DEF WalkOK
<1>10. ASSUME NEW x \in tour.wanted \ Met
       PROVE  Reached < total
  <2>1. x \in Known /\ Place(x, Known) > Reached
    BY <1>0, <1>9 DEF TourOK, StillToCome
  <2>2. Place(x, Known) \in 1 .. total
    BY <1>0, <2>1, Places
  <2>3. Reached \in Nat
    BY <1>0, <1>9, ReachedIsNumber
  <2> HIDE DEF total
  <2> QED
    BY <1>0, <2>1, <2>2, <2>3
<1>11. HasTotal'
  <2>1. session'[Walker].door = "http" /\ session'[Walker].reply = "busy" /\ session'[Walker].program = <<>>
    BY <1>3
  <2>2. Got(Walker)'.counts = <<<<"meetings", total>>>>
    BY <1>2, <1>4
  <2>3. \A x \in tour.wanted \ Met' : Reached' < total
    BY <1>8, <1>10
  <2> HIDE DEF total
  <2> QED
    BY <1>0, <2>1, <2>2, <2>3 DEF HasTotal
<1>12. StillToCome(Met, Reached)'
  BY <1>5, <1>8, <1>9 DEF StillToCome
<1>13. WalkOK'
  BY <1>0, <1>7, <1>8, <1>9, <1>11, <1>12 DEF WalkOK, PagesComplete
<1> QED
  BY <1>3, <1>5, <1>6, <1>13 DEF PagesInv

LEMMA WalkerStatementInv ==
  ASSUME PagesInv, tour.stage # "never", Run(Walker)
  PROVE  PagesInv'
<1>1. Statement(Walker) /\ UNCHANGED tour
  BY DEF Run
<1> DEFINE now == Head(session[Walker].program)[1]
<1>2. ASSUME session[Walker].program # <<>>
      PROVE  /\ tour.stage = "asked"
             /\ \/ Asking /\ now = "list meetings"
                \/ HasPage /\ now = "count meetings"
  BY <1>2, WalkerServes DEF Serving, Now
<1>3. \/ ListMeetingRows(Walker) /\ tour.stage = "asked" /\ Asking
      \/ CountRows(Walker) /\ tour.stage = "asked" /\ HasPage
  <2>1. \/ ListMeetingRows(Walker)
        \/ CountRows(Walker)
        \/ session[Walker].program # <<>> /\ now \notin {"list meetings", "count meetings"}
    BY <1>1 DEF Statement, AllMeetingRows, QueryRows, FetchRow, ReadGraph, ReadJournal, Check,
       BuildGraph, ResolveSource, ProcessFile, Register, SaveMemories, EndStage, AppendRecord,
       Serving, Now
  <2>2. ListMeetingRows(Walker) => session[Walker].program # <<>> /\ now = "list meetings"
    BY DEF ListMeetingRows, Serving, Now
  <2>3. CountRows(Walker) =>
          session[Walker].program # <<>> /\ now \in {"count meetings", "count memories"}
    BY DEF CountRows, Serving, Now
  <2> QED
    BY <1>2, <2>1, <2>2, <2>3
<1> QED
  BY <1>1, <1>3, GetPageInv, GetTotalInv

LEMMA AskInv ==
  ASSUME PagesInv, NEW c \in Caller, Ask(c)
  PROVE  PagesInv'
<1>1. PICK s : session' = [session EXCEPT ![c] = s]
  BY DEF Ask, Start
<1>2. tour.stage # "never" => c # Walker
  BY DEF Ask
<1> QED
  BY <1>1, <1>2, SessionStep DEF Ask

LEMMA DieAppendingInv ==
  ASSUME PagesInv, NEW c \in Caller, DieAppending(c)
  PROVE  PagesInv'
<1>1. session' = [session EXCEPT ![c] = [session[c] EXCEPT !.program = <<>>, !.reply = "died"]]
  BY DEF DieAppending, PagesInv, SessionOK
<1>2. tour.stage # "never" => c # Walker
  <2> DEFINE now == Head(session[Walker].program)[1]
  <2>1. tour.stage # "never" /\ session[Walker].program # <<>> =>
          now \in {"list meetings", "count meetings"}
    BY WalkerServes DEF Serving, Now
  <2> QED
    BY <2>1 DEF DieAppending, Serving, Now
<1> QED
  BY <1>1, <1>2, SessionStep DEF DieAppending

\* The walker's request cannot fail, so its answer is the page and the total.
LEMMA ReplyInv ==
  ASSUME PagesInv, NEW c \in Caller, Reply(c)
  PROVE  PagesInv'
<1>1. PICK shown \in Shown(c) : session' = [session EXCEPT ![c].reply = shown]
  BY DEF Reply
<1>2. session' = [session EXCEPT ![c] = [session[c] EXCEPT !.reply = shown]]
  BY <1>1 DEF PagesInv, SessionOK
<1>3. UNCHANGED <<db, tour>>
  BY DEF Reply
<1>4. CASE tour.stage # "never" => c # Walker
  BY <1>2, <1>3, <1>4, SessionStep
<1>5. CASE tour.stage # "never" /\ c = Walker
  <2>0. /\ StoreOK /\ SessionOK /\ TourOK /\ WalkOK /\ WalkerOK
    BY <1>5 DEF PagesInv, WalkOK
  <2>1. tour.stage = "asked"
    <3>1. "ready" \in Answers
      BY DEF Answers
    <3> QED
      BY <1>5, <2>0, <3>1 DEF Reply, WalkOK, Resting
  <2>2. HasTotal
    <3>1. session[Walker].program = <<>>
      BY <1>5 DEF Reply
    <3>2. <<AskList, AskCount>> # <<>> /\ <<AskCount>> # <<>>
      BY TwoStatements
    <3>3. ~Asking /\ ~HasPage
      BY <3>1, <3>2 DEF Asking, HasPage
    <3> QED
      BY <2>0, <2>1, <3>3 DEF WalkOK
  <2>3. session[Walker].reply = "busy"
    BY <1>5, <2>2 DEF Reply, HasTotal, Answers
  <2>4. shown = "ok"
    <3>1. Succeeds(Walker)
      BY <2>2 DEF Succeeds, HasTotal
    <3>2. Shown(Walker) = {IF Succeeds(Walker) THEN "ok" ELSE "exit 1"}
      BY <2>3 DEF Shown
    <3> QED
      BY <1>1, <1>5, <3>1, <3>2
  <2>5. session'[Walker] = [session[Walker] EXCEPT !.reply = "ok"]
    BY <1>2, <1>5, <2>4, WalkAssumption DEF PagesInv, SessionOK
  <2>6. WalkerOK' /\ Got(Walker)' = Got(Walker)
    BY <2>0, <2>5 DEF WalkerOK, Got
  <2>7. StoreOK' /\ Known' = Known
    BY <1>3, <2>0 DEF StoreOK, Known
  <2>8. TourOK' /\ SessionOK'
    BY <1>2, <1>3, <2>0, <2>7 DEF TourOK, SessionOK
  <2>9. Met' = Met /\ Reached' = Reached
    BY <1>3, <2>6 DEF Met, Reached
  <2>10. HasTotal'
    <3>1. /\ session'[Walker].door = session[Walker].door /\ session'[Walker].reply = "ok"
          /\ session'[Walker].program = session[Walker].program
      BY <2>0, <2>5 DEF WalkerOK
    <3> QED
      BY <1>3, <2>2, <2>6, <2>9, <3>1 DEF HasTotal
  <2>11. StillToCome(Met, Reached)' /\ (Got(Walker).page \in Seq(MeetingName))'
    BY <1>3, <2>0, <2>1, <2>6, <2>7, <2>9 DEF WalkOK, StillToCome
  <2>12. WalkOK'
    BY <1>3, <2>0, <2>1, <2>6, <2>10, <2>11 DEF WalkOK, PagesComplete
  <2> QED
    BY <2>7, <2>8, <2>12 DEF PagesInv
<1> QED
  BY <1>4, <1>5

LEMMA PageRequestIs ==
  ASSUME NEW r \in PageRequest(tour.offset)
  PROVE  r = [door |-> "http", program |-> <<AskList, AskCount>>, valid |-> TRUE]
<1>1. /\ r \in ListMeetingsEndpoint
      /\ \E i \in DOMAIN r.program : r.program[i] = AskList
  BY DEF PageRequest, ListMeetings, Do, AskList
<1>2. r # Invalid("http")
  <2>1. Invalid("http").program = <<>>
    BY DEF Invalid
  <2> QED
    BY <1>1, <2>1
<1>3. PICK page \in Pagination :
        r = Request("http", ListMeetings(page.limit, page.offset) \o CountMeetings)
  BY <1>1, <1>2 DEF ListMeetingsEndpoint, Checked, Http
<1> DEFINE rows == <<"list meetings", [limit |-> page.limit, offset |-> page.offset]>>
<1>4. ListMeetings(page.limit, page.offset) \o CountMeetings = <<rows, AskCount>>
  BY TwoStatements DEF ListMeetings, CountMeetings, Do, AskCount
<1>5. r = [door |-> "http", program |-> <<rows, AskCount>>, valid |-> TRUE]
  BY <1>3, <1>4 DEF Request
<1>6. AskCount # AskList
  <2>1. AskCount[1] = "count meetings" /\ AskList[1] = "list meetings"
    BY DEF AskCount, AskList
  <2> QED
    BY <2>1
<1> HIDE DEF rows
<1>7. rows = AskList
  <2>1. r.program = <<rows, AskCount>>
    BY <1>5
  <2> QED
    BY <1>1, <1>6, <2>1
<1> QED
  BY <1>5, <1>7

LEMMA NextPageInv ==
  ASSUME PagesInv, NextPage
  PROVE  PagesInv'
<1>0. /\ StoreOK /\ SessionOK /\ TourOK /\ WalkOK /\ UNCHANGED db /\ tour.stage \in {"new", "next"}
      /\ Known \in SUBSET MeetingName /\ IsFiniteSet(Known) /\ Walker \in Caller
  BY WalkAssumption DEF PagesInv, NextPage, StoreOK, Known
<1>1. PICK r \in PageRequest(tour.offset) : Start(Walker, r)
  BY DEF NextPage
<1>2. session' = [session EXCEPT ![Walker] =
        [Idle EXCEPT !.door = "http", !.program = <<AskList, AskCount>>, !.asked = <<AskList, AskCount>>,
                     !.reply = "busy"]]
  <2>1. r = [door |-> "http", program |-> <<AskList, AskCount>>, valid |-> TRUE]
    BY PageRequestIs
  <2>2. r.door = "http" /\ r.program = <<AskList, AskCount>> /\ r.valid = TRUE
    BY <2>1
  <2> QED
    BY <1>1, <2>2 DEF Start
<1>3. /\ SessionOK'
      /\ session'[Walker] =
           [door |-> "http", program |-> <<AskList, AskCount>>, got |-> NoneYet, reply |-> "busy",
            alone |-> TRUE, asked |-> <<AskList, AskCount>>]
  BY <1>0, <1>2 DEF SessionOK, Idle
<1>4. StoreOK' /\ Known' = Known
  BY <1>0 DEF StoreOK, Known
<1>5. /\ tour' = [stage |-> "asked", offset |-> tour.offset, seen |-> tour.seen,
                  wanted |-> IF tour.stage = "new" THEN Known ELSE tour.wanted]
      /\ TourOK'
  <2>1. tour' = [tour EXCEPT !.stage = "asked",
                             !.wanted = IF tour.stage = "new" THEN Known ELSE tour.wanted]
    BY DEF NextPage
  <2> QED
    BY <1>0, <1>4, <2>1 DEF TourOK
<1>6. WalkerOK'
  BY <1>3 DEF WalkerOK, NoneYet
<1>7. Got(Walker)' = NoneYet /\ NoneYet.page = <<>> /\ NoneYet.counts = <<>>
  BY <1>3 DEF Got, NoneYet
<1>8. Asking'
  <2>1. AskList' = AskList /\ AskCount' = AskCount
    BY <1>5 DEF AskList, AskCount
  <2>2. /\ session'[Walker].door = "http" /\ session'[Walker].reply = "busy"
        /\ session'[Walker].program = <<AskList, AskCount>>
    BY <1>3
  <2>3. Got(Walker)'.page = <<>> /\ Got(Walker)'.counts = <<>>
    BY <1>7
  <2> QED
    BY <2>1, <2>2, <2>3 DEF Asking
<1>9. Met' = tour.seen /\ Reached' = tour.offset
  BY <1>0, <1>5, <1>7 DEF Met, Reached, ToSet, TourOK
<1>10. StillToCome(Met, Reached)'
  <2> SUFFICES ASSUME NEW x \in tour'.wanted, x \notin tour.seen
               PROVE  Place(x, Known) > tour.offset
    BY <1>4, <1>9 DEF StillToCome
  <2>1. CASE tour.stage = "new"
    <3>1. x \in Known /\ tour.offset = 0
      BY <1>0, <1>5, <2>1 DEF WalkOK
    <3>2. Place(x, Known) \in 1 .. Cardinality(Known) /\ Cardinality(Known) \in Nat
      BY <1>0, <3>1, Places
    <3> QED
      BY <3>1, <3>2
  <2>2. CASE tour.stage = "next"
    BY <1>0, <1>5, <2>2 DEF WalkOK, StillToCome
  <2> QED
    BY <1>0, <2>1, <2>2
<1>11. (Got(Walker).page \in Seq(MeetingName))'
  BY <1>7
<1>12. WalkOK'
  BY <1>5, <1>6, <1>8, <1>10, <1>11 DEF WalkOK, PagesComplete
<1> QED
  BY <1>3, <1>4, <1>5, <1>12 DEF PagesInv

LEMMA TakePageInv ==
  ASSUME PagesInv, TakePage
  PROVE  PagesInv'
<1>0. /\ StoreOK /\ SessionOK /\ TourOK /\ WalkOK /\ UNCHANGED db /\ tour.stage = "asked"
      /\ session[Walker].reply = "ok" /\ Walker \in Caller
  BY WalkAssumption DEF PagesInv, TakePage
<1>1. HasTotal /\ Got(Walker).page \in Seq(MeetingName) /\ StillToCome(Met, Reached)
  BY <1>0 DEF WalkOK, Asking, HasPage
<1>2. PICK total \in Nat : /\ Got(Walker).counts = <<<<"meetings", total>>>>
                           /\ \A x \in tour.wanted \ Met : Reached < total
  BY <1>1 DEF HasTotal
<1>3. Got(Walker).counts[1][2] = total
  BY <1>2
<1>4. tour.offset \in Nat /\ Reached \in Nat
  BY <1>0, <1>1, ReachedIsNumber
<1>5. ToSet(Got(Walker).page) \subseteq MeetingName
  BY <1>1 DEF ToSet
<1>6. tour' = [stage |-> IF Reached >= total THEN "over" ELSE "next", offset |-> Reached, seen |-> Met,
               wanted |-> tour.wanted]
  <2>1. tour' = [tour EXCEPT !.seen = Met, !.offset = Reached,
                             !.stage = IF Reached >= total THEN "over" ELSE "next"]
    BY <1>3 DEF TakePage, Met, Reached
  <2> QED
    BY <1>0, <2>1 DEF TourOK
<1>7. StoreOK' /\ Known' = Known
  BY <1>0 DEF StoreOK, Known
<1>8. TourOK'
  BY <1>0, <1>4, <1>5, <1>6, <1>7 DEF TourOK, Met
<1>9. SessionOK' /\ session'[Walker] = Idle
  BY <1>0 DEF TakePage, SessionOK
<1>10. WalkerOK' /\ Resting'
  BY <1>9 DEF WalkerOK, Resting, Idle, NoneYet
<1>11. CASE Reached >= total
  <2>1. tour.wanted \subseteq Met
    BY <1>2, <1>4, <1>11
  <2>2. tour'.stage = "over" /\ PagesComplete'
    BY <1>6, <1>11, <2>1 DEF PagesComplete
  <2>3. WalkOK'
    BY <1>10, <2>2 DEF WalkOK
  <2> QED
    BY <1>7, <1>8, <1>9, <2>3 DEF PagesInv
<1>12. CASE ~(Reached >= total)
  <2>1. tour'.stage = "next" /\ tour'.seen = Met /\ tour'.offset = Reached /\ tour'.wanted = tour.wanted
    BY <1>6, <1>12
  <2>2. StillToCome(tour.seen, tour.offset)'
    BY <1>1, <1>7, <2>1 DEF StillToCome
  <2>3. WalkOK'
    BY <1>10, <2>1, <2>2 DEF WalkOK, PagesComplete
  <2> QED
    BY <1>7, <1>8, <1>9, <2>3 DEF PagesInv
<1> QED
  BY <1>11, <1>12

LEMMA PagesInitInv == FrontInit => PagesInv
<1> SUFFICES ASSUME FrontInit
             PROVE  PagesInv
  OBVIOUS
<1>1. StoreOK
  <2>1. CASE db = [meetings |-> [x \in MeetingName |-> None], memories |-> {}, graph |-> {}]
    <3>1. Known = {}
      BY <2>1 DEF Known
    <3> QED
      BY <2>1, <3>1, FS_EmptySet DEF StoreOK
  <2>2. ASSUME NEW x, NEW t, NEW found, NEW graph,
               db = [meetings |-> [y \in MeetingName |-> IF y = x THEN t ELSE None],
                     memories |-> found, graph |-> graph]
        PROVE  StoreOK
    <3>1. Known \subseteq {x}
      BY <2>2 DEF Known
    <3>2. IsFiniteSet(Known)
      BY <3>1, FS_Singleton, FS_Subset
    <3> QED
      BY <2>2, <3>2 DEF StoreOK
  <2> QED
    BY <2>1, <2>2 DEF FrontInit, ServicesInit
<1>2. session = [c \in Caller |-> Idle] /\ Walker \in Caller
  BY WalkAssumption DEF FrontInit, ServicesInit
<1>3. PICK stage \in {"new", "never"} :
        tour = [stage |-> stage, offset |-> 0, seen |-> {}, wanted |-> {}]
  BY DEF FrontInit
<1>4. TourOK
  BY <1>3 DEF TourOK
<1>5. SessionOK /\ WalkerOK /\ Resting
  BY <1>2 DEF SessionOK, WalkerOK, Resting, Idle, NoneYet
<1>6. WalkOK
  BY <1>3, <1>5 DEF WalkOK, PagesComplete
<1> QED
  BY <1>1, <1>4, <1>5, <1>6 DEF PagesInv

LEMMA PagesStep == PagesInv /\ [FrontNext]_frontVars => PagesInv'
<1> SUFFICES ASSUME PagesInv, [FrontNext]_frontVars
             PROVE  PagesInv'
  OBVIOUS
<1>1. ASSUME NEW c \in Caller, Run(c)
      PROVE  PagesInv'
  <2>1. CASE tour.stage # "never" => c # Walker
    BY <1>1, <2>1, OtherStatementInv
  <2>2. CASE tour.stage # "never" /\ c = Walker
    BY <1>1, <2>2, WalkerStatementInv
  <2> QED
    BY <2>1, <2>2
<1>2. CASE UNCHANGED frontVars
  BY <1>2 DEF frontVars, PagesInv, StoreOK, SessionOK, TourOK, WalkOK, WalkerOK, Known, Resting,
     Asking, HasPage, HasTotal, StillToCome, Met, Reached, Got, AskList, AskCount, PagesComplete
<1> QED
  BY <1>1, <1>2, AskInv, ReplyInv, DieAppendingInv, NextPageInv, TakePageInv DEF FrontNext

\* A client that asks for one page after the other sees every meeting there
\* was when it began, in pages of any size and whatever is imported meanwhile.
THEOREM PagesAreComplete == FrontSpec => []PagesComplete
<1>1. PagesInv => PagesComplete
  BY DEF PagesInv, WalkOK, PagesComplete
<1> QED
  BY <1>1, PagesInitInv, PagesStep, PTL DEF FrontSpec

------------------------------------------------------------------------------
(* FrontDoors: failures.  What a program is made of. *)
IsProgram(p) == \E S : p \in Seq(S)

JobsLine == <<"append", "jobs">>

\* A statement that can only fail in a way that is accounted for.
Fine(door, s) ==
  /\ s[1] = "read journal" => s[2] \in {"jobs", "logs"}
  /\ s[1] = "check" => s = <<"check", s[2]>>
  /\ s[1] = "check" =>
       \/ s[2] \in Domain \cup {None, "FileNotFoundError", "UnicodeDecodeError"}
       \/ s[2] = "HTTPException" /\ door # "cli"

\* A program of such statements; stages come in jobs only, which end with a
\* line in the journal.
Composed(door, staged, p) ==
  IsProgram(p) /\ \A i \in 1 .. Len(p) : Fine(door, p[i]) /\ (p[i][1] = "stage" => staged)
Plain(door, p) == Composed(door, FALSE, p)
Acceptable(door, p) ==
  /\ Composed(door, TRUE, p)
  /\ (\E i \in 1 .. Len(p) : p[i][1] = "stage") => p[Len(p)] = JobsLine

LEMMA ProgramLength ==
  ASSUME NEW p, IsProgram(p)
  PROVE  Len(p) \in Nat /\ DOMAIN p = 1 .. Len(p) /\ (Len(p) = 0 <=> p = <<>>)
BY DEF IsProgram

LEMMA EmptyComposed == ASSUME NEW door, NEW staged  PROVE Composed(door, staged, <<>>)
<1>1. <<>> \in Seq({}) /\ Len(<<>>) = 0
  OBVIOUS
<1>2. IsProgram(<<>>)
  BY <1>1 DEF IsProgram
<1> QED
  BY <1>1, <1>2 DEF Composed

LEMMA EmptyPlain == ASSUME NEW door  PROVE Plain(door, <<>>)
BY EmptyComposed DEF Plain

\* One statement.
OneStatement(p, what, arg) ==
  /\ IsProgram(p) /\ Len(p) = 1
  /\ \A i \in 1 .. Len(p) : p[i] = <<what, arg>> /\ p[i][1] = what /\ p[i][2] = arg

LEMMA OneOf == ASSUME NEW what, NEW arg  PROVE OneStatement(Do(what, arg), what, arg)
<1> DEFINE s == <<what, arg>>
<1>1. s[1] = what /\ s[2] = arg
  OBVIOUS
<1> HIDE DEF s
<1>2. <<s>> \in Seq({s}) /\ Len(<<s>>) = 1 /\ <<s>>[1] = s
  OBVIOUS
<1>3. IsProgram(<<s>>)
  BY <1>2 DEF IsProgram
<1>4. \A i \in 1 .. Len(<<s>>) : i = 1
  BY <1>2
<1>5. Do(what, arg) = <<s>> /\ s = <<what, arg>>
  BY DEF Do, s
<1> HIDE DEF s
<1>6. OneStatement(<<s>>, what, arg)
  BY <1>1, <1>2, <1>3, <1>4, <1>5 DEF OneStatement
<1> QED
  BY <1>5, <1>6

LEMMA OnePlain ==
  ASSUME NEW door, NEW what, NEW arg, what \notin {"read journal", "check", "stage"}
  PROVE  Plain(door, Do(what, arg))
<1>1. ASSUME NEW p, OneStatement(p, what, arg)
      PROVE  Plain(door, p)
  BY <1>1 DEF OneStatement, Plain, Composed, Fine
<1> QED
  BY <1>1, OneOf

LEMMA CheckPlain ==
  ASSUME NEW door, NEW e,
         \/ e \in Domain \cup {None, "FileNotFoundError", "UnicodeDecodeError"}
         \/ e = "HTTPException" /\ door # "cli"
  PROVE  Plain(door, Do("check", e))
<1>1. ASSUME NEW p, OneStatement(p, "check", e)
      PROVE  Plain(door, p)
  BY <1>1 DEF OneStatement, Plain, Composed, Fine
<1> QED
  BY <1>1, OneOf

LEMMA JournalPlain ==
  ASSUME NEW door, NEW j \in {"jobs", "logs"}
  PROVE  Plain(door, Do("read journal", j))
<1>1. ASSUME NEW p, OneStatement(p, "read journal", j)
      PROVE  Plain(door, p)
  BY <1>1 DEF OneStatement, Plain, Composed, Fine
<1> QED
  BY <1>1, OneOf

LEMMA Joined ==
  ASSUME NEW p, NEW q, IsProgram(p), IsProgram(q)
  PROVE  /\ IsProgram(p \o q) /\ Len(p \o q) = Len(p) + Len(q)
         /\ \A i \in 1 .. Len(p) : (p \o q)[i] = p[i]
         /\ \A i \in 1 .. Len(q) : (p \o q)[Len(p) + i] = q[i]
         /\ \A i \in 1 .. Len(p \o q) :
              \/ i \in 1 .. Len(p) /\ (p \o q)[i] = p[i]
              \/ i - Len(p) \in 1 .. Len(q) /\ (p \o q)[i] = q[i - Len(p)]
<1>1. PICK S : p \in Seq(S)
  BY DEF IsProgram
<1>2. PICK T : q \in Seq(T)
  BY DEF IsProgram
<1>3. p \in Seq(S \cup T) /\ q \in Seq(S \cup T)
  BY <1>1, <1>2
<1>4. /\ p \o q \in Seq(S \cup T) /\ Len(p \o q) = Len(p) + Len(q)
      /\ Len(p) \in Nat /\ Len(q) \in Nat
      /\ \A i \in 1 .. Len(p) + Len(q) : (p \o q)[i] = IF i <= Len(p) THEN p[i] ELSE q[i - Len(p)]
  BY <1>3, ConcatProperties
<1>5. IsProgram(p \o q)
  BY <1>4 DEF IsProgram
<1> QED
  BY <1>4, <1>5

LEMMA JoinedComposed ==
  ASSUME NEW door, NEW staged, NEW p, NEW q, Composed(door, staged, p), Composed(door, staged, q)
  PROVE  Composed(door, staged, p \o q)
BY Joined DEF Composed

LEMMA JoinedPlain ==
  ASSUME NEW door, NEW p, NEW q, Plain(door, p), Plain(door, q)
  PROVE  Plain(door, p \o q)
BY JoinedComposed DEF Plain

LEMMA PlainAcceptable ==
  ASSUME NEW door, NEW p, Plain(door, p)
  PROVE  Acceptable(door, p)
BY DEF Plain, Acceptable, Composed

\* What FlattenSeq chooses: each value is the one before it and one sequence more.
Flattens(f, seqs, n) ==
  f = [i \in 1 .. n |-> IF i = 1 THEN seqs[i] ELSE f[i - 1] \o seqs[i]]

LEMMA FlattensExists ==
  ASSUME NEW seqs, NEW n \in Nat
  PROVE  \E f : Flattens(f, seqs, n)
<1> DEFINE bad == {m \in Nat : ~ \E f : Flattens(f, seqs, m)}
<1>1. ASSUME bad # {}
      PROVE  FALSE
  <2>1. PICK m \in bad : \A l \in bad : m <= l
    BY <1>1, LeastNatural
  <2>2. Flattens([i \in 1 .. 0 |-> 0], seqs, 0)
    BY DEF Flattens
  <2>3. m \in Nat /\ m # 0 /\ m - 1 \in Nat /\ m - 1 \notin bad
    BY <2>1, <2>2
  <2>4. PICK g : Flattens(g, seqs, m - 1)
    BY <2>3
  <2> DEFINE f == [i \in 1 .. m |-> IF i = 1 THEN seqs[i] ELSE IF i = m THEN g[m - 1] \o seqs[i] ELSE g[i]]
  <2>5. \A i \in 1 .. m - 1 : g[i] = IF i = 1 THEN seqs[i] ELSE g[i - 1] \o seqs[i]
    BY <2>4 DEF Flattens
  <2>6. \A i \in 1 .. m - 1 : f[i] = g[i]
    BY <2>3, <2>5
  <2>7. \A i \in 1 .. m : f[i] = IF i = 1 THEN seqs[i] ELSE f[i - 1] \o seqs[i]
    <3> TAKE i \in 1 .. m
    <3>1. CASE i = 1
      BY <3>1
    <3>2. CASE i # 1 /\ i = m
      <4>1. m - 1 \in 1 .. m - 1 /\ i - 1 = m - 1
        BY <3>2
      <4> QED
        BY <2>6, <3>2, <4>1
    <3>3. CASE i # 1 /\ i # m
      <4>1. i \in 1 .. m - 1 /\ i - 1 \in 1 .. m - 1
        BY <3>3
      <4> QED
        BY <2>5, <2>6, <3>3, <4>1
    <3> QED
      BY <3>1, <3>2, <3>3
  <2>8. f = [i \in 1 .. m |-> f[i]]
    OBVIOUS
  <2> HIDE DEF f
  <2>9. Flattens(f, seqs, m)
    BY <2>7, <2>8 DEF Flattens
  <2> QED
    BY <2>1, <2>9
<1> QED
  BY <1>1

LEMMA FlattenStep ==
  ASSUME NEW n \in Nat, NEW seqs, seqs = [i \in 1 .. n |-> seqs[i]]
  PROVE  /\ n = 0 => FlattenSeq(seqs) = <<>>
         /\ n > 0 => \E f : FlattenSeq(seqs) = f[n] /\ Flattens(f, seqs, n)
<1>1. Len(seqs) = n
  OBVIOUS
<1>2. CASE n = 0
  BY <1>1, <1>2 DEF FlattenSeq
<1>3. CASE n > 0
  <2> DEFINE Value(f, i) == IF i = 1 THEN seqs[i] ELSE f[i - 1] \o seqs[i]
             g == CHOOSE f : f = [i \in 1 .. n |-> Value(f, i)]
  <2>1. FlattenSeq(seqs) = g[n]
    BY <1>1, <1>3 DEF FlattenSeq
  <2>2. Flattens(g, seqs, n)
    <3>1. \E f : f = [i \in 1 .. n |-> Value(f, i)]
      BY FlattensExists DEF Flattens
    <3>2. g = [i \in 1 .. n |-> Value(g, i)]
      BY <3>1
    <3> QED
      BY <3>2 DEF Flattens
  <2> HIDE DEF g
  <2>3. \E f : FlattenSeq(seqs) = f[n] /\ Flattens(f, seqs, n)
    <3> SUFFICES FlattenSeq(seqs) = g[n] /\ Flattens(g, seqs, n)
      OBVIOUS
    <3> QED
      BY <2>1, <2>2
  <2>4. n # 0
    BY <1>3
  <2> QED
    BY <2>3, <2>4
<1> QED
  BY <1>2, <1>3

LEMMA FlattenComposed ==
  ASSUME NEW door, NEW staged, NEW n \in Nat, NEW seqs, seqs = [i \in 1 .. n |-> seqs[i]],
         \A i \in 1 .. n : Composed(door, staged, seqs[i])
  PROVE  Composed(door, staged, FlattenSeq(seqs))
<1>1. CASE n = 0
  BY <1>1, FlattenStep, EmptyComposed
<1>2. CASE n > 0
  <2>1. PICK f : FlattenSeq(seqs) = f[n] /\ Flattens(f, seqs, n)
    BY <1>2, FlattenStep
  <2>2. \A i \in 1 .. n : f[i] = IF i = 1 THEN seqs[i] ELSE f[i - 1] \o seqs[i]
    BY <2>1 DEF Flattens
  <2> DEFINE bad == {m \in Nat : m \in 1 .. n /\ ~Composed(door, staged, f[m])}
  <2>3. ASSUME bad # {}
        PROVE  FALSE
    <3>1. PICK m \in bad : \A l \in bad : m <= l
      BY <2>3, LeastNatural
    <3>2. m # 1
      BY <2>2, <3>1
    <3>3. m \in 1 .. n /\ m - 1 \in 1 .. n /\ m - 1 \in Nat /\ ~(m <= m - 1)
      BY <3>1, <3>2
    <3>4. Composed(door, staged, f[m - 1]) /\ f[m] = f[m - 1] \o seqs[m]
      BY <2>2, <3>1, <3>2, <3>3
    <3> QED
      BY <3>1, <3>3, <3>4, JoinedComposed
  <2> QED
    BY <1>2, <2>1, <2>3
<1> QED
  BY <1>1, <1>2
LEMMA FlattenPlain ==
  ASSUME NEW door, NEW n \in Nat, NEW seqs, seqs = [i \in 1 .. n |-> seqs[i]],
         \A i \in 1 .. n : Plain(door, seqs[i])
  PROVE  Plain(door, FlattenSeq(seqs))
BY FlattenComposed DEF Plain

------------------------------------------------------------------------------
(* FrontDoors: the programs of the services *)
LEMMA ReadsPlain ==
  ASSUME NEW door, NEW arg
  PROVE  /\ Plain(door, OpenGraph) /\ Plain(door, CountMeetings) /\ Plain(door, QueryMemories(arg))
         /\ Plain(door, GetMeeting(arg)) /\ Plain(door, GetMemory(arg)) /\ Plain(door, Log(arg))
         /\ Plain(door, Do("read graph", arg)) /\ Plain(door, Do("get node", arg))
         /\ Plain(door, Do("all meetings", arg)) /\ Plain(door, Do("resolve", arg))
         /\ Plain(door, Do("process file", arg)) /\ Plain(door, Do("register", arg))
         /\ Plain(door, Do("save memories", arg)) /\ Plain(door, Do("list meetings", arg))
         /\ Plain(door, Do("count memories", arg))
BY OnePlain DEF OpenGraph, CountMeetings, QueryMemories, GetMeeting, GetMemory, Log

LEMMA JournalsPlain == ASSUME NEW door  PROVE Plain(door, Jobs) /\ Plain(door, Logs)
BY JournalPlain DEF Jobs, Logs

LEMMA ListMeetingsPlain ==
  ASSUME NEW door, NEW limit, NEW offset
  PROVE  Plain(door, ListMeetings(limit, offset))
BY OnePlain DEF ListMeetings

LEMMA CountOfPlain ==
  ASSUME NEW door, NEW part, NEW kinds
  PROVE  Plain(door, CountOf(part, kinds))
BY OnePlain DEF CountOf

LEMMA StatsPlain ==
  ASSUME NEW door, NEW kinds, NEW n \in Nat, DOMAIN kinds = 1 .. n
  PROVE  Plain(door, Stats(kinds))
<1> DEFINE each == [i \in DOMAIN kinds |-> CountOf("by type", {kinds[i]})]
<1>1. each = [i \in 1 .. n |-> each[i]] /\ \A i \in 1 .. n : Plain(door, each[i])
  BY CountOfPlain
<1>2. CountByType(kinds) = FlattenSeq(each)
  BY DEF CountByType
<1> HIDE DEF each
<1>3. Plain(door, CountByType(kinds))
  BY <1>1, <1>2, FlattenPlain
<1>4. Plain(door, CountMeetings \o CountOf("total", Kind))
  BY ReadsPlain, CountOfPlain, JoinedPlain
<1>5. Plain(door, (CountMeetings \o CountOf("total", Kind)) \o CountByType(kinds))
  BY <1>3, <1>4, JoinedPlain
<1> QED
  BY <1>5, CountOfPlain, JoinedPlain DEF Stats

LEMMA ImportFilePlain ==
  ASSUME NEW door, NEW source, NEW how
  PROVE  Plain(door, ImportFile(source, how))
<1> DEFINE arg == [source |-> source, how |-> how]
<1>1. Plain(door, Do("process file", arg) \o Do("register", arg))
  BY ReadsPlain, JoinedPlain
<1>2. Plain(door, (Do("process file", arg) \o Do("register", arg)) \o Do("save memories", arg))
  BY <1>1, ReadsPlain, JoinedPlain
<1> QED
  BY <1>2 DEF ImportFile

LEMMA SourcesListed ==
  ASSUME NEW path, IsFiniteSet(path.files), NEW recursive
  PROVE  \E n \in Nat : DOMAIN SourcesAt(path, recursive) = 1 .. n
<1>1. ASSUME NEW r
      PROVE  \E n \in Nat : DOMAIN Readable(path, r) = 1 .. n
  <2> DEFINE files == {f \in path.files : f.supported /\ (f.nested => r)}
  <2>1. IsFiniteSet(files) /\ Cardinality(files) \in Nat
    BY FS_Subset, FS_CardinalityType
  <2>2. DOMAIN Readable(path, r) = 1 .. Cardinality(files)
    BY DEF Readable, Arranged
  <2> QED
    BY <2>1, <2>2
<1>2. DOMAIN SetToSeq(path.files) = 1 .. Cardinality(path.files)
  <2>1. \E f \in [1 .. Cardinality(path.files) -> path.files] : IsInjective(f)
    BY FS_CardinalityType DEF ExistsBijection, Bijection, Injection, IsInjective
  <2>2. SetToSeq(path.files) \in [1 .. Cardinality(path.files) -> path.files]
    BY <2>1 DEF SetToSeq
  <2> QED
    BY <2>2
<1>3. DOMAIN <<>> = 1 .. 0
  OBVIOUS
<1>4. Cardinality(path.files) \in Nat /\ 0 \in Nat
  BY FS_CardinalityType
<1>5. \/ SourcesAt(path, recursive) \in {Readable(path, recursive), Readable(path, TRUE)}
      \/ SourcesAt(path, recursive) = SetToSeq(path.files)
      \/ SourcesAt(path, recursive) = <<>>
  BY DEF SourcesAt
<1> QED
  BY <1>1, <1>2, <1>3, <1>4, <1>5

LEMMA ImportPathPlain ==
  ASSUME NEW door, NEW path, IsFiniteSet(path.files), NEW how, NEW recursive
  PROVE  Plain(door, ImportPath(path, how, recursive))
<1> DEFINE files == SourcesAt(path, recursive)
           each == [i \in DOMAIN files |-> ImportFile(files[i], how)]
<1>1. PICK n \in Nat : DOMAIN files = 1 .. n
  BY SourcesListed
<1>2. each = [i \in 1 .. n |-> each[i]] /\ \A i \in 1 .. n : Plain(door, each[i])
  BY <1>1, ImportFilePlain
<1>3. ImportPath(path, how, recursive) = Do("resolve", path) \o FlattenSeq(each)
  BY DEF ImportPath
<1> HIDE DEF each, files
<1>4. Plain(door, FlattenSeq(each))
  BY <1>2, FlattenPlain
<1> QED
  BY <1>3, <1>4, ReadsPlain, JoinedPlain

LEMMA ImportContentPlain ==
  ASSUME NEW door, NEW text, NEW how
  PROVE  Plain(door, ImportContent(text, how))
<1> DEFINE file == [text |-> text, stem |-> "upload", supported |-> TRUE, nested |-> FALSE]
           path == [connector |-> "file", opens |-> TRUE, files |-> {file}]
<1>1. IsFiniteSet(path.files)
  BY FS_Singleton
<1>2. ImportContent(text, how) = ImportPath(path, how, FALSE)
  BY DEF ImportContent
<1> HIDE DEF path
<1> QED
  BY <1>1, <1>2, ImportPathPlain

LEMMA SearchPlain == ASSUME NEW door, NEW kinds  PROVE Plain(door, Search(kinds))
BY ReadsPlain, JoinedPlain DEF Search

LEMMA ExplainPlain == ASSUME NEW door, NEW m  PROVE Plain(door, Explain(m))
BY ReadsPlain, JoinedPlain DEF Explain

LEMMA SummaryPlain == ASSUME NEW door  PROVE Plain(door, Summary) /\ Plain(door, GraphExport)
<1>1. Plain(door, OpenGraph \o Do("read graph", {}))
  BY ReadsPlain, JoinedPlain
<1>2. Plain(door, (OpenGraph \o Do("read graph", {})) \o Do("read graph", {}))
  BY <1>1, ReadsPlain, JoinedPlain
<1> QED
  BY <1>2 DEF Summary, GraphExport

LEMMA NeighborsPlain == ASSUME NEW door, NEW node  PROVE Plain(door, Neighbors(node))
<1>1. Plain(door, OpenGraph \o Do("get node", node))
  BY ReadsPlain, JoinedPlain
<1>2. Plain(door, (OpenGraph \o Do("get node", node)) \o Do("read graph", {}))
  BY <1>1, ReadsPlain, JoinedPlain
<1> QED
  BY <1>2 DEF Neighbors

LEMMA PathBetweenPlain == ASSUME NEW door  PROVE Plain(door, PathBetween)
BY ReadsPlain, JoinedPlain DEF PathBetween

LEMMA AnalyzePlain ==
  ASSUME NEW door
  PROVE  Plain(door, Analyze) /\ Plain(door, Insights) /\ Plain(door, Metrics) /\ Plain(door, Recommendations)
<1>1. Plain(door, OpenGraph \o QueryMemories(Kind))
  BY ReadsPlain, JoinedPlain
<1>2. Plain(door, (OpenGraph \o QueryMemories(Kind)) \o Do("all meetings", {}))
  BY <1>1, ReadsPlain, JoinedPlain
<1> QED
  BY <1>2 DEF Analyze, Insights, Metrics, Recommendations

LEMMA RenderPlain == ASSUME NEW door  PROVE Plain(door, Render("markdown"))
BY CheckPlain DEF Render

LEMMA ReportPlain == ASSUME NEW door  PROVE Plain(door, Analyze \o Render("markdown"))
BY AnalyzePlain, RenderPlain, JoinedPlain

LEMMA ExportPlain == ASSUME NEW door  PROVE Plain(door, Export("json"))
<1>1. Plain(door, Do("check", None))
  BY CheckPlain
<1>2. Plain(door, OpenGraph \o Do("check", None))
  BY <1>1, ReadsPlain, JoinedPlain
<1>3. Plain(door, (OpenGraph \o Do("check", None)) \o QueryMemories(Kind))
  BY <1>2, ReadsPlain, JoinedPlain
<1>4. Plain(door, ((OpenGraph \o Do("check", None)) \o QueryMemories(Kind)) \o Do("all meetings", {}))
  BY <1>3, ReadsPlain, JoinedPlain
<1> QED
  BY <1>4 DEF Export

------------------------------------------------------------------------------
(* FrontDoors: jobs *)
LEMMA LogLine ==
  ASSUME NEW j
  PROVE  IsProgram(Log(j)) /\ Len(Log(j)) = 1 /\ Log(j)[1] = <<"append", j>>
BY OneOf DEF Log, OneStatement

LEMMA RunJobAcceptable ==
  ASSUME NEW door, NEW steps, NEW n \in Nat, DOMAIN steps = 1 .. n,
         \A i \in 1 .. n : Plain(door, steps[i])
  PROVE  Acceptable(door, RunJob(steps)) /\ RunJob(steps)[Len(RunJob(steps))] = JobsLine /\ Len(RunJob(steps)) > 0
<1> DEFINE each == [i \in DOMAIN steps |-> steps[i] \o Log("logs") \o Do("stage", {})]
<1>1. ASSUME NEW i \in 1 .. n
      PROVE  Composed(door, TRUE, each[i])
  <2>1. Composed(door, TRUE, Do("stage", {}))
    <3>1. ASSUME NEW p, OneStatement(p, "stage", {})
          PROVE  Composed(door, TRUE, p)
      BY <3>1 DEF OneStatement, Composed, Fine
    <3> QED
      BY <3>1, OneOf
  <2>2. \A p : Plain(door, p) => Composed(door, TRUE, p)
    BY DEF Plain, Composed
  <2>3. Composed(door, TRUE, steps[i] \o Log("logs"))
    BY <2>2, ReadsPlain, JoinedPlain
  <2>4. Composed(door, TRUE, (steps[i] \o Log("logs")) \o Do("stage", {}))
    BY <2>1, <2>3, JoinedComposed
  <2> QED
    BY <2>4
<1>2. each = [i \in 1 .. n |-> each[i]]
  OBVIOUS
<1> DEFINE p == FlattenSeq(each)
<1>3. RunJob(steps) = (p \o Log("logs")) \o Log("jobs")
  BY DEF RunJob
<1> HIDE DEF each
<1>4. Composed(door, TRUE, p)
  BY <1>1, <1>2, FlattenComposed
<1> HIDE DEF p
<1>5. \A j : Composed(door, TRUE, Log(j))
  BY ReadsPlain DEF Plain, Composed
<1>6. Composed(door, TRUE, p \o Log("logs"))
  BY <1>4, <1>5, JoinedComposed
<1> DEFINE q == p \o Log("logs")
<1>7. RunJob(steps) = q \o Log("jobs") /\ Composed(door, TRUE, q)
  BY <1>3, <1>6
<1> HIDE DEF q
<1>8. IsProgram(q) /\ Len(q) \in Nat
  BY <1>7, ProgramLength DEF Composed
<1>9. Len(q \o Log("jobs")) = Len(q) + 1 /\ (q \o Log("jobs"))[Len(q) + 1] = JobsLine
  <2>1. ASSUME NEW r, IsProgram(r), Len(r) = 1
        PROVE  Len(q \o r) = Len(q) + 1 /\ (q \o r)[Len(q) + 1] = r[1]
    <3>1. Len(q \o r) = Len(q) + Len(r)
      BY <1>8, <2>1, Joined
    <3>2. \A i \in 1 .. Len(r) : (q \o r)[Len(q) + i] = r[i]
      BY <1>8, <2>1, Joined
    <3>3. 1 \in 1 .. Len(r)
      BY <2>1
    <3> QED
      BY <2>1, <3>1, <3>2, <3>3
  <2> QED
    BY <2>1, LogLine DEF JobsLine
<1>10. Composed(door, TRUE, q \o Log("jobs"))
  BY <1>5, <1>7, JoinedComposed
<1> DEFINE r == q \o Log("jobs")
<1>11. RunJob(steps) = r /\ Composed(door, TRUE, r) /\ Len(r) = Len(q) + 1 /\ r[Len(q) + 1] = JobsLine
  BY <1>7, <1>9, <1>10
<1> HIDE DEF r
<1>12. r[Len(r)] = JobsLine /\ Len(r) > 0
  BY <1>8, <1>11
<1>13. Acceptable(door, r)
  BY <1>11, <1>12 DEF Acceptable
<1> QED
  BY <1>11, <1>12, <1>13

LEMMA RunConfigAcceptable ==
  ASSUME NEW door, NEW problem, NEW steps, NEW n \in Nat, DOMAIN steps = 1 .. n,
         \A i \in 1 .. n : Plain(door, steps[i])
  PROVE  Acceptable(door, RunConfig(problem, steps))
<1> DEFINE p == Do("check", IF problem THEN "PipelineConfigError" ELSE None)
           q == RunJob(steps)
<1>1. Composed(door, TRUE, p) /\ \A i \in 1 .. Len(p) : p[i][1] # "stage"
  <2>1. (IF problem THEN "PipelineConfigError" ELSE None) \in Domain \cup {None}
    BY DEF Domain
  <2>2. Plain(door, p)
    BY <2>1, CheckPlain
  <2> QED
    BY <2>2 DEF Plain, Composed
<1>2. Acceptable(door, q) /\ q[Len(q)] = JobsLine /\ Len(q) > 0
  BY RunJobAcceptable
<1>3. RunConfig(problem, steps) = p \o q
  BY DEF RunConfig
<1> HIDE DEF p, q
<1>4. Composed(door, TRUE, p \o q)
  BY <1>1, <1>2, JoinedComposed DEF Acceptable
<1>5. /\ Len(p) \in Nat /\ Len(q) \in Nat
      /\ Len(p \o q) = Len(p) + Len(q) /\ (p \o q)[Len(p) + Len(q)] = q[Len(q)]
  BY <1>1, <1>2, Joined, ProgramLength DEF Acceptable, Composed
<1> QED
  BY <1>2, <1>3, <1>4, <1>5 DEF Acceptable

------------------------------------------------------------------------------
(* FrontDoors: the requests of every door *)
Doors == {"http", "sdk", "cli"}
Sound(requests) == \A r \in requests : r.door \in Doors /\ Acceptable(r.door, r.program)
\* Those of an endpoint.
Web(requests) ==
  \A r \in requests :
    /\ r = [door |-> "http", program |-> r.program, valid |-> r.valid]
    /\ Acceptable("http", r.program)

LEMMA HttpWeb ==
  ASSUME NEW programs, \A p \in programs : Acceptable("http", p)
  PROVE  Web(Http(programs)) /\ Web(Checked(programs))
<1>1. Acceptable("http", <<>>)
  BY EmptyPlain, PlainAcceptable
<1> QED
  BY <1>1 DEF Web, Http, Checked, Request, Invalid

LEMMA CliSound ==
  ASSUME NEW programs, \A p \in programs : Acceptable("cli", p)
  PROVE  Sound(Cli(programs))
BY DEF Sound, Cli, Request, Doors

LEMMA WebSound == ASSUME NEW requests, Web(requests)  PROVE Sound(requests)
BY DEF Web, Sound, Doors

LEMMA ThroughSound == ASSUME NEW requests, Web(requests)  PROVE Sound(Through(requests))
<1>1. \A p : Acceptable("http", p) => Acceptable("sdk", p)
  BY DEF Acceptable, Composed, Fine
<1>2. ASSUME NEW r, r = [door |-> "http", program |-> r.program, valid |-> r.valid]
      PROVE  [r EXCEPT !.door = "sdk"].door = "sdk" /\ [r EXCEPT !.door = "sdk"].program = r.program
  BY <1>2
<1> QED
  BY <1>1, <1>2 DEF Web, Sound, Through, Doors

LEMMA WebUnion ==
  ASSUME NEW p, NEW q, Web(p), Web(q)
  PROVE  Web(p \cup q)
BY DEF Web

LEMMA WebPart ==
  ASSUME NEW p, NEW q, Web(q), p \subseteq q
  PROVE  Web(p)
BY DEF Web

LEMMA TypesListed ==
  \A door : Plain(door, Stats(TypeOrder))
<1>1. Len(TypeOrder) \in Nat /\ DOMAIN TypeOrder = 1 .. Len(TypeOrder)
  BY TypesAssumption
<1> QED
  BY <1>1, StatsPlain

\* Every program of an import.
LEMMA ServerPathsPlain == \A door : \A p \in ServerPaths \cup Uploads : Plain(door, p)
BY PathAssumption, ImportPathPlain, ImportContentPlain DEF ServerPaths, Uploads

LEMMA RunsAcceptable == ASSUME NEW door  PROVE \A p \in RunRequests : Acceptable(door, p)
<1>1. ASSUME NEW p \in Path
      PROVE  Acceptable(door, RunConfig(FALSE, <<ImportPath(p, "connector", TRUE), OpenGraph, Search(Kind)>>))
  <2> DEFINE import == ImportPath(p, "connector", TRUE)
             search == Search(Kind)
             graph == OpenGraph
  <2>1. Plain(door, import) /\ Plain(door, graph) /\ Plain(door, search)
    BY PathAssumption, ImportPathPlain, ReadsPlain, SearchPlain
  <2> HIDE DEF import, search, graph
  <2> DEFINE steps == <<import, graph, search>>
  <2>2. DOMAIN steps = 1 .. 3 /\ \A i \in 1 .. 3 : steps[i] \in {import, graph, search}
    OBVIOUS
  <2> HIDE DEF steps
  <2>3. Acceptable(door, RunConfig(FALSE, steps))
    BY <2>1, <2>2, RunConfigAcceptable
  <2> QED
    BY <2>3 DEF steps, import, search, graph
<1>2. Acceptable(door, RunConfig(TRUE, <<>>))
  <2> DEFINE steps == <<>>
  <2>1. DOMAIN steps = 1 .. 0 /\ \A i \in 1 .. 0 : Plain(door, steps[i])
    OBVIOUS
  <2> HIDE DEF steps
  <2>2. Acceptable(door, RunConfig(TRUE, steps))
    BY <2>1, RunConfigAcceptable
  <2> QED
    BY <2>2 DEF steps
<1> QED
  BY <1>1, <1>2 DEF RunRequests

LEMMA TurnedAway ==
  ASSUME NEW e \in Domain \cup {None, "FileNotFoundError", "UnicodeDecodeError", "HTTPException"}
  PROVE  Acceptable("http", Do("check", e))
BY CheckPlain, PlainAcceptable

LEMMA EndpointsWeb ==
  /\ Web(ImportEndpoint) /\ Web(ListMeetingsEndpoint) /\ Web(StatsEndpoint)
  /\ Web(GetMeetingEndpoint) /\ Web(ListMemoriesEndpoint) /\ Web(GetMemoryEndpoint)
  /\ Web(SearchEndpoint) /\ Web(SummaryEndpoint) /\ Web(NeighborsEndpoint) /\ Web(PathEndpoint)
  /\ Web(InsightsEndpoint) /\ Web(MetricsEndpoint) /\ Web(RecommendationsEndpoint)
  /\ Web(ReportsEndpoint) /\ Web(RunEndpoint) /\ Web(ListJobsEndpoint) /\ Web(ListLogsEndpoint)
  /\ Web(HealthEndpoints)
<1>0. \A p : Plain("http", p) => Acceptable("http", p)
  BY PlainAcceptable
<1>1. Web(ImportEndpoint)
  <2>1. Web(Http(ServerPaths \cup Uploads))
    BY <1>0, ServerPathsPlain, HttpWeb
  <2>2. Web(Checked({Do("check", "HTTPException")}))
    BY TurnedAway, HttpWeb
  <2> QED
    BY <2>1, <2>2, WebUnion DEF ImportEndpoint
<1>2. Web(ListMeetingsEndpoint)
  <2>1. \A page \in Pagination : Acceptable("http", ListMeetings(page.limit, page.offset) \o CountMeetings)
    BY <1>0, ListMeetingsPlain, ReadsPlain, JoinedPlain
  <2> QED
    BY <2>1, HttpWeb DEF ListMeetingsEndpoint
<1>3. Web(StatsEndpoint)
  BY <1>0, TypesListed, HttpWeb DEF StatsEndpoint
<1>4. Web(GetMeetingEndpoint) /\ Web(GetMemoryEndpoint)
  BY <1>0, ReadsPlain, HttpWeb DEF GetMeetingEndpoint, GetMemoryEndpoint
<1>5. Web(ListMemoriesEndpoint)
  <2>1. Acceptable("http", QueryMemories(Kind) \o CountOf("total", Kind))
    BY <1>0, ReadsPlain, CountOfPlain, JoinedPlain
  <2> QED
    BY <2>1, HttpWeb DEF ListMemoriesEndpoint
<1>6. Web(SearchEndpoint) /\ Web(SummaryEndpoint) /\ Web(PathEndpoint)
  BY <1>0, SearchPlain, SummaryPlain, PathBetweenPlain, HttpWeb
     DEF SearchEndpoint, SummaryEndpoint, PathEndpoint
<1>7. Web(NeighborsEndpoint)
  BY <1>0, NeighborsPlain, HttpWeb DEF NeighborsEndpoint
<1>8. Web(InsightsEndpoint) /\ Web(MetricsEndpoint) /\ Web(RecommendationsEndpoint)
  BY <1>0, AnalyzePlain, HttpWeb DEF InsightsEndpoint, MetricsEndpoint, RecommendationsEndpoint
<1>9. Web(ReportsEndpoint)
  BY <1>0, ReportPlain, HttpWeb DEF ReportsEndpoint
<1>10. Web(RunEndpoint)
  <2>1. Web(Http(RunRequests))
    BY RunsAcceptable, HttpWeb
  <2>2. Web(Checked({Do("check", "HTTPException")}))
    BY TurnedAway, HttpWeb
  <2> QED
    BY <2>1, <2>2, WebUnion DEF RunEndpoint
<1>11. Web(ListJobsEndpoint) /\ Web(ListLogsEndpoint)
  BY <1>0, JournalsPlain, HttpWeb DEF ListJobsEndpoint, ListLogsEndpoint
<1>12. Web(HealthEndpoints)
  BY <1>0, EmptyPlain, HttpWeb DEF HealthEndpoints
<1> QED
  BY <1>1, <1>2, <1>3, <1>4, <1>5, <1>6, <1>7, <1>8, <1>9, <1>10, <1>11, <1>12

LEMMA HttpSound == Sound(HttpRequests)
<1>1. Web(HttpRequests)
  BY EndpointsWeb DEF HttpRequests, Web
<1> QED
  BY <1>1, WebSound

LEMMA PagesSound == Sound(PageRequests)
<1>0. \A p : Plain("http", p) => Acceptable("http", p)
  BY PlainAcceptable
<1>1. Web(OverviewPage)
  <2>1. Plain("http", Stats(TypeOrder) \o Summary)
    BY TypesListed, SummaryPlain, JoinedPlain
  <2>2. Plain("http", (Stats(TypeOrder) \o Summary) \o Metrics)
    BY <2>1, AnalyzePlain, JoinedPlain
  <2>3. Plain("http", ((Stats(TypeOrder) \o Summary) \o Metrics) \o Jobs)
    BY <2>2, JournalsPlain, JoinedPlain
  <2> QED
    BY <1>0, <2>3, HttpWeb DEF OverviewPage
<1>2. Web(MeetingsPage) /\ Web(GraphPage) /\ Web(InsightsPage) /\ Web(ReportsPage)
  BY <1>0, ListMeetingsPlain, SummaryPlain, AnalyzePlain, ReportPlain, HttpWeb
     DEF MeetingsPage, GraphPage, InsightsPage, ReportsPage
<1>3. Web(SearchPage)
  BY <1>0, EmptyPlain, SearchPlain, HttpWeb DEF SearchPage
<1>4. Web(JobsPage)
  <2>1. Acceptable("http", Jobs \o Logs)
    BY <1>0, JournalsPlain, JoinedPlain
  <2> QED
    BY <2>1, HttpWeb DEF JobsPage
<1>5. Web(PageRequests)
  BY <1>1, <1>2, <1>3, <1>4 DEF PageRequests, Web
<1> QED
  BY <1>5, WebSound

LEMMA SdkSound == Sound(SdkRequests)
<1>1. Sound(ClientImportFile)
  <2>1. Web(Http({Do("check", "FileNotFoundError"), Do("check", "UnicodeDecodeError")}))
    BY TurnedAway, HttpWeb
  <2>2. Web({r \in ImportEndpoint : r.program \in Uploads})
    BY EndpointsWeb, WebPart
  <2> QED
    BY <2>1, <2>2, WebUnion, ThroughSound DEF ClientImportFile
<1>2. Sound(ClientImportDirectory)
  <2>1. Web({r \in ImportEndpoint : r.program \in ServerPaths})
    BY EndpointsWeb, WebPart
  <2> QED
    BY <2>1, ThroughSound DEF ClientImportDirectory
<1>3. /\ Sound(ClientMeetings) /\ Sound(ClientGetMeeting) /\ Sound(ClientStats)
      /\ Sound(ClientMemories) /\ Sound(ClientGetMemory) /\ Sound(ClientSearch)
  BY EndpointsWeb, ThroughSound
     DEF ClientMeetings, ClientGetMeeting, ClientStats, ClientMemories, ClientGetMemory, ClientSearch
<1>4. /\ Sound(ClientGraph) /\ Sound(ClientNeighbors) /\ Sound(ClientPath)
      /\ Sound(ClientInsights) /\ Sound(ClientMetrics) /\ Sound(ClientRecommendations)
  BY EndpointsWeb, ThroughSound
     DEF ClientGraph, ClientNeighbors, ClientPath, ClientInsights, ClientMetrics, ClientRecommendations
<1>5. Sound(ClientReport) /\ Sound(ClientRunPipeline) /\ Sound(ClientJobs) /\ Sound(ClientLogs)
  BY EndpointsWeb, ThroughSound DEF ClientReport, ClientRunPipeline, ClientJobs, ClientLogs
<1> QED
  BY <1>1, <1>2, <1>3, <1>4, <1>5 DEF SdkRequests, Sound

LEMMA InvalidSound == Sound({Invalid("cli")})
BY EmptyPlain, PlainAcceptable DEF Sound, Invalid, Doors

LEMMA CommandsSound == Sound(CliRequests)
<1>0. \A p : Plain("cli", p) => Acceptable("cli", p)
  BY PlainAcceptable
<1>1. Sound(HandleParse) /\ Sound(HandleExtract)
  <2>1. \A e \in {None, "TranscriptLoadError", "ParseError"} : Plain("cli", Do("check", e))
    BY CheckPlain DEF Domain
  <2>2. Sound(HandleParse)
    BY <1>0, <2>1, CliSound DEF HandleParse
  <2> QED
    BY <2>2 DEF HandleExtract
<1>2. Sound(HandleImport)
  BY <1>0, ImportFilePlain, CliSound DEF HandleImport
<1>3. Sound(HandleList) /\ Sound(HandleShow) /\ Sound(HandleMeetings)
  BY <1>0, ReadsPlain, ListMeetingsPlain, CliSound DEF HandleList, HandleShow, HandleMeetings
<1>4. Sound(HandleStats)
  BY <1>0, TypesListed, CliSound DEF HandleStats
<1>5. Sound(HandleSearch) /\ Sound(HandleTimeline) /\ Sound(HandleExplain)
  BY <1>0, SearchPlain, ExplainPlain, CliSound DEF HandleSearch, HandleTimeline, HandleExplain
<1>6. Sound(HandleGraph) /\ Sound(HandleNeighbors) /\ Sound(HandlePath) /\ Sound(HandleExportGraph)
  BY <1>0, SummaryPlain, NeighborsPlain, PathBetweenPlain, CliSound
     DEF HandleGraph, HandleNeighbors, HandlePath, HandleExportGraph
<1>7. Sound(HandleInsights) /\ Sound(HandleRecommendations) /\ Sound(HandleReport)
  BY <1>0, AnalyzePlain, ReportPlain, CliSound DEF HandleInsights, HandleRecommendations, HandleReport
<1>8. Sound(HandleMetrics)
  <2>1. \A p \in {Analyze, Analyze \o Stats(TypeOrder)} : Acceptable("cli", p)
    BY <1>0, AnalyzePlain, TypesListed, JoinedPlain
  <2> QED
    BY <2>1, CliSound DEF HandleMetrics
<1>9. Sound(HandleImportDir)
  <2>1. \A p \in ServerPaths : Acceptable("cli", p \o Log("logs"))
    BY <1>0, ServerPathsPlain, ReadsPlain, JoinedPlain
  <2> QED
    BY <2>1, CliSound DEF HandleImportDir
<1>10. Sound(HandleExport)
  <2>1. Acceptable("cli", Export("json") \o Log("logs"))
    BY <1>0, ExportPlain, ReadsPlain, JoinedPlain
  <2> QED
    BY <2>1, CliSound DEF HandleExport
<1>11. Sound(HandleAutomate)
  BY RunsAcceptable, CliSound DEF HandleAutomate
<1>12. Sound(HandleJobs) /\ Sound(HandleLogs)
  BY <1>0, JournalsPlain, CliSound DEF HandleJobs, HandleLogs
<1>13. Sound(HandleReplay)
  <2>1. Acceptable("cli", Do("all meetings", {}) \o QueryMemories(Kind))
    BY <1>0, ReadsPlain, JoinedPlain
  <2> QED
    BY <2>1, CliSound DEF HandleReplay
<1>14. Sound(HandleDemo)
  <2> DEFINE directories == {q \in Path : q.connector = "directory"}
  <2>1. ASSUME NEW p \in directories
        PROVE  Acceptable("cli", ImportPath(p, "connector", TRUE) \o Stats(TypeOrder) \o Search(Kind)
                                   \o Summary \o Analyze \o Render("markdown"))
    <3> DEFINE a == ImportPath(p, "connector", TRUE)
               b == a \o Stats(TypeOrder)
               c == b \o Search(Kind)
               d == c \o Summary
               e == d \o Analyze
    <3>1. Plain("cli", a)
      BY PathAssumption, ImportPathPlain
    <3>2. Plain("cli", b)
      BY <3>1, TypesListed, JoinedPlain
    <3>3. Plain("cli", c)
      BY <3>2, SearchPlain, JoinedPlain
    <3>4. Plain("cli", d)
      BY <3>3, SummaryPlain, JoinedPlain
    <3>5. Plain("cli", e)
      BY <3>4, AnalyzePlain, JoinedPlain
    <3>6. Plain("cli", e \o Render("markdown"))
      BY <3>5, RenderPlain, JoinedPlain
    <3> QED
      BY <1>0, <3>6
  <2> QED
    BY <2>1, CliSound DEF HandleDemo
<1>15. Sound(HandleProfile)
  <2>1. \A p \in {Search(Kind), Summary, Analyze, Analyze \o Render("markdown")} : Plain("cli", p)
    BY SearchPlain, SummaryPlain, AnalyzePlain, ReportPlain
  <2>2. \A p \in {Search(Kind), Summary, Analyze, Analyze \o Render("markdown")} : Acceptable("cli", p \o p)
    BY <1>0, <2>1, JoinedPlain
  <2> QED
    BY <2>2, CliSound DEF HandleProfile
<1> QED
  BY <1>1, <1>2, <1>3, <1>4, <1>5, <1>6, <1>7, <1>8, <1>9, <1>10, <1>11, <1>12, <1>13, <1>14,
     <1>15, InvalidSound DEF CliRequests, Sound

LEMMA RequestsSound == Sound(Requests)
BY HttpSound, PagesSound, SdkSound, CommandsSound DEF Requests, Sound

LEMMA ImportsSound == Sound(Imports)
<1>1. \A p : Plain("http", p) => Acceptable("http", p)
  BY PlainAcceptable
<1>2. \A t : Acceptable("http", ImportContent(t, "connector"))
  BY <1>1, ImportContentPlain
<1>3. \A p \in Path : Acceptable("http", ImportPath(p, "connector", TRUE))
  BY <1>1, PathAssumption, ImportPathPlain
<1>4. Web(Imports)
  BY <1>2, <1>3, HttpWeb DEF Imports
<1> QED
  BY <1>4, WebSound

LEMMA PageRequestsSound == \A offset : Sound(PageRequest(offset))
BY EndpointsWeb, WebSound DEF PageRequest, Sound

------------------------------------------------------------------------------
(* FrontDoors: failures *)
\* What a caller may be told of, other than an exception.
Settled == (Answers \ {"raised"}) \cup {"busy", "invalid"} \cup Domain

Blamed(s) ==
  \/ s[1] = "process file" /\ s[2].source.text \in {"binary", "missing"}
  \/ s[1] = "resolve" /\ ~s[2].opens
  \/ s \in {Do("check", e)[1] : e \in {"FileNotFoundError", "UnicodeDecodeError"}}
Excused(asked, js) ==
  \/ \E j \in DOMAIN js : ~js[j]
  \/ \E i \in DOMAIN asked : Blamed(asked[i])

\* A session, field by field.
SessionOf(door, program, got, reply, alone, asked) ==
  [door |-> door, program |-> program, got |-> got, reply |-> reply, alone |-> alone, asked |-> asked]

LEMMA OneUpdated ==
  ASSUME NEW door, NEW program, NEW got, NEW reply, NEW alone, NEW asked,
         NEW s, s = SessionOf(door, program, got, reply, alone, asked), NEW x
  PROVE   /\ [s EXCEPT !.program = x] = SessionOf(door, x, got, reply, alone, asked)
          /\ [s EXCEPT !.got = x] = SessionOf(door, program, x, reply, alone, asked)
          /\ [s EXCEPT !.reply = x] = SessionOf(door, program, got, x, alone, asked)
          /\ [s EXCEPT !.alone = x] = SessionOf(door, program, got, reply, x, asked)
          /\ s.door = door /\ s.program = program /\ s.got = got /\ s.reply = reply
          /\ s.alone = alone /\ s.asked = asked
<1>1. [s EXCEPT !.program = x] = SessionOf(door, x, got, reply, alone, asked)
  BY DEF SessionOf
<1>2. [s EXCEPT !.got = x] = SessionOf(door, program, x, reply, alone, asked)
  BY DEF SessionOf
<1>3. [s EXCEPT !.reply = x] = SessionOf(door, program, got, x, alone, asked)
  BY DEF SessionOf
<1>4. [s EXCEPT !.alone = x] = SessionOf(door, program, got, reply, x, asked)
  BY DEF SessionOf
<1>5. /\ s.door = door /\ s.program = program /\ s.got = got /\ s.reply = reply
      /\ s.alone = alone /\ s.asked = asked
  BY DEF SessionOf
<1> QED
  BY <1>1, <1>2, <1>3, <1>4, <1>5

LEMMA TwoUpdated ==
  ASSUME NEW s, s = SessionOf(s.door, s.program, s.got, s.reply, s.alone, s.asked), NEW p, NEW x
  PROVE  /\ [s EXCEPT !.program = p, !.got = x] = SessionOf(s.door, p, x, s.reply, s.alone, s.asked)
         /\ [s EXCEPT !.program = p, !.reply = x] = SessionOf(s.door, p, s.got, x, s.alone, s.asked)
<1>1. [s EXCEPT !.program = p] = SessionOf(s.door, p, s.got, s.reply, s.alone, s.asked)
  BY OneUpdated
<1>2. ASSUME NEW u, u = SessionOf(s.door, p, s.got, s.reply, s.alone, s.asked)
      PROVE  /\ [u EXCEPT !.got = x] = SessionOf(s.door, p, x, s.reply, s.alone, s.asked)
             /\ [u EXCEPT !.reply = x] = SessionOf(s.door, p, s.got, x, s.alone, s.asked)
  BY <1>2, OneUpdated
<1>3. /\ [s EXCEPT !.program = p, !.got = x] = [[s EXCEPT !.program = p] EXCEPT !.got = x]
      /\ [s EXCEPT !.program = p, !.reply = x] = [[s EXCEPT !.program = p] EXCEPT !.reply = x]
  OBVIOUS
<1> QED
  BY <1>1, <1>2, <1>3

\* A session that accounts for its failures, whatever comes next.
Accounted(s, js) ==
  /\ s = SessionOf(s.door, s.program, s.got, s.reply, s.alone, s.asked)
  /\ s.door \in Doors \/ (s.reply = "ready" /\ s.program = <<>>)
  /\ Acceptable(s.door, s.program)
  /\ \A i \in 1 .. Len(s.program) : \E k \in DOMAIN s.asked : s.asked[k] = s.program[i]
  /\ \/ s.reply \in Settled
     \/ s.reply = "HTTPException" /\ s.door # "cli"
     \/ Excused(s.asked, js)

FailuresInv ==
  /\ journals \in [{"jobs", "logs"} -> BOOLEAN]
  /\ DOMAIN session = Caller /\ session = [c \in Caller |-> session[c]]
  /\ \A c \in Caller : Accounted(session[c], journals)

\* No journal is repaired.
Worse(js, ks) == DOMAIN ks = DOMAIN js /\ \A j \in DOMAIN js : ~js[j] => ~ks[j]

LEMMA AccountedStays ==
  ASSUME NEW s, NEW js, NEW ks, Accounted(s, js), Worse(js, ks), NEW alone
  PROVE  Accounted(s, ks) /\ Accounted([s EXCEPT !.alone = alone], ks)
<1>1. Excused(s.asked, js) => Excused(s.asked, ks)
  BY DEF Worse, Excused
<1>2. Accounted(s, ks)
  BY <1>1 DEF Accounted
<1> DEFINE t == [s EXCEPT !.alone = alone]
<1>3. t = SessionOf(s.door, s.program, s.got, s.reply, alone, s.asked)
  BY OneUpdated DEF Accounted
<1>4. /\ t.door = s.door /\ t.program = s.program /\ t.got = s.got /\ t.reply = s.reply
      /\ t.alone = alone /\ t.asked = s.asked
  BY <1>3 DEF SessionOf
<1> HIDE DEF t
<1>5. Accounted(t, ks)
  BY <1>2, <1>3, <1>4 DEF Accounted
<1> QED
  BY <1>2, <1>5 DEF t

LEMMA Suffix ==
  ASSUME NEW door, NEW p, Acceptable(door, p), NEW k \in Nat
  PROVE  /\ Acceptable(door, SubSeq(p, k + 1, Len(p)))
         /\ \A i \in 1 .. Len(SubSeq(p, k + 1, Len(p))) :
              \E j \in 1 .. Len(p) : SubSeq(p, k + 1, Len(p))[i] = p[j]
<1> DEFINE q == SubSeq(p, k + 1, Len(p))
           n == Len(p)
<1>1. PICK S : p \in Seq(S)
  BY DEF Acceptable, Composed, IsProgram
<1>2. n \in Nat /\ \A i \in k + 1 .. n : p[i] \in S
  BY <1>1
<1>3. /\ q \in Seq(S) /\ Len(q) = IF k + 1 <= n THEN n - k ELSE 0
      /\ \A i \in 1 .. n - k : q[i] = p[k + i]
  <2>1. /\ q \in Seq(S) /\ Len(q) = IF k + 1 <= n THEN n - (k + 1) + 1 ELSE 0
        /\ \A i \in 1 .. n - (k + 1) + 1 : q[i] = p[(k + 1) + i - 1]
    BY <1>2, SubSeqProperties
  <2> QED
    BY <1>2, <2>1
<1> HIDE DEF q
<1>4. \A i \in 1 .. Len(q) : k + i \in 1 .. n /\ q[i] = p[k + i]
  BY <1>2, <1>3
<1>5. Len(q) # 0 => k + Len(q) = n
  BY <1>2, <1>3
<1> HIDE DEF n
<1>6. IsProgram(q)
  BY <1>3 DEF IsProgram
<1>7. Composed(door, TRUE, p)
  BY DEF Acceptable
<1>8. Composed(door, TRUE, q)
  BY <1>4, <1>6, <1>7 DEF Composed, n
<1>9. ASSUME NEW i \in 1 .. Len(q), q[i][1] = "stage"
      PROVE  q[Len(q)] = JobsLine
  <2>1. p[n] = JobsLine
    BY <1>4, <1>9 DEF Acceptable, n
  <2>2. Len(q) \in Nat /\ Len(q) # 0 /\ Len(q) \in 1 .. Len(q)
    BY <1>6, <1>9, ProgramLength
  <2> QED
    BY <1>4, <1>5, <2>1, <2>2
<1>10. Acceptable(door, q)
  BY <1>8, <1>9 DEF Acceptable
<1> QED
  BY <1>4, <1>10 DEF q, n

LEMMA AccountedOnward ==
  ASSUME NEW s, NEW js, Accounted(s, js), s.door \in Doors, NEW k \in Nat, NEW got
  PROVE  Accounted([s EXCEPT !.program = SubSeq(@, k + 1, Len(@)), !.got = got], js)
<1> DEFINE q == SubSeq(s.program, k + 1, Len(s.program))
           t == [s EXCEPT !.program = SubSeq(@, k + 1, Len(@)), !.got = got]
<1>0. s = SessionOf(s.door, s.program, s.got, s.reply, s.alone, s.asked)
  BY DEF Accounted
<1>1. t = SessionOf(s.door, q, got, s.reply, s.alone, s.asked)
  BY <1>0, TwoUpdated
<1>2. /\ Acceptable(s.door, q)
      /\ \A i \in 1 .. Len(q) : \E j \in 1 .. Len(s.program) : q[i] = s.program[j]
  BY Suffix DEF Accounted
<1> HIDE DEF q
<1>3. /\ t.door = s.door /\ t.program = q /\ t.got = got /\ t.reply = s.reply
      /\ t.alone = s.alone /\ t.asked = s.asked
  BY <1>1 DEF SessionOf
<1> HIDE DEF t
<1>4. \A i \in 1 .. Len(q) : \E j \in DOMAIN s.asked : s.asked[j] = q[i]
  BY <1>2 DEF Accounted
<1>5. /\ t = SessionOf(t.door, t.program, t.got, t.reply, t.alone, t.asked)
      /\ t.door \in Doors \/ (t.reply = "ready" /\ t.program = <<>>)
      /\ Acceptable(t.door, t.program)
  BY <1>1, <1>2, <1>3 DEF Accounted
<1>6. \A i \in 1 .. Len(t.program) : \E j \in DOMAIN t.asked : t.asked[j] = t.program[i]
  BY <1>3, <1>4
<1>7. \/ t.reply \in Settled
      \/ t.reply = "HTTPException" /\ t.door # "cli"
      \/ Excused(t.asked, js)
  BY <1>3 DEF Accounted
<1>8. Accounted(t, js)
  BY <1>5, <1>6, <1>7 DEF Accounted
<1> QED
  BY <1>8 DEF t

\* What a request may end with.
MayEnd(s, js, reply) ==
  \/ reply \in Settled
  \/ reply = "HTTPException" /\ s.door # "cli"
  \/ Excused(s.asked, js)

LEMMA AccountedEnd ==
  ASSUME NEW s, NEW js, Accounted(s, js), NEW reply, MayEnd(s, js, reply), s.door \in Doors \/ reply = "ready"
  PROVE  /\ Accounted([s EXCEPT !.program = <<>>, !.reply = reply], js)
         /\ s.program = <<>> => Accounted([s EXCEPT !.reply = reply], js)
<1> DEFINE t == SessionOf(s.door, <<>>, s.got, reply, s.alone, s.asked)
<1>0. s = SessionOf(s.door, s.program, s.got, s.reply, s.alone, s.asked)
  BY DEF Accounted
<1>1. /\ [s EXCEPT !.program = <<>>, !.reply = reply] = t
      /\ s.program = <<>> => [s EXCEPT !.reply = reply] = t
  <2>1. [s EXCEPT !.program = <<>>, !.reply = reply] = t
    BY <1>0, TwoUpdated
  <2>2. [s EXCEPT !.reply = reply] = SessionOf(s.door, s.program, s.got, reply, s.alone, s.asked)
    BY <1>0, OneUpdated
  <2> QED
    BY <2>1, <2>2
<1>2. /\ t.door = s.door /\ t.program = <<>> /\ t.got = s.got /\ t.reply = reply
      /\ t.alone = s.alone /\ t.asked = s.asked
  BY DEF SessionOf
<1>3. t = SessionOf(t.door, t.program, t.got, t.reply, t.alone, t.asked)
  BY <1>2
<1> HIDE DEF t
<1>4. Acceptable(s.door, <<>>) /\ Len(<<>>) = 0
  BY EmptyPlain, PlainAcceptable
<1>5. /\ t.door \in Doors \/ (t.reply = "ready" /\ t.program = <<>>)
      /\ Acceptable(t.door, t.program)
  BY <1>2, <1>4 DEF Accounted
<1>6. \A i \in 1 .. Len(t.program) : \E j \in DOMAIN t.asked : t.asked[j] = t.program[i]
  BY <1>2, <1>4
<1>7. \/ t.reply \in Settled
      \/ t.reply = "HTTPException" /\ t.door # "cli"
      \/ Excused(t.asked, js)
  BY <1>2 DEF MayEnd
<1>8. Accounted(t, js)
  BY <1>3, <1>5, <1>6, <1>7 DEF Accounted
<1> QED
  BY <1>1, <1>8

LEMMA OneChanges ==
  ASSUME FailuresInv, NEW c \in Caller, NEW s,
         journals' \in [{"jobs", "logs"} -> BOOLEAN], Worse(journals, journals'),
         Accounted(s, journals'),
         \/ session' = [session EXCEPT ![c] = s]
         \/ \E wrote : session' = [d \in Caller |->
              IF d = c THEN s ELSE [session[d] EXCEPT !.alone = @ /\ ~wrote]]
  PROVE  FailuresInv'
<1>1. \A d \in Caller : Accounted(session[d], journals)
  BY DEF FailuresInv
<1>2. CASE session' = [session EXCEPT ![c] = s]
  <2>1. /\ DOMAIN session' = Caller /\ session' = [d \in Caller |-> session'[d]]
        /\ \A d \in Caller : session'[d] = IF d = c THEN s ELSE session[d]
    BY <1>2 DEF FailuresInv
  <2>2. \A d \in Caller : Accounted(session'[d], journals')
    BY <1>1, <2>1, AccountedStays
  <2> QED
    BY <2>1, <2>2 DEF FailuresInv
<1>3. ASSUME NEW wrote,
             session' = [d \in Caller |-> IF d = c THEN s ELSE [session[d] EXCEPT !.alone = @ /\ ~wrote]]
      PROVE  FailuresInv'
  <2>1. /\ DOMAIN session' = Caller /\ session' = [d \in Caller |-> session'[d]]
        /\ \A d \in Caller : \/ session'[d] = s
                              \/ session'[d] = [session[d] EXCEPT !.alone = session[d].alone /\ ~wrote]
    BY <1>3
  <2>2. \A d \in Caller : Accounted([session[d] EXCEPT !.alone = session[d].alone /\ ~wrote], journals')
    BY <1>1, AccountedStays
  <2>3. \A d \in Caller : Accounted(session'[d], journals')
    BY <2>1, <2>2
  <2> QED
    BY <2>1, <2>3 DEF FailuresInv
<1> QED
  BY <1>2, <1>3

LEMMA WorseSame == FailuresInv => Worse(journals, journals)
BY DEF Worse

LEMMA OnwardKeeps ==
  ASSUME FailuresInv, NEW c \in Caller, session[c].door \in Doors, NEW k \in Nat, NEW got, NEW wrote, Onward(c, k, got, wrote),
         journals' \in [{"jobs", "logs"} -> BOOLEAN], Worse(journals, journals')
  PROVE  FailuresInv'
<1> DEFINE t == [session[c] EXCEPT !.program = SubSeq(@, k + 1, Len(@)), !.got = got]
<1>1. Accounted(t, journals')
  BY AccountedOnward, AccountedStays DEF FailuresInv
<1>2. session' = [d \in Caller |-> IF d = c THEN t ELSE [session[d] EXCEPT !.alone = @ /\ ~wrote]]
  BY DEF Onward
<1> HIDE DEF t
<1> QED
  BY <1>1, <1>2, OneChanges

\* A statement fails for a reason, and the last line of a job is no such statement.
MayThrow(c, error) ==
  /\ session[c].program # <<>> /\ Now(c) # JobsLine
  /\ \/ error \in Domain
     \/ error = "HTTPException" /\ session[c].door # "cli"
     \/ Excused(session[c].asked, journals)

LEMMA ThrowKeeps ==
  ASSUME FailuresInv, NEW c \in Caller, session[c].door \in Doors, NEW error, MayThrow(c, error),
         Throw(c, error), UNCHANGED journals
  PROVE  FailuresInv'
<1>0. /\ Accounted(session[c], journals) /\ Worse(journals, journals')
      /\ journals' \in [{"jobs", "logs"} -> BOOLEAN]
  BY DEF FailuresInv, Worse
<1>1. CASE InJob(c) /\ Onward(c, Len(session[c].program) - 2, Failed(c), FALSE)
  <2> DEFINE p == session[c].program
  <2>1. IsProgram(p)
    BY <1>0 DEF Accounted, Acceptable, Composed
  <2>2. Len(p) \in Nat /\ DOMAIN p = 1 .. Len(p) /\ Len(p) # 0
    BY <2>1, ProgramLength DEF MayThrow
  <2>3. p[1] # JobsLine
    BY <2>1, <2>2 DEF MayThrow, Now, IsProgram
  <2>4. PICK i \in 1 .. Len(p) : p[i] = Log("jobs")[1]
    BY <1>1, <2>2 DEF InJob
  <2>5. p[i] = JobsLine
    BY <2>4, LogLine DEF JobsLine
  <2>6. i # 1 /\ Len(p) - 2 \in Nat
    BY <2>2, <2>3, <2>4, <2>5
  <2> QED
    BY <1>0, <1>1, <2>6, OnwardKeeps
<1>2. CASE session' = [session EXCEPT ![c].program = <<>>, ![c].reply = error]
  <2> DEFINE t == [session[c] EXCEPT !.program = <<>>, !.reply = error]
  <2>1. session' = [session EXCEPT ![c] = t]
    BY <1>2 DEF FailuresInv
  <2>2. MayEnd(session[c], journals', error)
    BY <1>0 DEF MayThrow, MayEnd, Settled
  <2>3. Accounted(t, journals')
    BY <1>0, <2>2, AccountedEnd
  <2> HIDE DEF t
  <2> QED
    BY <1>0, <2>1, <2>3, OneChanges
<1> QED
  BY <1>1, <1>2 DEF Throw

LEMMA HeadFacts ==
  ASSUME FailuresInv, NEW c \in Caller, NEW what, Serving(c, what)
  PROVE  /\ Fine(session[c].door, Now(c))
         /\ \E k \in DOMAIN session[c].asked : session[c].asked[k] = Now(c)
         /\ what # "append" => Now(c) # JobsLine
         /\ what = "stage" => Len(session[c].program) - 2 \in Nat
<1> DEFINE p == session[c].program
           door == session[c].door
           asked == session[c].asked
<1>1. /\ Acceptable(door, p)
      /\ \A i \in 1 .. Len(p) : \E k \in DOMAIN asked : asked[k] = p[i]
  BY DEF FailuresInv, Accounted
<1>2. p # <<>> /\ Now(c)[1] = what /\ Now(c) = Head(p)
  BY DEF Serving, Now
<1> HIDE DEF p, door, asked
<1>3. IsProgram(p) /\ Composed(door, TRUE, p)
  BY <1>1 DEF Acceptable, Composed
<1>4. Len(p) \in Nat /\ Len(p) # 0 /\ 1 \in 1 .. Len(p) /\ Len(p) \in 1 .. Len(p)
  BY <1>2, <1>3, ProgramLength
<1>5. Now(c) = p[1]
  BY <1>2, <1>3, <1>4 DEF IsProgram
<1>6. Fine(door, Now(c)) /\ \E k \in DOMAIN asked : asked[k] = Now(c)
  BY <1>1, <1>3, <1>4, <1>5 DEF Composed
<1>7. ASSUME what # "append"
      PROVE  Now(c) # JobsLine
  BY <1>2, <1>7 DEF JobsLine
<1>8. ASSUME what = "stage"
      PROVE  Len(p) - 2 \in Nat
  <2>1. p[Len(p)] = JobsLine
    BY <1>1, <1>2, <1>4, <1>5, <1>8 DEF Acceptable
  <2>2. p[1] # JobsLine
    BY <1>5, <1>7, <1>8
  <2>3. Len(p) # 1
    BY <2>1, <2>2
  <2>4. \A n \in Nat : n # 0 /\ n # 1 => n - 2 \in Nat
    OBVIOUS
  <2> QED
    BY <1>4, <2>3, <2>4
<1> QED
  BY <1>6, <1>7, <1>8 DEF p, door, asked

\* One statement on, or a failure that is accounted for.
Proceeds(c) ==
  \/ \E k \in Nat : \E got, wrote : Onward(c, k, got, wrote)
  \/ \E error : Throw(c, error) /\ MayThrow(c, error)

LEMMA ProceedsKeeps ==
  ASSUME FailuresInv, NEW c \in Caller, session[c].door \in Doors, Proceeds(c), UNCHANGED journals
  PROVE  FailuresInv'
<1>1. Worse(journals, journals') /\ journals' \in [{"jobs", "logs"} -> BOOLEAN]
  BY DEF FailuresInv, Worse
<1> QED
  BY <1>1, OnwardKeeps, ThrowKeeps DEF Proceeds

LEMMA StatementProceeds ==
  ASSUME FailuresInv, NEW c \in Caller, Statement(c)
  PROVE  Proceeds(c) /\ (AppendRecord(c) \/ UNCHANGED journals)
<1> DEFINE door == session[c].door
           asked == session[c].asked
<1>0. ASSUME NEW what, Serving(c, what), what # "append", NEW error,
             \/ error \in Domain
             \/ error = "HTTPException" /\ door # "cli"
             \/ \E j \in DOMAIN journals : ~journals[j]
             \/ Blamed(Now(c))
      PROVE  MayThrow(c, error)
  <2>1. session[c].program # <<>> /\ Now(c) # JobsLine
    BY <1>0, HeadFacts DEF Serving
  <2>2. Blamed(Now(c)) => Excused(asked, journals)
    BY <1>0, HeadFacts DEF Excused
  <2>3. (\E j \in DOMAIN journals : ~journals[j]) => Excused(asked, journals)
    BY DEF Excused
  <2> QED
    BY <1>0, <2>1, <2>2, <2>3 DEF MayThrow
<1>d. {"MeetingNotFoundError", "MemoryNotFoundError", "NodeNotFoundError", "DuplicateMeetingError",
       "UnknownConnectorError", "ParseError"} \subseteq Domain
  BY DEF Domain
<1>1. CASE ListMeetingRows(c)
  BY <1>1 DEF ListMeetingRows, Proceeds, StoreOnly
<1>2. CASE AllMeetingRows(c)
  BY <1>2 DEF AllMeetingRows, Proceeds, StoreOnly
<1>3. CASE CountRows(c)
  BY <1>3 DEF CountRows, Proceeds, StoreOnly
<1>4. CASE QueryRows(c)
  BY <1>4 DEF QueryRows, Proceeds, StoreOnly
<1>5. CASE FetchRow(c)
  BY <1>0, <1>d, <1>5 DEF FetchRow, Proceeds, StoreOnly
<1>6. CASE ReadGraph(c)
  BY <1>6 DEF ReadGraph, Proceeds, StoreOnly
<1>7. CASE ReadJournal(c)
  <2>1. Argument(c) \in DOMAIN journals
    BY <1>7, HeadFacts DEF ReadJournal, Fine, Serving, Argument, FailuresInv
  <2> QED
    BY <1>0, <1>7, <2>1 DEF ReadJournal, Proceeds, StoreOnly
<1>8. CASE Check(c)
  <2>1. ASSUME Argument(c) # None
        PROVE  MayThrow(c, Argument(c))
    <3>1. Fine(door, Now(c)) /\ Now(c)[1] = "check" /\ Argument(c) = Now(c)[2] /\ Serving(c, "check")
      BY <1>8, HeadFacts DEF Check, Serving, Argument
    <3>2. \/ Argument(c) \in Domain \cup {"FileNotFoundError", "UnicodeDecodeError"}
          \/ Argument(c) = "HTTPException" /\ door # "cli"
      BY <2>1, <3>1 DEF Fine
    <3>3. Argument(c) \in {"FileNotFoundError", "UnicodeDecodeError"} => Blamed(Now(c))
      <4>1. Now(c) = <<"check", Argument(c)>>
        BY <3>1 DEF Fine
      <4>2. \A e : Do("check", e)[1] = <<"check", e>>
        BY DEF Do
      <4> QED
        BY <4>1, <4>2 DEF Blamed
    <3> QED
      BY <1>0, <3>1, <3>2, <3>3
  <2> QED
    BY <1>8, <2>1 DEF Check, Proceeds, StoreOnly
<1>9. CASE BuildGraph(c)
  BY <1>9 DEF BuildGraph, Proceeds
<1>10. CASE ResolveSource(c)
  <2>1. ~Argument(c).opens => Blamed(Now(c))
    BY <1>10 DEF ResolveSource, Serving, Argument, Blamed
  <2> QED
    BY <1>0, <1>d, <1>10, <2>1 DEF ResolveSource, Proceeds, StoreOnly
<1>11. CASE ProcessFile(c)
  <2>1. Argument(c).source.text \in {"binary", "missing"} => Blamed(Now(c))
    BY <1>11 DEF ProcessFile, Serving, Argument, Blamed
  <2>2. 3 \in Nat /\ 1 \in Nat
    OBVIOUS
  <2> QED
    BY <1>0, <1>d, <1>11, <2>1, <2>2 DEF ProcessFile, Proceeds, StoreOnly
<1>12. CASE Register(c)
  BY <1>0, <1>d, <1>12 DEF Register, Proceeds
<1>13. CASE SaveMemories(c)
  BY <1>13 DEF SaveMemories, Proceeds
<1>14. CASE EndStage(c)
  BY <1>14, HeadFacts DEF EndStage, Proceeds, StoreOnly
<1>15. CASE AppendRecord(c)
  BY <1>15 DEF AppendRecord, Proceeds
<1> QED
  BY <1>1, <1>2, <1>3, <1>4, <1>5, <1>6, <1>7, <1>8, <1>9, <1>10, <1>11, <1>12, <1>13, <1>14, <1>15
     DEF Statement

LEMMA AppendKeeps ==
  ASSUME FailuresInv, NEW c \in Caller, session[c].door \in Doors, AppendRecord(c)
  PROVE  FailuresInv'
<1>1. PICK whole \in BOOLEAN : journals' = [journals EXCEPT ![Argument(c)] = @ /\ whole]
  BY DEF AppendRecord
<1>2. journals' \in [{"jobs", "logs"} -> BOOLEAN] /\ Worse(journals, journals')
  BY <1>1 DEF FailuresInv, Worse
<1>3. Onward(c, 1, Got(c), FALSE)
  BY DEF AppendRecord
<1> QED
  BY <1>2, <1>3, OnwardKeeps

LEMMA RunKeeps ==
  ASSUME FailuresInv, NEW c \in Caller, Run(c)
  PROVE  FailuresInv'
<1>1. session[c].door \in Doors
  BY DEF Run, FailuresInv, Accounted
<1> QED
  BY <1>1, StatementProceeds, ProceedsKeeps, AppendKeeps DEF Run

LEMMA Started ==
  ASSUME NEW door, NEW program, NEW reply
  PROVE  [Idle EXCEPT !.door = door, !.program = program, !.asked = program, !.reply = reply] =
           SessionOf(door, program, NoneYet, reply, TRUE, program)
<1>1. PICK i : i = Idle
  OBVIOUS
<1>2. PICK first : first = [i EXCEPT !.door = door]
  OBVIOUS
<1>3. PICK second : second = [first EXCEPT !.program = program]
  OBVIOUS
<1>4. PICK third : third = [second EXCEPT !.asked = program]
  OBVIOUS
<1>5. PICK fourth : fourth = [third EXCEPT !.reply = reply]
  OBVIOUS
<1>6. [i EXCEPT !.door = door, !.program = program, !.asked = program, !.reply = reply] =
        [[[[i EXCEPT !.door = door] EXCEPT !.program = program] EXCEPT !.asked = program]
           EXCEPT !.reply = reply]
  OBVIOUS
<1>7. [i EXCEPT !.door = door, !.program = program, !.asked = program, !.reply = reply] = fourth
  BY <1>2, <1>3, <1>4, <1>5, <1>6
<1>8. first = SessionOf(door, <<>>, NoneYet, "ready", TRUE, <<>>)
  BY <1>1, <1>2 DEF Idle, SessionOf
<1>9. second = SessionOf(door, program, NoneYet, "ready", TRUE, <<>>)
  BY <1>3, <1>8 DEF SessionOf
<1>10. third = SessionOf(door, program, NoneYet, "ready", TRUE, program)
  BY <1>4, <1>9 DEF SessionOf
<1>11. fourth = SessionOf(door, program, NoneYet, reply, TRUE, program)
  BY <1>5, <1>10 DEF SessionOf
<1> QED
  BY <1>1, <1>7, <1>11

LEMMA StartKeeps ==
  ASSUME FailuresInv, NEW c \in Caller, NEW requests, Sound(requests), NEW r \in requests,
         Start(c, r), UNCHANGED journals
  PROVE  FailuresInv'
<1> DEFINE reply == IF r.valid THEN "busy" ELSE "invalid"
           s == SessionOf(r.door, r.program, NoneYet, reply, TRUE, r.program)
<1>1. r.door \in Doors /\ Acceptable(r.door, r.program)
  BY DEF Sound
<1>2. session' = [session EXCEPT ![c] = s]
  <2>1. [Idle EXCEPT !.door = r.door, !.program = r.program, !.asked = r.program, !.reply = reply] = s
    BY Started
  <2> QED
    BY <2>1 DEF Start
<1>3. /\ s.door = r.door /\ s.program = r.program /\ s.got = NoneYet /\ s.reply = reply
      /\ s.alone = TRUE /\ s.asked = r.program
  BY DEF SessionOf
<1>4. s = SessionOf(s.door, s.program, s.got, s.reply, s.alone, s.asked)
  BY <1>3
<1>5. reply \in Settled
  BY DEF Settled
<1> HIDE DEF s, reply
<1>6. \A i \in 1 .. Len(r.program) : \E k \in DOMAIN r.program : r.program[k] = r.program[i]
  <2>1. DOMAIN r.program = 1 .. Len(r.program)
    BY <1>1, ProgramLength DEF Acceptable, Composed
  <2> QED
    BY <2>1
<1>7. Accounted(s, journals')
  BY <1>1, <1>3, <1>4, <1>5, <1>6 DEF Accounted
<1>8. Worse(journals, journals') /\ journals' \in [{"jobs", "logs"} -> BOOLEAN]
  BY DEF FailuresInv, Worse
<1> QED
  BY <1>2, <1>7, <1>8, OneChanges

LEMMA EndKeeps ==
  ASSUME FailuresInv, NEW c \in Caller, NEW reply,
         \/ session' = [session EXCEPT ![c].reply = reply] /\ session[c].program = <<>>
         \/ session' = [session EXCEPT ![c].program = <<>>, ![c].reply = reply],
         MayEnd(session[c], journals, reply), session[c].door \in Doors,
         journals' \in [{"jobs", "logs"} -> BOOLEAN], Worse(journals, journals')
  PROVE  FailuresInv'
<1>1. Accounted(session[c], journals)
  BY DEF FailuresInv
<1>2. CASE session' = [session EXCEPT ![c].reply = reply] /\ session[c].program = <<>>
  <2> DEFINE t == [session[c] EXCEPT !.reply = reply]
  <2>1. session' = [session EXCEPT ![c] = t]
    BY <1>2
  <2>2. Accounted(t, journals)
    BY <1>1, <1>2, AccountedEnd
  <2> HIDE DEF t
  <2>3. Accounted(t, journals')
    BY <2>2, AccountedStays
  <2> QED
    BY <2>1, <2>3, OneChanges
<1>3. CASE session' = [session EXCEPT ![c].program = <<>>, ![c].reply = reply]
  <2> DEFINE t == [session[c] EXCEPT !.program = <<>>, !.reply = reply]
  <2>1. session' = [session EXCEPT ![c] = t]
    BY <1>3 DEF FailuresInv
  <2>2. Accounted(t, journals)
    BY <1>1, AccountedEnd
  <2> HIDE DEF t
  <2>3. Accounted(t, journals')
    BY <2>2, AccountedStays
  <2> QED
    BY <2>1, <2>3, OneChanges
<1> QED
  BY <1>2, <1>3

LEMMA ReplyKeeps ==
  ASSUME FailuresInv, NEW c \in Caller, Reply(c)
  PROVE  FailuresInv'
<1> DEFINE door == session[c].door
           reply == session[c].reply
<1>1. PICK shown \in Shown(c) : session' = [session EXCEPT ![c].reply = shown]
  BY DEF Reply
<1>2. session[c].program = <<>> /\ reply \notin Answers
  BY DEF Reply
<1>3. /\ door \in Doors \/ reply = "ready"
      /\ reply \in Settled \/ (reply = "HTTPException" /\ door # "cli")
           \/ Excused(session[c].asked, journals)
  BY DEF FailuresInv, Accounted
<1>4. door \in Doors
  BY <1>2, <1>3 DEF Answers
<1>5. ASSUME shown = "raised"
      PROVE  Excused(session[c].asked, journals)
  <2> SUFFICES ASSUME reply \in Settled \/ (reply = "HTTPException" /\ door # "cli")
               PROVE  FALSE
    BY <1>3
  <2>1. CASE reply = "busy" \/ reply = "invalid"
    BY <1>1, <1>5, <2>1 DEF Shown
  <2>2. CASE reply \in Domain
    <3>1. StatusFor(reply) # 500
      BY <2>2 DEF StatusFor, Domain
    <3>2. reply # "busy" /\ reply # "invalid"
      BY <2>2 DEF Domain
    <3> QED
      BY <1>1, <1>4, <1>5, <2>2, <3>1, <3>2 DEF Shown, Doors
  <2>3. CASE reply = "HTTPException" /\ door # "cli"
    <3>1. StatusFor(reply) # 500
      BY <2>3 DEF StatusFor, Domain
    <3> QED
      BY <1>1, <1>4, <1>5, <2>3, <3>1 DEF Shown, Doors
  <2> QED
    BY <1>2, <2>1, <2>2, <2>3 DEF Settled
<1>6. shown \in Answers
  <2>1. CASE door = "cli"
    BY <1>1, <2>1 DEF Shown, Answers
  <2>2. CASE door = "sdk"
    BY <1>1, <2>2 DEF Shown, Answers
  <2>3. CASE door = "http"
    BY <1>1, <2>3 DEF Shown, Answers
  <2> QED
    BY <1>4, <2>1, <2>2, <2>3 DEF Doors
<1>7. MayEnd(session[c], journals, shown)
  BY <1>5, <1>6 DEF MayEnd, Settled
<1>8. Worse(journals, journals') /\ journals' \in [{"jobs", "logs"} -> BOOLEAN]
  BY DEF Reply, FailuresInv, Worse
<1> QED
  BY <1>1, <1>2, <1>4, <1>7, <1>8, EndKeeps

LEMMA IdleAccounted == \A js : Accounted(Idle, js)
<1> TAKE js
<1> DEFINE s == Idle
<1>1. /\ s.door = None /\ s.program = <<>> /\ s.got = NoneYet /\ s.reply = "ready"
      /\ s.alone = TRUE /\ s.asked = <<>>
  BY DEF Idle
<1>2. s = SessionOf(s.door, s.program, s.got, s.reply, s.alone, s.asked)
  BY DEF Idle, SessionOf
<1> HIDE DEF s
<1>3. Acceptable(s.door, <<>>) /\ Len(<<>>) = 0
  BY EmptyPlain, PlainAcceptable
<1>4. Accounted(s, js)
  BY <1>1, <1>2, <1>3 DEF Accounted, Settled, Answers
<1> QED
  BY <1>4 DEF s

LEMMA FailuresInit == FrontInit => FailuresInv
<1> SUFFICES ASSUME FrontInit
             PROVE  FailuresInv
  OBVIOUS
<1>1. journals \in [{"jobs", "logs"} -> BOOLEAN] /\ session = [c \in Caller |-> Idle]
  BY DEF FrontInit, ServicesInit
<1> QED
  BY <1>1, IdleAccounted DEF FailuresInv

LEMMA FailuresStep == FailuresInv /\ [FrontNext]_frontVars => FailuresInv'
<1> SUFFICES ASSUME FailuresInv, [FrontNext]_frontVars
             PROVE  FailuresInv'
  OBVIOUS
<1>0. Walker \in Caller
  BY WalkAssumption
<1>1. ASSUME NEW c \in Caller, Ask(c)
      PROVE  FailuresInv'
  <2>1. PICK r \in IF c \in Writer THEN Imports ELSE Requests : Start(c, r)
    BY <1>1 DEF Ask
  <2> QED
    BY <1>1, <2>1, StartKeeps, RequestsSound, ImportsSound DEF Ask
<1>2. ASSUME NEW c \in Caller, DieAppending(c)
      PROVE  FailuresInv'
  <2>1. journals' \in [{"jobs", "logs"} -> BOOLEAN] /\ Worse(journals, journals')
    BY <1>2 DEF DieAppending, FailuresInv, Worse
  <2>2. MayEnd(session[c], journals, "died")
    BY DEF MayEnd, Settled, Answers
  <2>3. session' = [session EXCEPT ![c].program = <<>>, ![c].reply = "died"]
    BY <1>2 DEF DieAppending
  <2>4. session[c].door \in Doors
    BY <1>2 DEF DieAppending, Serving, FailuresInv, Accounted
  <2> QED
    BY <2>1, <2>2, <2>3, <2>4, EndKeeps
<1>3. CASE NextPage
  <2>1. PICK r \in PageRequest(tour.offset) : Start(Walker, r)
    BY <1>3 DEF NextPage
  <2> QED
    BY <1>0, <1>3, <2>1, StartKeeps, PageRequestsSound DEF NextPage
<1>4. CASE TakePage
  <2>1. session' = [session EXCEPT ![Walker] = Idle] /\ UNCHANGED journals
    BY <1>4 DEF TakePage
  <2>2. Worse(journals, journals') /\ journals' \in [{"jobs", "logs"} -> BOOLEAN]
    BY <2>1 DEF FailuresInv, Worse
  <2>3. Accounted(Idle, journals')
    BY <2>1, IdleAccounted
  <2> QED
    BY <1>0, <2>1, <2>2, <2>3, OneChanges
<1>5. CASE UNCHANGED frontVars
  BY <1>5 DEF FailuresInv, frontVars
<1> QED
  BY <1>1, <1>2, <1>3, <1>4, <1>5, RunKeeps, ReplyKeeps DEF FrontNext

LEMMA FailuresInvariance == FrontSpec => []FailuresInv
BY FailuresInit, FailuresStep, PTL DEF FrontSpec

\* Whatever the requests and their timing, an exception that no door handles
\* comes from a source that cannot be read or a journal with a broken line.
THEOREM FailuresAreExplained == FrontSpec => []FailuresExplained
<1>1. FailuresInv => FailuresExplained
  <2> SUFFICES ASSUME FailuresInv, NEW c \in Caller, session[c].reply = "raised"
               PROVE  Excused(session[c].asked, journals)
    BY DEF FailuresExplained, Excused, Blamed
  <2> QED
    BY DEF FailuresInv, Accounted, Settled, Domain
<1> QED
  BY <1>1, FailuresInvariance, PTL

------------------------------------------------------------------------------
(* Observability: profile_memory *)
Called == {"idle", "checked", "running", "measured", "failed", "no tracing", "done", "raised"}
ProfileTypeOK ==
  /\ outer \in BOOLEAN /\ tracing \in BOOLEAN
  /\ profile \in [Worker -> [state : Called, already : BOOLEAN, cut : BOOLEAN]]

\* Whoever found tracing on, or has switched it on, keeps it until another
\* call switches it off under it.
StillTracing ==
  \A w \in Worker :
    /\ profile[w].state = "checked" /\ profile[w].already => tracing \/ profile[w].cut
    /\ profile[w].state = "running" => tracing \/ profile[w].cut
    /\ profile[w].state \in {"no tracing", "raised"} => profile[w].cut

\* Tracing that was on before is never switched off; what was switched on
\* somebody is about to switch off.
SwitchedBack ==
  /\ outer => tracing /\ \A w \in Worker : profile[w].state # "idle" => profile[w].already
  /\ ~outer /\ tracing =>
       \E w \in Worker : /\ ~profile[w].already
                         /\ profile[w].state \in {"running", "measured", "failed", "no tracing"}

ProfileInv == ProfileTypeOK /\ StillTracing /\ SwitchedBack

LEMMA ProfileInitInv == ProfileInit => ProfileInv
<1> SUFFICES ASSUME ProfileInit
             PROVE  ProfileInv
  OBVIOUS
<1>1. /\ outer \in BOOLEAN /\ tracing = outer
      /\ \A w \in Worker : profile[w].state = "idle"
  BY DEF ProfileInit, NotProfiled
<1>2. ProfileTypeOK
  BY DEF ProfileInit, NotProfiled, ProfileTypeOK, Called
<1> QED
  BY <1>1, <1>2 DEF ProfileInv, StillTracing, SwitchedBack

LEMMA CheckTracingInv ==
  ASSUME ProfileInv, NEW w \in Worker, CheckTracing(w)
  PROVE  ProfileInv'
<1> USE DEF ProfileInv
<1>1. ProfileTypeOK'
  BY DEF CheckTracing, ProfileTypeOK, Called
<1>2. StillTracing'
  BY DEF CheckTracing, ProfileTypeOK, StillTracing
<1>3. SwitchedBack'
  BY DEF CheckTracing, ProfileTypeOK, SwitchedBack
<1> QED
  BY <1>1, <1>2, <1>3

LEMMA StartTracingInv ==
  ASSUME ProfileInv, NEW w \in Worker, StartTracing(w)
  PROVE  ProfileInv'
<1> USE DEF ProfileInv
<1>1. /\ profile[w].state = "checked" /\ outer' = outer
      /\ tracing' = (tracing \/ ~profile[w].already)
      /\ profile' = [profile EXCEPT ![w].state = "running"]
  BY DEF StartTracing, SetProfile
<1>2. ProfileTypeOK'
  BY <1>1 DEF ProfileTypeOK, Called
<1>3. StillTracing'
  BY <1>1 DEF ProfileTypeOK, StillTracing
<1>4. SwitchedBack'
  <2>1. outer => tracing' /\ \A v \in Worker : profile'[v].state # "idle" => profile'[v].already
    BY <1>1 DEF ProfileTypeOK, SwitchedBack
  <2>2. ~profile[w].already => ~profile'[w].already /\ profile'[w].state = "running"
    BY <1>1 DEF ProfileTypeOK
  <2>3. \A v \in Worker \ {w} : profile'[v] = profile[v]
    BY <1>1 DEF ProfileTypeOK
  <2> QED
    BY <1>1, <2>1, <2>2, <2>3 DEF SwitchedBack
<1> QED
  BY <1>2, <1>3, <1>4

LEMMA TakeSnapshotInv ==
  ASSUME ProfileInv, NEW w \in Worker, TakeSnapshot(w)
  PROVE  ProfileInv'
<1> USE DEF ProfileInv
<1>1. /\ profile[w].state = "running" /\ outer' = outer /\ tracing' = tracing
      /\ \E to \in {"measured", "failed", "no tracing"} :
           /\ to = "no tracing" => ~tracing
           /\ profile' = [profile EXCEPT ![w].state = to]
  BY DEF TakeSnapshot, SetProfile
<1>2. PICK to \in {"measured", "failed", "no tracing"} :
        (to = "no tracing" => ~tracing) /\ profile' = [profile EXCEPT ![w].state = to]
  BY <1>1
<1>3. ProfileTypeOK'
  BY <1>1, <1>2 DEF ProfileTypeOK, Called
<1>4. StillTracing'
  BY <1>1, <1>2 DEF ProfileTypeOK, StillTracing
<1>5. \A v \in Worker \ {w} : profile'[v] = profile[v]
  BY <1>2 DEF ProfileTypeOK
<1>6. profile'[w].already = profile[w].already /\ profile'[w].state = to
  BY <1>2 DEF ProfileTypeOK
<1>7. SwitchedBack'
  BY <1>1, <1>5, <1>6 DEF SwitchedBack
<1> QED
  BY <1>3, <1>4, <1>7

LEMMA StopTracingInv ==
  ASSUME ProfileInv, NEW w \in Worker, StopTracing(w)
  PROVE  ProfileInv'
<1> USE DEF ProfileInv
<1>1. /\ profile[w].state \in {"measured", "failed", "no tracing"} /\ outer' = outer
      /\ tracing' = (tracing /\ profile[w].already)
      /\ profile' = [v \in Worker |->
           IF v = w THEN [profile[w] EXCEPT !.state = IF @ = "no tracing" THEN "raised" ELSE "done"]
           ELSE [profile[v] EXCEPT !.cut = @ \/ (~profile[w].already /\ profile[v].state \in {"checked", "running"})]]
  BY DEF StopTracing, Stops
<1>2. /\ profile'[w].state = IF profile[w].state = "no tracing" THEN "raised" ELSE "done"
      /\ profile'[w].already = profile[w].already /\ profile'[w].cut = profile[w].cut
      /\ profile'[w] \in [state : Called, already : BOOLEAN, cut : BOOLEAN]
  BY <1>1 DEF ProfileTypeOK, Called
<1>3. ASSUME NEW v \in Worker \ {w}
      PROVE  /\ profile'[v].state = profile[v].state /\ profile'[v].already = profile[v].already
             /\ profile[v].cut => profile'[v].cut
             /\ ~profile[w].already /\ profile[v].state \in {"checked", "running"} => profile'[v].cut
             /\ profile'[v] \in [state : Called, already : BOOLEAN, cut : BOOLEAN]
  BY <1>1 DEF ProfileTypeOK
<1>4. ProfileTypeOK'
  BY <1>1, <1>2, <1>3 DEF ProfileTypeOK
<1>5. StillTracing'
  <2>1. ASSUME NEW v \in Worker \ {w}
        PROVE  /\ profile'[v].state = "checked" /\ profile'[v].already => tracing' \/ profile'[v].cut
               /\ profile'[v].state = "running" => tracing' \/ profile'[v].cut
               /\ profile'[v].state \in {"no tracing", "raised"} => profile'[v].cut
    BY <1>1, <1>3 DEF StillTracing
  <2>2. profile[w].state = "no tracing" => profile[w].cut
    BY DEF StillTracing
  <2> QED
    BY <1>2, <2>1, <2>2 DEF StillTracing
<1>6. SwitchedBack'
  <2>1. outer => tracing' /\ \A v \in Worker : profile'[v].state # "idle" => profile'[v].already
    BY <1>1, <1>2, <1>3, ZenonT(60) DEF SwitchedBack
  <2>2. ASSUME ~outer, tracing'
        PROVE  \E v \in Worker \ {w} :
                 /\ ~profile'[v].already
                 /\ profile'[v].state \in {"running", "measured", "failed", "no tracing"}
    BY <1>1, <1>3, <2>2 DEF SwitchedBack
  <2> QED
    BY <1>1, <2>1, <2>2 DEF SwitchedBack
<1> QED
  BY <1>4, <1>5, <1>6

LEMMA ProfileNextInv == ProfileInv /\ [ProfileNext]_observabilityVars => ProfileInv'
<1> SUFFICES ASSUME ProfileInv, [ProfileNext]_observabilityVars
             PROVE  ProfileInv'
  OBVIOUS
<1>1. CASE UNCHANGED observabilityVars
  BY <1>1 DEF observabilityVars, ProfileInv, ProfileTypeOK, StillTracing, SwitchedBack
<1> QED
  BY <1>1, CheckTracingInv, StartTracingInv, TakeSnapshotInv, StopTracingInv DEF ProfileNext

\* However many threads profile at once, a profile finds tracing off only when
\* another one that had switched it on finished meanwhile, and after the last
\* one tracing is as it was before the first.
THEOREM ProfilesHold == ProfileSpec => []ProfilesExplained
<1>1. ProfileInv => ProfilesExplained
  BY DEF ProfileInv, ProfileTypeOK, StillTracing, SwitchedBack, ProfilesExplained
<1> QED
  BY <1>1, ProfileInitInv, ProfileNextInv, PTL DEF ProfileSpec

------------------------------------------------------------------------------
(* Observability: snapshots.  What is read of a sequence of samples that     *)
(* grows.                                                                  *)
StartOf(s, t) == Len(s) <= Len(t) /\ \A i \in 1 .. Len(s) : s[i] = t[i]

LEMMA StartsFollow ==
  ASSUME NEW s \in Seq(Nat), NEW t \in Seq(Nat), NEW u \in Seq(Nat), StartOf(s, t), StartOf(t, u)
  PROVE  StartOf(s, u)
<1>1. Len(s) \in Nat /\ Len(t) \in Nat /\ Len(u) \in Nat
  OBVIOUS
<1>2. Len(s) <= Len(t) /\ Len(t) <= Len(u)
  BY DEF StartOf
<1>3. ASSUME NEW i \in 1 .. Len(s)
      PROVE  s[i] = u[i]
  <2>1. i \in 1 .. Len(t)
    BY <1>1, <1>2
  <2> QED
    BY <2>1 DEF StartOf
<1> QED
  BY <1>1, <1>2, <1>3 DEF StartOf

LEMMA AppendedStart ==
  ASSUME NEW s \in Seq(Nat), NEW v \in Nat
  PROVE  Append(s, v) \in Seq(Nat) /\ StartOf(s, Append(s, v))
<1>1. /\ Append(s, v) \in Seq(Nat) /\ Len(Append(s, v)) = Len(s) + 1
      /\ \A i \in 1 .. Len(s) : Append(s, v)[i] = s[i]
  BY AppendProperties
<1> QED
  BY <1>1 DEF StartOf

LEMMA SamplesBounded ==
  ASSUME NEW s \in Seq(Nat)
  PROVE  \E b \in Nat : \A i \in 1 .. Len(s) : s[i] <= b
<1> DEFINE Below(k) == \E b \in Nat : \A i \in 1 .. k : s[i] <= b
           bad == {k \in Nat : k <= Len(s) /\ ~Below(k)}
<1>1. Below(0) /\ Len(s) \in Nat /\ \A i \in 1 .. Len(s) : s[i] \in Nat
  OBVIOUS
<1>2. \A k \in bad : k \in Nat /\ k <= Len(s) /\ ~Below(k)
  OBVIOUS
<1>3. \A k \in Nat : k <= Len(s) /\ ~Below(k) => k \in bad
  OBVIOUS
<1>4. bad \in SUBSET Nat
  OBVIOUS
<1>5. \A k \in Nat : Below(k) => \E b \in Nat : \A i \in 1 .. k : s[i] <= b
  OBVIOUS
<1>6. \A k, b \in Nat : (\A i \in 1 .. k : s[i] <= b) => Below(k)
  OBVIOUS
<1> HIDE DEF Below, bad
<1>7. ASSUME bad # {}
      PROVE  FALSE
  <2>1. PICK k \in bad : \A l \in bad : k <= l
    BY <1>7, <1>4, LeastNatural
  <2>2. k \in Nat /\ k <= Len(s) /\ ~Below(k) /\ k # 0
    BY <1>1, <1>2, <2>1
  <2>3. k - 1 \in Nat /\ k - 1 <= Len(s) /\ ~(k <= k - 1) /\ s[k] \in Nat
    BY <1>1, <2>2
  <2>4. Below(k - 1)
    BY <1>3, <2>1, <2>3
  <2>5. PICK b \in Nat : \A i \in 1 .. k - 1 : s[i] <= b
    BY <1>5, <2>3, <2>4
  <2>6. \A i \in 1 .. k : s[i] <= b + s[k]
    <3> TAKE i \in 1 .. k
    <3>1. CASE i = k
      BY <2>3, <3>1
    <3>2. CASE i # k
      <4>1. i \in 1 .. k - 1 /\ s[i] \in Nat
        BY <1>1, <2>2, <3>2
      <4> QED
        BY <2>3, <2>5, <4>1
    <3> QED
      BY <3>1, <3>2
  <2>7. b + s[k] \in Nat
    BY <2>3
  <2>8. Below(k)
    BY <1>6, <2>2, <2>6, <2>7
  <2> QED
    BY <2>2, <2>8
<1>8. Below(Len(s))
  BY <1>1, <1>7, <1>3
<1> QED
  BY <1>1, <1>8, <1>5

\* The least of a set of numbers, and the greatest of one that is bounded.
LEMMA LeastTaken ==
  ASSUME NEW S \in SUBSET Nat, S # {}
  PROVE  Min(S) \in S /\ \A v \in S : Min(S) <= v
<1>1. \E x \in S : \A y \in S : x <= y
  BY LeastNatural
<1> QED
  BY <1>1 DEF Min

LEMMA GreatestTaken ==
  ASSUME NEW S \in SUBSET Nat, S # {}, NEW b \in Nat, \A v \in S : v <= b
  PROVE  Max(S) \in S /\ \A v \in S : v <= Max(S)
<1> DEFINE U == {n \in Nat : \A v \in S : v <= n}
<1>1. b \in U /\ U \in SUBSET Nat
  OBVIOUS
<1>2. \A n \in Nat : n \in U <=> \A v \in S : v <= n
  OBVIOUS
<1> HIDE DEF U
<1>3. PICK u \in U : \A n \in U : u <= n
  BY <1>1, LeastNatural
<1>4. u \in S
  <2>1. SUFFICES ASSUME u \notin S  PROVE FALSE
    OBVIOUS
  <2>2. PICK v \in S : TRUE
    OBVIOUS
  <2>3. v <= u /\ v # u /\ u \in Nat
    BY <1>1, <1>3, <1>2, <2>1
  <2>4. u - 1 \in Nat
    BY <2>3
  <2>5. \A w \in S : w <= u - 1
    <3> TAKE w \in S
    <3>1. w <= u /\ w # u /\ w \in Nat
      BY <1>1, <1>3, <1>2, <2>1
    <3> QED
      BY <2>3, <3>1
  <2>6. u - 1 \in U /\ ~(u <= u - 1)
    BY <1>2, <2>3, <2>4, <2>5
  <2> QED
    BY <1>3, <2>6
<1>5. \E x \in S : \A y \in S : x >= y
  BY <1>1, <1>3, <1>4, <1>2
<1>6. Max(S) \in S /\ \A y \in S : Max(S) >= y
  BY <1>5 DEF Max
<1> QED
  BY <1>6

LEMMA SampleSet ==
  ASSUME NEW s \in Seq(Nat)
  PROVE  /\ ToSet(s) \in SUBSET Nat /\ (s = <<>> <=> ToSet(s) = {})
         /\ \A i \in 1 .. Len(s) : s[i] \in ToSet(s)
         /\ \A v \in ToSet(s) : \E i \in 1 .. Len(s) : v = s[i]
<1>1. /\ DOMAIN s = 1 .. Len(s) /\ Len(s) \in Nat /\ \A i \in 1 .. Len(s) : s[i] \in Nat
  OBVIOUS
<1>2. s = <<>> <=> Len(s) = 0
  BY EmptySeq
<1>3. ToSet(s) = {s[i] : i \in 1 .. Len(s)}
  BY <1>1 DEF ToSet
<1>4. ToSet(s) = {} <=> Len(s) = 0
  <2>1. ASSUME Len(s) # 0
        PROVE  s[1] \in ToSet(s)
    BY <1>1, <1>3, <2>1
  <2>2. Len(s) = 0 => ToSet(s) = {}
    BY <1>1, <1>3
  <2> QED
    BY <2>1, <2>2
<1> QED
  BY <1>1, <1>2, <1>3, <1>4

LEMMA GreatestSample ==
  ASSUME NEW s \in Seq(Nat), s # <<>>
  PROVE  Max(ToSet(s)) \in ToSet(s) /\ \A v \in ToSet(s) : v <= Max(ToSet(s))
<1>1. PICK b \in Nat : \A i \in 1 .. Len(s) : s[i] <= b
  BY SamplesBounded
<1>2. \A v \in ToSet(s) : v <= b
  BY <1>1, SampleSet
<1> QED
  BY <1>2, SampleSet, GreatestTaken

LEMMA GreatestOfAll ==
  ASSUME NEW s \in Seq(Nat)
  PROVE  /\ Max(ToSet(s) \cup {0}) \in Nat
         /\ \A i \in 1 .. Len(s) : s[i] <= Max(ToSet(s) \cup {0})
<1>1. PICK b \in Nat : \A i \in 1 .. Len(s) : s[i] <= b
  BY SamplesBounded
<1> DEFINE S == ToSet(s) \cup {0}
<1>2. S \in SUBSET Nat /\ S # {} /\ \A v \in S : v <= b
  BY <1>1, SampleSet
<1>3. \A i \in 1 .. Len(s) : s[i] \in S
  BY SampleSet
<1> HIDE DEF S
<1>4. Max(S) \in S /\ \A v \in S : v <= Max(S)
  BY <1>2, GreatestTaken
<1>5. Max(S) \in Nat /\ \A i \in 1 .. Len(s) : s[i] <= Max(S)
  BY <1>2, <1>3, <1>4
<1> QED
  BY <1>5 DEF S

LEMMA SetGrows ==
  ASSUME NEW s \in Seq(Nat), NEW t \in Seq(Nat), StartOf(s, t)
  PROVE  \A v \in ToSet(s) : v \in ToSet(t)
<1>1. \A i \in 1 .. Len(s) : i \in 1 .. Len(t) /\ s[i] = t[i]
  BY DEF StartOf
<1>2. \A v \in ToSet(s) : \E i \in 1 .. Len(s) : v = s[i]
  BY SampleSet
<1>3. \A i \in 1 .. Len(t) : t[i] \in ToSet(t)
  BY SampleSet
<1> QED
  BY <1>1, <1>2, <1>3

Under(e, s) == {i \in 1 .. Len(s) : s[i] <= e}

LEMMA IntervalCount ==
  ASSUME NEW n \in Nat
  PROVE  IsFiniteSet(1 .. n) /\ Cardinality(1 .. n) = n
<1>1. 1 \in Int /\ n \in Int
  OBVIOUS
<1>2. IsFiniteSet(1 .. n)
  BY <1>1, FS_Interval
<1>3. Cardinality(1 .. n) = IF 1 > n THEN 0 ELSE n - 1 + 1
  BY <1>1, FS_Interval
<1> QED
  BY <1>2, <1>3

LEMMA UnderCounted ==
  ASSUME NEW s \in Seq(Nat), NEW e \in Nat
  PROVE  /\ AtMost(e, s) = Cardinality(Under(e, s)) /\ IsFiniteSet(Under(e, s))
         /\ AtMost(e, s) \in Nat /\ AtMost(e, s) <= Len(s)
<1>1. AtMost(e, s) = Cardinality(Under(e, s))
  <2>1. DOMAIN s = 1 .. Len(s)
    OBVIOUS
  <2> QED
    BY <2>1, Zenon DEF AtMost, Under
<1>2. IsFiniteSet(1 .. Len(s)) /\ Cardinality(1 .. Len(s)) = Len(s)
  BY IntervalCount
<1>3. Under(e, s) \in SUBSET (1 .. Len(s))
  BY DEF Under
<1>4. IsFiniteSet(Under(e, s)) /\ Cardinality(Under(e, s)) <= Len(s)
  BY <1>2, <1>3, FS_Subset
<1> QED
  BY <1>1, <1>4, FS_CardinalityType

LEMMA AtMostRises ==
  ASSUME NEW s \in Seq(Nat), NEW t \in Seq(Nat), NEW d \in Nat, NEW e \in Nat,
         d <= e, StartOf(s, t)
  PROVE  AtMost(d, s) <= AtMost(e, t)
<1>1. \A i \in 1 .. Len(s) : i \in 1 .. Len(t) /\ s[i] = t[i] /\ s[i] \in Nat
  BY DEF StartOf
<1>2. \A i \in 1 .. Len(s) : s[i] <= d => t[i] <= e
  BY <1>1
<1>3. Under(d, s) \in SUBSET Under(e, t)
  BY <1>1, <1>2 DEF Under
<1>4. /\ AtMost(d, s) = Cardinality(Under(d, s)) /\ AtMost(e, t) = Cardinality(Under(e, t))
      /\ IsFiniteSet(Under(e, t))
  BY UnderCounted
<1> QED
  BY <1>3, <1>4, FS_Subset

LEMMA AllAtMost ==
  ASSUME NEW s \in Seq(Nat), NEW e \in Nat, \A i \in 1 .. Len(s) : s[i] <= e
  PROVE  AtMost(e, s) = Len(s)
<1>1. Under(e, s) = 1 .. Len(s)
  BY DEF Under
<1>2. Cardinality(1 .. Len(s)) = Len(s)
  BY IntervalCount
<1> QED
  BY <1>1, <1>2, UnderCounted

LEMMA StartsItself ==
  ASSUME NEW s \in Seq(Nat)
  PROVE  StartOf(s, s)
BY DEF StartOf

LEMMA NumbersOf ==
  ASSUME NEW s \in Seq(Nat)
  PROVE  NumberList(s, Len(s))
BY DEF NumberList

\* Totals rise, and are no more than the length times the greatest.
LEMMA TotalRises ==
  ASSUME NEW s \in Seq(Nat), NEW t \in Seq(Nat), StartOf(s, t)
  PROVE  Total(s) \in Nat /\ Total(t) \in Nat /\ Total(s) <= Total(t)
<1>1. PICK m \in Nat, k \in Nat : m = Len(s) /\ Len(t) = m + k
  <2>1. Len(s) \in Nat /\ Len(t) - Len(s) \in Nat /\ Len(t) = Len(s) + (Len(t) - Len(s))
    BY DEF StartOf
  <2> QED
    BY <2>1
<1>2. NumberList(s, m) /\ NumberList(t, m + k)
  BY <1>1, NumbersOf
<1>3. PICK r : r = [i \in 1 .. k |-> t[m + i]]
  OBVIOUS
<1>4. NumberList(r, k)
  BY <1>1, <1>3 DEF NumberList
<1>5. NumbersJoined(s, m, r, k, t)
  <2>1. \A i \in 1 .. m : t[i] = s[i]
    BY <1>1 DEF StartOf
  <2>2. \A i \in 1 .. k : t[m + i] = r[i]
    BY <1>3
  <2> QED
    BY <1>2, <1>4, <2>1, <2>2 DEF NumbersJoined
<1>6. Total(t) = Total(s) + Total(r)
  BY <1>5, TotalJoined
<1>7. Total(s) \in Nat /\ Total(r) \in Nat
  BY <1>2, <1>4, TotalNumber
<1> QED
  BY <1>6, <1>7

LEMMA OneMoreTimes ==
  ASSUME NEW k \in Nat, NEW b \in Nat, NEW x \in Nat, NEW v \in Nat,
         x <= k * b, v <= b
  PROVE  x + v <= (k + 1) * b
<1>1. (k + 1) * b = k * b + b /\ k * b \in Nat
  OBVIOUS
<1> QED
  BY <1>1

LEMMA MoreTimes ==
  ASSUME NEW k \in Nat, NEW l \in Nat, NEW b \in Nat, k <= l
  PROVE  k * b <= l * b
<1>1. PICK d \in Nat : l = k + d
  <2>1. l - k \in Nat /\ l = k + (l - k)
    OBVIOUS
  <2> QED
    BY <2>1
<1>2. (k + d) * b = k * b + d * b /\ d * b \in Nat /\ k * b \in Nat
  OBVIOUS
<1> QED
  BY <1>1, <1>2

LEMMA TotalBounded ==
  ASSUME NEW s \in Seq(Nat), NEW b \in Nat, \A i \in 1 .. Len(s) : s[i] <= b
  PROVE  Total(s) <= Len(s) * b
<1>1. PICK n \in Nat : n = Len(s)
  OBVIOUS
<1>2. \A i \in 1 .. n : s[i] \in Nat /\ s[i] <= b
  BY <1>1
<1>3. PICK f : Total(s) = f[n] /\ Sums(f, s, n)
  BY <1>1, TotalSums
<1>4. \A i \in 0 .. n : f[i] = IF i = 0 THEN 0 ELSE f[i - 1] + s[i]
  BY <1>3 DEF Sums
<1> DEFINE Bounded(k) == f[k] \in Nat /\ f[k] <= k * b
           bad == {k \in Nat : k <= n /\ ~Bounded(k)}
<1>5. Bounded(0)
  BY <1>4
<1>6. ASSUME NEW k \in Nat, k + 1 <= n, Bounded(k)
      PROVE  Bounded(k + 1)
  <2>1. k + 1 \in 0 .. n /\ k + 1 # 0 /\ k + 1 \in 1 .. n /\ (k + 1) - 1 = k
    BY <1>6
  <2>2. f[k + 1] = f[k] + s[k + 1]
    BY <1>4, <2>1
  <2>3. f[k] + s[k + 1] <= (k + 1) * b
    <3>1. PICK x \in Nat, v \in Nat : x = f[k] /\ v = s[k + 1] /\ x <= k * b /\ v <= b
      BY <1>2, <1>6, <2>1
    <3> QED
      BY <3>1, OneMoreTimes
  <2>4. f[k] + s[k + 1] \in Nat
    BY <1>2, <1>6, <2>1
  <2> QED
    BY <2>2, <2>3, <2>4
<1>7. /\ \A k \in bad : k \in Nat /\ k <= n /\ ~Bounded(k)
      /\ \A k \in Nat : k <= n /\ ~Bounded(k) => k \in bad
      /\ bad \in SUBSET Nat
  OBVIOUS
<1>8. Bounded(n) => f[n] <= n * b
  OBVIOUS
<1> HIDE DEF Bounded, bad
<1>9. ASSUME bad # {}
      PROVE  FALSE
  <2>1. PICK k \in bad : \A l \in bad : k <= l
    BY <1>7, <1>9, LeastNatural
  <2>2. k \in Nat /\ k <= n /\ ~Bounded(k)
    BY <1>7, <2>1
  <2>3. k # 0
    BY <1>5, <2>2
  <2>4. PICK l \in Nat : k = l + 1
    <3>1. k - 1 \in Nat /\ k = (k - 1) + 1
      BY <2>2, <2>3
    <3> QED
      BY <3>1
  <2>5. l \notin bad
    BY <2>1, <2>4
  <2>6. Bounded(l)
    BY <1>7, <2>2, <2>4, <2>5
  <2> QED
    BY <1>6, <2>2, <2>4, <2>6
<1> QED
  BY <1>1, <1>3, <1>7, <1>8, <1>9

\* The percentile is one of the samples, the least that is not too low.
LEMMA PercentileTaken ==
  ASSUME NEW q \in Nat, NEW s \in Seq(Nat)
  PROVE  Percentile(q, s) \in ToSet(s) \cup {0}
<1>1. CASE s = <<>>
  BY <1>1 DEF Percentile
<1>2. CASE s # <<>>
  <2> DEFINE rank == Max({1, Rounded(q * Len(s))})
             high == {v \in ToSet(s) : AtMost(v, s) >= Min({rank, Len(s)})}
             top == Max(ToSet(s))
  <2>1. Percentile(q, s) = Min(high)
    BY <1>2 DEF Percentile
  <2>2. high \in SUBSET ToSet(s) /\ ToSet(s) \in SUBSET Nat
    BY SampleSet
  <2>3. top \in ToSet(s) /\ \A v \in ToSet(s) : v <= top
    BY <1>2, GreatestSample
  <2>4. AtMost(top, s) = Len(s)
    <3>1. top \in Nat /\ \A i \in 1 .. Len(s) : s[i] <= top
      BY <2>2, <2>3, SampleSet
    <3> HIDE DEF top
    <3> QED
      BY <3>1, AllAtMost
  <2>5. Min({rank, Len(s)}) <= Len(s)
    <3>1. q * Len(s) \in Nat
      OBVIOUS
    <3>2. Rounded(q * Len(s)) \in Nat
      <4> DEFINE x == q * Len(s)
      <4> HIDE DEF x
      <4>1. ASSUME x \in Nat
            PROVE  Rounded(x) \in Nat
        BY <4>1 DEF Rounded
      <4> QED
        BY <3>1, <4>1 DEF x
    <3>3. rank \in Nat
      <4> DEFINE x == Rounded(q * Len(s))
      <4> HIDE DEF x
      <4>1. ASSUME x \in Nat
            PROVE  Max({1, x}) \in Nat
        <5>1. \E m \in {1, x} : \A y \in {1, x} : m >= y
          BY <4>1
        <5>2. Max({1, x}) \in {1, x}
          BY <5>1 DEF Max
        <5> QED
          BY <4>1, <5>2
      <4> QED
        BY <3>2, <4>1 DEF x
    <3> HIDE DEF rank
    <3>4. {rank, Len(s)} \in SUBSET Nat /\ Len(s) \in {rank, Len(s)}
      BY <3>3
    <3> QED
      BY <3>4, LeastTaken
  <2>6. top \in high
    <3>1. Len(s) \in Nat
      OBVIOUS
    <3>2. \A x : x <= Len(s) => Len(s) >= x
      OBVIOUS
    <3> HIDE DEF top, rank
    <3> QED
      BY <2>3, <2>4, <2>5
  <2> HIDE DEF high, top
  <2>7. high \in SUBSET Nat /\ high # {}
    BY <2>2, <2>6
  <2>8. Min(high) \in high
    BY <2>7, LeastTaken
  <2> QED
    BY <2>1, <2>2, <2>8
<1> QED
  BY <1>1, <1>2
------------------------------------------------------------------------------
(* The fields of a snapshot, in the order in which they are read. *)
Kinds == {"count", "sum", "min", "max", "nonempty", "dividend", "divisor", "percentile", "bucket", "+Inf"}
FieldSet == Kinds \X Nat
Earlier(F, f, g) == \E i, j \in 1 .. Len(F) : i <= j /\ F[i] = f /\ F[j] = g

Has(F, f) == \E i \in 1 .. Len(F) : F[i] = f
Distinct(F) == \A i, j \in 1 .. Len(F) : F[i] = F[j] => i = j

LEMMA Concatenated ==
  ASSUME NEW S, NEW s \in Seq(S), NEW t \in Seq(S)
  PROVE  /\ s \o t \in Seq(S) /\ Len(s \o t) = Len(s) + Len(t)
         /\ \A f : Has(s \o t, f) <=> Has(s, f) \/ Has(t, f)
         /\ \A f, g : Earlier(s, f, g) => Earlier(s \o t, f, g)
         /\ \A f, g : Earlier(t, f, g) => Earlier(s \o t, f, g)
         /\ \A f, g : Has(s, f) /\ Has(t, g) => Earlier(s \o t, f, g)
         /\ Distinct(s) /\ Distinct(t) /\ (\A f : ~(Has(s, f) /\ Has(t, f))) => Distinct(s \o t)
<1>1. PICK u : u = s \o t
  OBVIOUS
<1>2. PICK m \in Nat : m = Len(s)
  OBVIOUS
<1>3. PICK n \in Nat : n = Len(t)
  OBVIOUS
<1>4. u = s \o t /\ m = Len(s) /\ n = Len(t)
  BY <1>1, <1>2, <1>3
<1>5. /\ u \in Seq(S) /\ Len(u) = m + n
      /\ \A i \in 1 .. m + n : u[i] = IF i <= m THEN s[i] ELSE t[i - m]
  <2>1. /\ s \o t \in Seq(S) /\ Len(s \o t) = Len(s) + Len(t)
        /\ \A i \in 1 .. Len(s) + Len(t) : (s \o t)[i] = IF i <= Len(s) THEN s[i] ELSE t[i - Len(s)]
    BY ConcatProperties
  <2> QED
    BY <1>4, <2>1
<1>6. \A i \in 1 .. m : i \in 1 .. m + n /\ u[i] = s[i]
  BY <1>5
<1>7. \A i \in 1 .. n : m + i \in 1 .. m + n /\ u[m + i] = t[i]
  <2>1. ASSUME NEW i \in 1 .. n
        PROVE  m + i \in 1 .. m + n /\ ~(m + i <= m) /\ (m + i) - m = i
    OBVIOUS
  <2> QED
    BY <1>5, <2>1
<1>8. ASSUME NEW i \in 1 .. m + n
      PROVE  i \in 1 .. m \/ \E k \in 1 .. n : i = m + k
  <2>1. ASSUME ~(i <= m)
        PROVE  i - m \in 1 .. n /\ i = m + (i - m)
    BY <2>1
  <2> QED
    BY <2>1
<1>9. ASSUME NEW f
      PROVE  Has(u, f) <=> Has(s, f) \/ Has(t, f)
  <2>1. Has(s, f) => Has(u, f)
    BY <1>4, <1>5, <1>6 DEF Has
  <2>2. Has(t, f) => Has(u, f)
    <3>1. ASSUME NEW i \in 1 .. n, t[i] = f
          PROVE  m + i \in 1 .. Len(u) /\ u[m + i] = f
      BY <1>5, <1>7, <3>1
    <3> QED
      BY <1>4, <3>1 DEF Has
  <2>3. ASSUME NEW i \in 1 .. m + n, u[i] = f
        PROVE  Has(s, f) \/ Has(t, f)
    <3>1. CASE i \in 1 .. m
      BY <1>4, <1>6, <2>3, <3>1 DEF Has
    <3>2. ASSUME NEW k \in 1 .. n, i = m + k
          PROVE  Has(t, f)
      BY <1>4, <1>7, <2>3, <3>2 DEF Has
    <3> QED
      BY <1>8, <3>1, <3>2
  <2> QED
    BY <1>5, <2>1, <2>2, <2>3 DEF Has
<1>10. \A f, g : Earlier(s, f, g) => Earlier(u, f, g)
  BY <1>4, <1>5, <1>6 DEF Earlier
<1>11. ASSUME NEW f, NEW g, Earlier(t, f, g)
      PROVE  Earlier(u, f, g)
  <2>1. PICK i \in 1 .. n, j \in 1 .. n : i <= j /\ t[i] = f /\ t[j] = g
    BY <1>4, <1>11 DEF Earlier
  <2>2. m + i <= m + j /\ u[m + i] = f /\ u[m + j] = g /\ m + i \in 1 .. Len(u) /\ m + j \in 1 .. Len(u)
    BY <1>5, <1>7, <2>1
  <2> QED
    BY <2>2 DEF Earlier
<1>12. ASSUME NEW f, NEW g, Has(s, f), Has(t, g)
      PROVE  Earlier(u, f, g)
  <2>1. PICK i \in 1 .. m, j \in 1 .. n : s[i] = f /\ t[j] = g
    BY <1>4, <1>12 DEF Has
  <2>2. i <= m + j /\ u[i] = f /\ u[m + j] = g /\ i \in 1 .. Len(u) /\ m + j \in 1 .. Len(u)
    BY <1>5, <1>6, <1>7, <2>1
  <2> QED
    BY <2>2 DEF Earlier
<1>13. ASSUME Distinct(s), Distinct(t), \A f : ~(Has(s, f) /\ Has(t, f))
       PROVE  Distinct(u)
  <2>1. \A i \in 1 .. m : \A k \in 1 .. n : s[i] # t[k]
    BY <1>4, <1>13 DEF Has
  <2>2. /\ \A i, j \in 1 .. m : s[i] = s[j] => i = j
        /\ \A i, j \in 1 .. n : t[i] = t[j] => i = j
    BY <1>4, <1>13 DEF Distinct
  <2>3. ASSUME NEW i \in 1 .. m + n, NEW j \in 1 .. m + n, u[i] = u[j]
        PROVE  i = j
    <3>1. CASE i \in 1 .. m /\ j \in 1 .. m
      BY <1>6, <2>2, <2>3, <3>1
    <3>2. ASSUME NEW k \in 1 .. n, i = m + k, j \in 1 .. m
          PROVE  FALSE
      BY <1>6, <1>7, <2>1, <2>3, <3>2
    <3>3. ASSUME NEW k \in 1 .. n, j = m + k, i \in 1 .. m
          PROVE  FALSE
      BY <1>6, <1>7, <2>1, <2>3, <3>3
    <3>4. ASSUME NEW k \in 1 .. n, NEW l \in 1 .. n, i = m + k, j = m + l
          PROVE  i = j
      <4>1. t[k] = t[l]
        BY <1>7, <2>3, <3>4
      <4> QED
        BY <2>2, <3>4, <4>1
    <3> QED
      BY <1>8, <3>1, <3>2, <3>3, <3>4
  <2> QED
    BY <1>5, <2>3 DEF Distinct
<1> QED
  BY <1>4, <1>5, <1>9, <1>10, <1>11, <1>12, <1>13

LEMMA BucketsRead ==
  /\ BucketCounts \in Seq(FieldSet) /\ Len(BucketCounts) = Cardinality(Edge)
  /\ \A f : Has(BucketCounts, f) => f[1] = "bucket"
  /\ Distinct(BucketCounts)
  /\ \A d, e \in Edge : d <= e => Earlier(BucketCounts, <<"bucket", d>>, <<"bucket", e>>)
<1>1. IsFiniteSet(Edge) /\ \A e \in Edge : e \in Nat
  BY MetricsAssumption
<1>2. PICK n \in Nat : n = Cardinality(Edge)
  BY <1>1, FS_CardinalityType
<1>3. PICK a : a = Ascending(Edge)
  OBVIOUS
<1>4. Enumerates(a, Edge)
  BY <1>1, <1>3, AscendingEnumerates
<1>5. /\ a \in Seq(Edge) /\ \A k, l \in 1 .. Len(a) : k < l => a[k] < a[l]
      /\ \A e \in Edge : \E k \in 1 .. Len(a) : a[k] = e
  BY <1>4 DEF Enumerates
<1>6. Len(a) = n
  <2>1. DOMAIN a = 1 .. n
    BY <1>2, <1>3 DEF Ascending, Arranged
  <2>2. Len(a) \in Nat /\ DOMAIN a = 1 .. Len(a)
    BY <1>5
  <2> QED
    BY <2>1, <2>2
<1>7. \A k \in 1 .. n : a[k] \in Edge /\ a[k] \in Nat
  BY <1>1, <1>5, <1>6
<1>8. PICK b : b = BucketCounts
  OBVIOUS
<1>9. b = [i \in 1 .. n |-> <<"bucket", a[i]>>]
  BY <1>2, <1>3, <1>8 DEF BucketCounts
<1>10. \A i \in 1 .. n : b[i] = <<"bucket", a[i]>> /\ <<"bucket", a[i]>> \in FieldSet
  BY <1>7, <1>9 DEF FieldSet, Kinds
<1>11. b \in Seq(FieldSet) /\ Len(b) = n
  BY <1>9, <1>10
<1>12. \A k, l \in 1 .. n : a[k] = a[l] => k = l
  BY <1>5, <1>6, <1>7
<1>13. \A i, j \in 1 .. n : b[i] = b[j] => i = j
  <2>1. ASSUME NEW i \in 1 .. n, NEW j \in 1 .. n, b[i] = b[j]
        PROVE  i = j
    <3>1. <<"bucket", a[i]>> = <<"bucket", a[j]>>
      BY <1>9, <2>1
    <3>2. a[i] = a[j]
      BY <3>1
    <3> QED
      BY <1>12, <3>2
  <2> QED
    BY <2>1
<1>14. ASSUME NEW d \in Edge, NEW e \in Edge, d <= e
       PROVE  Earlier(b, <<"bucket", d>>, <<"bucket", e>>)
  <2>1. PICK k \in 1 .. n, l \in 1 .. n : a[k] = d /\ a[l] = e
    BY <1>5, <1>6
  <2>2. k <= l
    <3>1. ASSUME l < k
          PROVE  FALSE
      BY <1>1, <1>5, <1>6, <1>14, <2>1, <3>1
    <3> QED
      BY <3>1
  <2>3. b[k] = <<"bucket", d>> /\ b[l] = <<"bucket", e>>
    BY <1>10, <2>1
  <2> QED
    BY <1>11, <2>2, <2>3 DEF Earlier
<1>15. \A f : Has(b, f) => f[1] = "bucket"
  <2>1. ASSUME NEW i \in 1 .. n
        PROVE  b[i][1] = "bucket"
    <3>1. b[i] = <<"bucket", a[i]>>
      BY <1>9
    <3> QED
      BY <3>1
  <2> QED
    BY <1>11, <2>1 DEF Has
<1>16. Distinct(b)
  BY <1>11, <1>13 DEF Distinct
<1> QED
  BY <1>2, <1>8, <1>11, <1>14, <1>15, <1>16

LEMMA StatisticsRead ==
  /\ Statistics \in Seq(FieldSet) /\ Len(Statistics) = 10 /\ Distinct(Statistics)
  /\ \A f : Has(Statistics, f) => /\ f[1] # "bucket" /\ f[1] # "+Inf"
                                  /\ f[1] = "divisor" => f = <<"divisor", 0>>
  /\ Has(Statistics, <<"count", 0>>)
  /\ Earlier(Statistics, <<"nonempty", 0>>, <<"divisor", 0>>)
  /\ Earlier(Statistics, <<"dividend", 0>>, <<"divisor", 0>>)
<1>1. PICK s : s = Statistics
  OBVIOUS
<1>2. /\ s[1] = <<"count", 0>> /\ s[2] = <<"sum", 0>> /\ s[3] = <<"min", 0>> /\ s[4] = <<"max", 0>>
      /\ s[5] = <<"nonempty", 0>> /\ s[6] = <<"dividend", 0>> /\ s[7] = <<"divisor", 0>>
      /\ s[8] = <<"percentile", 50>> /\ s[9] = <<"percentile", 95>> /\ s[10] = <<"percentile", 99>>
      /\ Len(s) = 10 /\ DOMAIN s = 1 .. 10
  BY <1>1 DEF Statistics
<1>3. \A i \in 1 .. 10 : i = 1 \/ i = 2 \/ i = 3 \/ i = 4 \/ i = 5 \/ i = 6 \/ i = 7 \/ i = 8 \/ i = 9 \/ i = 10
  OBVIOUS
<1>4. s \in Seq(FieldSet)
  <2>1. \A i \in 1 .. 10 : s[i] \in FieldSet
    <3>1. \A k \in Kinds : \A n \in Nat : <<k, n>> \in FieldSet
      BY DEF FieldSet
    <3>2. {"count", "sum", "min", "max", "nonempty", "dividend", "divisor", "percentile"} \in SUBSET Kinds
      BY DEF Kinds
    <3> QED
      BY <1>2, <1>3, <3>1, <3>2
  <2>2. s = [i \in 1 .. 10 |-> s[i]]
    BY <1>1 DEF Statistics
  <2> QED
    BY <2>1, <2>2
<1>5. \A f : Has(s, f) => f[1] # "bucket" /\ f[1] # "+Inf" /\ (f[1] = "divisor" => f = <<"divisor", 0>>)
  BY <1>2, <1>3 DEF Has
<1>6. \A i, j \in 1 .. 10 : s[i] = s[j] => i = j
  <2>1. ASSUME NEW i \in 1 .. 10, NEW j \in 1 .. 10, s[i][1] = s[j][1], s[i][2] = s[j][2]
        PROVE  i = j
    BY <1>2, <1>3, <2>1
  <2> QED
    BY <2>1
<1>7. Distinct(s)
  BY <1>2, <1>6 DEF Distinct
<1>8. Has(s, <<"count", 0>>)
  BY <1>2 DEF Has
<1>9. 5 \in 1 .. Len(s) /\ 6 \in 1 .. Len(s) /\ 7 \in 1 .. Len(s)
  BY <1>2
<1>10. /\ Earlier(s, <<"nonempty", 0>>, <<"divisor", 0>>)
       /\ Earlier(s, <<"dividend", 0>>, <<"divisor", 0>>)
  BY <1>2, <1>9 DEF Earlier
<1>11. Len(s) = 10
  BY <1>2
<1>12. Statistics \in Seq(FieldSet) /\ Len(Statistics) = 10 /\ Distinct(Statistics)
  BY <1>1, <1>4, <1>7, <1>11
<1>13. \A f : Has(Statistics, f) => /\ f[1] # "bucket" /\ f[1] # "+Inf"
                                    /\ f[1] = "divisor" => f = <<"divisor", 0>>
  BY <1>1, <1>5
<1>14. /\ Has(Statistics, <<"count", 0>>)
       /\ Earlier(Statistics, <<"nonempty", 0>>, <<"divisor", 0>>)
       /\ Earlier(Statistics, <<"dividend", 0>>, <<"divisor", 0>>)
  BY <1>1, <1>8, <1>10
<1> QED
  BY <1>12, <1>13, <1>14

LEMMA AllRead ==
  /\ All \in Seq(FieldSet) /\ Len(All) = 1 /\ Distinct(All)
  /\ \A f : Has(All, f) => f = <<"+Inf", 0>>
  /\ Has(All, <<"+Inf", 0>>)
<1>1. PICK a : a = All
  OBVIOUS
<1>2. a = <<<<"+Inf", 0>>>> /\ <<"+Inf", 0>> \in FieldSet
  BY <1>1 DEF All, FieldSet, Kinds
<1>3. a \in Seq(FieldSet) /\ Len(a) = 1 /\ a[1] = <<"+Inf", 0>>
  BY <1>2
<1>4. Distinct(a)
  BY <1>3 DEF Distinct
<1>5. (\A f : Has(a, f) => f = <<"+Inf", 0>>) /\ Has(a, <<"+Inf", 0>>)
  <2>1. PICK x : x = <<"+Inf", 0>>
    OBVIOUS
  <2>2. (\A f : Has(a, f) => f = x) /\ Has(a, x)
    <3>1. a[1] = x /\ 1 .. Len(a) = {1}
      BY <1>3, <2>1
    <3> QED
      BY <3>1 DEF Has
  <2> QED
    BY <2>1, <2>2
<1> QED
  BY <1>1, <1>3, <1>4, <1>5

LastFields == <<<<"sum", 0>>, <<"count", 0>>>>

LEMMA EndsRead ==
  /\ LastFields \in Seq(FieldSet) /\ Len(LastFields) = 2 /\ Distinct(LastFields)
  /\ \A f : Has(LastFields, f) => f[1] \in {"sum", "count"}
  /\ Has(LastFields, <<"count", 0>>)
<1>1. PICK a : a = LastFields
  OBVIOUS
<1>2. a = <<<<"sum", 0>>, <<"count", 0>>>> /\ <<"sum", 0>> \in FieldSet /\ <<"count", 0>> \in FieldSet
  BY <1>1 DEF LastFields, FieldSet, Kinds
<1>3. a \in Seq(FieldSet) /\ Len(a) = 2 /\ a[1] = <<"sum", 0>> /\ a[2] = <<"count", 0>>
  BY <1>2
<1>4. a[1] # a[2] /\ \A i \in 1 .. 2 : i = 1 \/ i = 2
  BY <1>3
<1>5. Distinct(a)
  BY <1>3, <1>4 DEF Distinct
<1>6. (\A f : Has(a, f) => f[1] \in {"sum", "count"}) /\ Has(a, <<"count", 0>>)
  BY <1>3, <1>4 DEF Has
<1> QED
  BY <1>1, <1>3, <1>5, <1>6

LEMMA SnapshotRead ==
  LET F == Fields("snapshot")
  IN  /\ F \in Seq(FieldSet) /\ Len(F) > 0 /\ Distinct(F)
      /\ \A d, e \in Edge : d <= e => Earlier(F, <<"bucket", d>>, <<"bucket", e>>)
      /\ \A e \in Edge : Earlier(F, <<"bucket", e>>, <<"+Inf", 0>>)
      /\ Earlier(F, <<"count", 0>>, <<"+Inf", 0>>)
      /\ Earlier(F, <<"dividend", 0>>, <<"divisor", 0>>)
      /\ Earlier(F, <<"nonempty", 0>>, <<"divisor", 0>>)
      /\ \A f : Has(F, f) /\ f[1] = "divisor" => f = <<"divisor", 0>>
<1>1. PICK b : b = BucketCounts
  OBVIOUS
<1>2. PICK s : s = Statistics
  OBVIOUS
<1>3. PICK a : a = All
  OBVIOUS
<1>4. PICK F : F = (s \o b) \o a
  OBVIOUS
<1>5. F = Fields("snapshot")
  BY <1>1, <1>2, <1>3, <1>4 DEF Fields
<1>6. /\ b \in Seq(FieldSet) /\ Distinct(b)
      /\ \A f : Has(b, f) => f[1] = "bucket"
      /\ \A d, e \in Edge : d <= e => Earlier(b, <<"bucket", d>>, <<"bucket", e>>)
  BY <1>1, BucketsRead
<1>7. /\ s \in Seq(FieldSet) /\ Distinct(s) /\ Len(s) = 10
      /\ Has(s, <<"count", 0>>)
      /\ Earlier(s, <<"nonempty", 0>>, <<"divisor", 0>>)
      /\ Earlier(s, <<"dividend", 0>>, <<"divisor", 0>>)
  BY <1>2, StatisticsRead
<1>8. \A f : Has(s, f) => f[1] # "bucket" /\ f[1] # "+Inf" /\ (f[1] = "divisor" => f = <<"divisor", 0>>)
  BY <1>2, StatisticsRead
<1>9. /\ a \in Seq(FieldSet) /\ Distinct(a) /\ Len(a) = 1
      /\ \A f : Has(a, f) => f = <<"+Inf", 0>>
      /\ Has(a, <<"+Inf", 0>>)
  BY <1>3, AllRead
<1>10. PICK u : u = s \o b
  OBVIOUS
<1>11. /\ u \in Seq(FieldSet) /\ Len(u) = Len(s) + Len(b)
       /\ \A f : Has(u, f) <=> Has(s, f) \/ Has(b, f)
       /\ \A f, g : Earlier(s, f, g) => Earlier(u, f, g)
       /\ \A f, g : Earlier(b, f, g) => Earlier(u, f, g)
  BY <1>6, <1>7, <1>10, Concatenated
<1>12. Distinct(u)
  <2>1. \A f : ~(Has(s, f) /\ Has(b, f))
    BY <1>6, <1>8
  <2> QED
    BY <1>6, <1>7, <1>10, <2>1, Concatenated
<1>13. /\ F \in Seq(FieldSet) /\ Len(F) = Len(u) + Len(a)
       /\ \A f : Has(F, f) <=> Has(u, f) \/ Has(a, f)
       /\ \A f, g : Earlier(u, f, g) => Earlier(F, f, g)
       /\ \A f, g : Has(u, f) /\ Has(a, g) => Earlier(F, f, g)
  BY <1>4, <1>9, <1>10, <1>11, Concatenated
<1>14. Distinct(F)
  <2>1. \A f : ~(Has(u, f) /\ Has(a, f))
    <3>1. \A f : Has(u, f) => f[1] # "+Inf"
      BY <1>6, <1>8, <1>11
    <3>2. \A f : Has(a, f) => f[1] = "+Inf"
      BY <1>9
    <3> QED
      BY <3>1, <3>2
  <2> QED
    BY <1>4, <1>9, <1>10, <1>11, <1>12, <2>1, Concatenated
<1>15. ASSUME NEW d \in Edge, NEW e \in Edge, d <= e
       PROVE  Earlier(F, <<"bucket", d>>, <<"bucket", e>>)
  BY <1>6, <1>11, <1>13, <1>15
<1>16. ASSUME NEW e \in Edge
       PROVE  Earlier(F, <<"bucket", e>>, <<"+Inf", 0>>)
  <2>1. Has(b, <<"bucket", e>>)
    <3>1. e <= e
      BY MetricsAssumption
    <3> QED
      BY <1>6, <3>1 DEF Earlier, Has
  <2> QED
    BY <1>9, <1>11, <1>13, <2>1
<1>17. /\ Earlier(F, <<"count", 0>>, <<"+Inf", 0>>)
       /\ Earlier(F, <<"dividend", 0>>, <<"divisor", 0>>)
       /\ Earlier(F, <<"nonempty", 0>>, <<"divisor", 0>>)
  BY <1>7, <1>9, <1>11, <1>13
<1>18. ASSUME NEW f, Has(F, f), f[1] = "divisor"
       PROVE  f = <<"divisor", 0>>
  <2>1. ~Has(b, f)
    BY <1>6, <1>18
  <2>2. ~Has(a, f)
    BY <1>9, <1>18
  <2> QED
    BY <1>8, <1>11, <1>13, <1>18, <2>1, <2>2
<1>19. Len(F) > 0
  <2>1. Len(b) \in Nat
    BY <1>6
  <2> QED
    BY <1>7, <1>9, <1>11, <1>13, <2>1
<1> QED
  BY <1>5, <1>13, <1>14, <1>15, <1>16, <1>17, <1>18, <1>19

LEMMA ExpositionRead ==
  LET F == Fields("exposition")
  IN  /\ F \in Seq(FieldSet) /\ Len(F) > 0 /\ Distinct(F)
      /\ \A d, e \in Edge : d <= e => Earlier(F, <<"bucket", d>>, <<"bucket", e>>)
      /\ \A e \in Edge : Earlier(F, <<"bucket", e>>, <<"+Inf", 0>>)
      /\ Earlier(F, <<"+Inf", 0>>, <<"count", 0>>)
      /\ \A f : Has(F, f) => f[1] # "divisor"
<1>1. PICK b : b = BucketCounts
  OBVIOUS
<1>2. PICK c : c = LastFields
  OBVIOUS
<1>3. PICK a : a = All
  OBVIOUS
<1>4. PICK F : F = (b \o a) \o c
  OBVIOUS
<1>5. F = Fields("exposition")
  BY <1>1, <1>2, <1>3, <1>4 DEF Fields, LastFields
<1>6. /\ b \in Seq(FieldSet) /\ Distinct(b)
      /\ \A f : Has(b, f) => f[1] = "bucket"
      /\ \A d, e \in Edge : d <= e => Earlier(b, <<"bucket", d>>, <<"bucket", e>>)
  BY <1>1, BucketsRead
<1>7. /\ c \in Seq(FieldSet) /\ Distinct(c) /\ Len(c) = 2
      /\ \A f : Has(c, f) => f[1] \in {"sum", "count"}
      /\ Has(c, <<"count", 0>>)
  BY <1>2, EndsRead
<1>8. /\ a \in Seq(FieldSet) /\ Distinct(a) /\ Len(a) = 1
      /\ \A f : Has(a, f) => f = <<"+Inf", 0>>
      /\ Has(a, <<"+Inf", 0>>)
  BY <1>3, AllRead
<1>9. \A f : Has(a, f) => f[1] = "+Inf"
  BY <1>8
<1>10. PICK u : u = b \o a
  OBVIOUS
<1>11. /\ u \in Seq(FieldSet) /\ Len(u) = Len(b) + Len(a)
       /\ \A f : Has(u, f) <=> Has(b, f) \/ Has(a, f)
       /\ \A f, g : Earlier(b, f, g) => Earlier(u, f, g)
       /\ \A f, g : Has(b, f) /\ Has(a, g) => Earlier(u, f, g)
  BY <1>6, <1>8, <1>10, Concatenated
<1>12. Distinct(u)
  <2>1. \A f : ~(Has(b, f) /\ Has(a, f))
    BY <1>6, <1>9
  <2> QED
    BY <1>6, <1>8, <1>10, <2>1, Concatenated
<1>13. /\ F \in Seq(FieldSet) /\ Len(F) = Len(u) + Len(c)
       /\ \A f : Has(F, f) <=> Has(u, f) \/ Has(c, f)
       /\ \A f, g : Earlier(u, f, g) => Earlier(F, f, g)
       /\ \A f, g : Has(u, f) /\ Has(c, g) => Earlier(F, f, g)
  BY <1>4, <1>7, <1>10, <1>11, Concatenated
<1>14. \A f : Has(u, f) => f[1] = "bucket" \/ f[1] = "+Inf"
  BY <1>6, <1>9, <1>11
<1>15. Distinct(F)
  <2>1. \A f : ~(Has(u, f) /\ Has(c, f))
    BY <1>7, <1>14
  <2> QED
    BY <1>4, <1>7, <1>10, <1>11, <1>12, <2>1, Concatenated
<1>16. ASSUME NEW d \in Edge, NEW e \in Edge, d <= e
       PROVE  Earlier(F, <<"bucket", d>>, <<"bucket", e>>)
  BY <1>6, <1>11, <1>13, <1>16
<1>17. ASSUME NEW e \in Edge
       PROVE  Earlier(F, <<"bucket", e>>, <<"+Inf", 0>>)
  <2>1. Has(b, <<"bucket", e>>)
    <3>1. e <= e
      BY MetricsAssumption
    <3> QED
      BY <1>6, <3>1 DEF Earlier, Has
  <2> QED
    BY <1>8, <1>11, <1>13, <2>1
<1>18. Earlier(F, <<"+Inf", 0>>, <<"count", 0>>)
  BY <1>7, <1>8, <1>11, <1>13
<1>19. ASSUME NEW f, Has(F, f)
       PROVE  f[1] # "divisor"
  BY <1>7, <1>13, <1>14, <1>19
<1>20. Len(F) > 0
  <2>1. Len(b) \in Nat
    BY <1>6
  <2> QED
    BY <1>7, <1>8, <1>11, <1>13, <2>1
<1> QED
  BY <1>5, <1>13, <1>15, <1>16, <1>17, <1>18, <1>19, <1>20
------------------------------------------------------------------------------
(* What a snapshot has read so far: each field as it was at a moment of its *)
(* own, none of them before that of a field read earlier.                   *)
Moments(F, k, got, before, after, m) ==
  /\ \A i \in 1 .. k : /\ StartOf(before, m[i]) /\ StartOf(m[i], after)
                       /\ F[i] \in DOMAIN got /\ got[F[i]] = Read(F[i], m[i])
  /\ \A i, j \in 1 .. k : i <= j => StartOf(m[i], m[j])
Recounts(F, k, got, before, after) ==
  /\ StartOf(before, after)
  /\ \A f \in DOMAIN got : \E i \in 1 .. k : f = F[i]
  /\ \E m \in [1 .. k -> Seq(Nat)] : Moments(F, k, got, before, after, m)

LEMMA NothingTold ==
  ASSUME NEW F, NEW s \in Seq(Nat)
  PROVE  Recounts(F, 0, <<>>, s, s)
<1>1. StartOf(s, s)
  BY StartsItself
<1>2. DOMAIN <<>> = {}
  OBVIOUS
<1>3. PICK m : m = [i \in 1 .. 0 |-> s]
  OBVIOUS
<1>4. m \in [1 .. 0 -> Seq(Nat)] /\ 1 .. 0 = {}
  BY <1>3
<1>5. Moments(F, 0, <<>>, s, s, m)
  BY <1>4 DEF Moments
<1> QED
  BY <1>1, <1>2, <1>4, <1>5 DEF Recounts

LEMMA ToldOneMore ==
  ASSUME NEW F \in Seq(FieldSet), Distinct(F), NEW k \in Nat, k < Len(F), NEW got,
         NEW before \in Seq(Nat), NEW after \in Seq(Nat), NEW now \in Seq(Nat),
         Recounts(F, k, got, before, after), StartOf(after, now),
         NEW f, f = F[k + 1], NEW v, v = Read(f, now)
  PROVE  Recounts(F, k + 1, With(got, f, v), before, now)
<1>1. PICK new : new = With(got, f, v)
  OBVIOUS
<1>2. /\ DOMAIN new = {f} \cup DOMAIN got /\ new[f] = v
      /\ \A g \in DOMAIN got : g # f => new[g] = got[g]
  BY <1>1 DEF With
<1>3. StartOf(before, after) /\ \A g \in DOMAIN got : \E i \in 1 .. k : g = F[i]
  BY DEF Recounts
<1>4. PICK m \in [1 .. k -> Seq(Nat)] : Moments(F, k, got, before, after, m)
  BY DEF Recounts
<1>5. /\ \A i \in 1 .. k : /\ StartOf(before, m[i]) /\ StartOf(m[i], after)
                           /\ F[i] \in DOMAIN got /\ got[F[i]] = Read(F[i], m[i])
      /\ \A i, j \in 1 .. k : i <= j => StartOf(m[i], m[j])
  BY <1>4 DEF Moments
<1>6. PICK n : n = [i \in 1 .. k + 1 |-> IF i <= k THEN m[i] ELSE now]
  OBVIOUS
<1>7. n \in [1 .. k + 1 -> Seq(Nat)] /\ n[k + 1] = now /\ \A i \in 1 .. k : n[i] = m[i] /\ i \in 1 .. k + 1
  BY <1>6
<1>8. StartOf(before, now) /\ StartOf(now, now)
  BY <1>3, StartsFollow, StartsItself
<1>9. ASSUME NEW i \in 1 .. k
      PROVE  /\ StartOf(before, n[i]) /\ StartOf(n[i], now)
             /\ F[i] \in DOMAIN new /\ new[F[i]] = Read(F[i], n[i])
  <2>1. m[i] \in Seq(Nat) /\ StartOf(m[i], after) /\ n[i] = m[i]
    BY <1>5, <1>7
  <2>2. StartOf(m[i], now)
    BY <2>1, StartsFollow
  <2>3. F[i] # f
    <3>1. i \in 1 .. Len(F) /\ k + 1 \in 1 .. Len(F) /\ i # k + 1
      OBVIOUS
    <3> QED
      BY <3>1 DEF Distinct
  <2> QED
    BY <1>2, <1>5, <2>1, <2>2, <2>3
<1>10. \A i \in 1 .. k + 1 : i \in 1 .. k \/ i = k + 1
  OBVIOUS
<1>11. \A i \in 1 .. k + 1 : /\ StartOf(before, n[i]) /\ StartOf(n[i], now)
                             /\ F[i] \in DOMAIN new /\ new[F[i]] = Read(F[i], n[i])
  BY <1>2, <1>7, <1>8, <1>9, <1>10
<1>12. ASSUME NEW i \in 1 .. k + 1, NEW j \in 1 .. k + 1, i <= j
       PROVE  StartOf(n[i], n[j])
  <2>1. CASE j \in 1 .. k
    <3>1. i \in 1 .. k
      BY <1>12, <2>1
    <3> QED
      BY <1>5, <1>7, <1>12, <2>1, <3>1
  <2>2. CASE j = k + 1
    BY <1>7, <1>11, <2>2
  <2> QED
    BY <1>10, <2>1, <2>2
<1>13. Moments(F, k + 1, new, before, now, n)
  BY <1>11, <1>12 DEF Moments
<1>14. \A g \in DOMAIN new : \E i \in 1 .. k + 1 : g = F[i]
  <2>1. k + 1 \in 1 .. k + 1
    OBVIOUS
  <2> QED
    BY <1>2, <1>3, <1>7, <2>1
<1>15. Recounts(F, k + 1, new, before, now)
  BY <1>7, <1>8, <1>13, <1>14 DEF Recounts
<1> QED
  BY <1>1, <1>15

\* Two fields were true at two moments, that of the first before that of the second.
BothTrue(got, f, g, before, after) ==
  \E s, t \in Seq(Nat) : /\ StartOf(before, s) /\ StartOf(s, t) /\ StartOf(t, after)
                         /\ got[f] = Read(f, s) /\ got[g] = Read(g, t)

LEMMA ToldEarlier ==
  ASSUME NEW F \in Seq(FieldSet), NEW k \in Nat, NEW got,
         NEW before \in Seq(Nat), NEW after \in Seq(Nat), Recounts(F, k, got, before, after),
         NEW i \in 1 .. k, NEW j \in 1 .. k, i <= j
  PROVE  BothTrue(got, F[i], F[j], before, after)
<1>1. PICK m \in [1 .. k -> Seq(Nat)] : Moments(F, k, got, before, after, m)
  BY DEF Recounts
<1>2. /\ m[i] \in Seq(Nat) /\ m[j] \in Seq(Nat) /\ StartOf(before, m[i]) /\ StartOf(m[j], after)
      /\ got[F[i]] = Read(F[i], m[i]) /\ got[F[j]] = Read(F[j], m[j])
  BY <1>1 DEF Moments
<1>3. StartOf(m[i], m[j])
  BY <1>1 DEF Moments
<1> QED
  BY <1>2, <1>3 DEF BothTrue

\* What is read rises with the samples, but for the least of them and the percentiles.
LEMMA ReadRises ==
  ASSUME NEW f \in FieldSet, f[1] \notin {"min", "percentile"},
         NEW s \in Seq(Nat), NEW t \in Seq(Nat), StartOf(s, t)
  PROVE  Read(f, s) <= Read(f, t)
<1>1. f[1] \in Kinds /\ f[2] \in Nat
  BY DEF FieldSet
<1>2. CASE f[1] \in {"sum", "dividend"}
  <2>1. Read(f, s) = Total(s) /\ Read(f, t) = Total(t)
    BY <1>2 DEF Read
  <2> QED
    BY <2>1, TotalRises
<1>3. CASE f[1] \in {"count", "nonempty", "divisor", "+Inf"}
  <2>1. Read(f, s) = Len(s) /\ Read(f, t) = Len(t)
    BY <1>3 DEF Read
  <2> QED
    BY <2>1 DEF StartOf
<1>4. CASE f[1] = "bucket"
  <2>1. Read(f, s) = AtMost(f[2], s) /\ Read(f, t) = AtMost(f[2], t)
    BY <1>4 DEF Read
  <2>2. PICK e \in Nat : e = f[2] /\ e <= e
    BY <1>1
  <2> QED
    BY <2>1, <2>2, AtMostRises
<1>5. CASE f[1] = "max"
  <2>1. /\ Read(f, s) = IF s = <<>> THEN 0 ELSE Max(ToSet(s))
        /\ Read(f, t) = IF t = <<>> THEN 0 ELSE Max(ToSet(t))
    BY <1>5 DEF Read
  <2>2. ToSet(s) \in SUBSET Nat /\ ToSet(t) \in SUBSET Nat
    BY SampleSet
  <2>3. CASE s = <<>>
    <3>1. CASE t = <<>>
      BY <2>1, <2>3, <3>1
    <3>2. CASE t # <<>>
      <4>1. Max(ToSet(t)) \in ToSet(t)
        BY <3>2, GreatestSample
      <4> QED
        BY <2>1, <2>2, <2>3, <3>2, <4>1
    <3> QED
      BY <3>1, <3>2
  <2>4. CASE s # <<>>
    <3>1. Max(ToSet(s)) \in ToSet(s)
      BY <2>4, GreatestSample
    <3>2. Max(ToSet(s)) \in ToSet(t)
      BY <3>1, SetGrows
    <3>3. t # <<>>
      BY <3>2, SampleSet
    <3>4. \A v \in ToSet(t) : v <= Max(ToSet(t))
      BY <3>3, GreatestSample
    <3> QED
      BY <2>1, <2>4, <3>2, <3>3, <3>4
  <2> QED
    BY <2>3, <2>4
<1> QED
  BY <1>1, <1>2, <1>3, <1>4, <1>5 DEF Kinds

LEMMA LeastRead ==
  ASSUME NEW s \in Seq(Nat), NEW t \in Seq(Nat), NEW u \in Seq(Nat), StartOf(s, t), StartOf(t, u),
         NEW f, f[1] = "min"
  PROVE  Read(f, t) \in ToSet(u) \cup {0} /\ \A v \in ToSet(s) : Read(f, t) <= v
<1>1. Read(f, t) = IF t = <<>> THEN 0 ELSE Min(ToSet(t))
  BY DEF Read
<1>2. \A v \in ToSet(s) : v \in ToSet(t)
  BY SetGrows
<1>3. \A v \in ToSet(t) : v \in ToSet(u)
  BY SetGrows
<1>4. ToSet(t) \in SUBSET Nat /\ (t = <<>> <=> ToSet(t) = {})
  BY SampleSet
<1>5. CASE t = <<>>
  BY <1>1, <1>2, <1>4, <1>5
<1>6. CASE t # <<>>
  <2>1. ToSet(t) # {}
    BY <1>4, <1>6
  <2>2. Min(ToSet(t)) \in ToSet(t) /\ \A v \in ToSet(t) : Min(ToSet(t)) <= v
    BY <1>4, <2>1, LeastTaken
  <2> QED
    BY <1>1, <1>2, <1>3, <1>6, <2>2
<1> QED
  BY <1>5, <1>6

LEMMA PercentileRead ==
  ASSUME NEW f \in FieldSet, f[1] = "percentile",
         NEW s \in Seq(Nat), NEW t \in Seq(Nat), StartOf(s, t)
  PROVE  Read(f, s) \in ToSet(t) \cup {0}
<1>1. PICK q \in Nat : q = f[2]
  BY DEF FieldSet
<1>2. Read(f, s) = Percentile(q, s)
  BY <1>1 DEF Read
<1>3. Percentile(q, s) \in ToSet(s) \cup {0}
  BY PercentileTaken
<1> QED
  BY <1>2, <1>3, SetGrows
------------------------------------------------------------------------------
(* The histogram that has the name holds what current workers observed; a  *)
(* snapshot under way has read a first part of its fields.                 *)
Registered ==
  /\ registry \in 0 .. MaxObjects /\ samples \in [1 .. MaxObjects -> Seq(Nat)]
  /\ held \in [Worker -> 0 .. MaxObjects] /\ current \in SUBSET Worker
  /\ observed \in Seq(Nat)
  /\ registry = 0 => observed = <<>> /\ current = {}
  /\ registry # 0 => samples[registry] = observed
  /\ \A w \in Worker : w \in current => held[w] = registry
  /\ \A w \in Worker \ current : held[w] = 0 \/ held[w] # registry

ScrapeShape ==
  /\ scrape = [state |-> scrape.state, form |-> scrape.form, todo |-> scrape.todo, got |-> scrape.got,
               before |-> scrape.before, after |-> scrape.after, cleared |-> scrape.cleared]
  /\ scrape.state \in {"idle", "reading", "done", "raised"} /\ scrape.form \in {"snapshot", "exposition"}
  /\ scrape.before \in Seq(Nat) /\ scrape.after \in Seq(Nat)

\* The fields still to be read follow those that were.
Left(F, k, todo) ==
  /\ k \in Nat /\ k < Len(F) /\ todo \in Seq(FieldSet) /\ Len(todo) = Len(F) - k
  /\ \A i \in 1 .. Len(todo) : todo[i] = F[k + i]

ReadingOK ==
  scrape.state = "reading" =>
    /\ registry # 0
    /\ \E k \in Nat : /\ Left(Fields(scrape.form), k, scrape.todo)
                      /\ ~scrape.cleared =>
                           /\ Recounts(Fields(scrape.form), k, scrape.got, scrape.before, scrape.after)
                           /\ StartOf(scrape.after, observed)

DoneOK ==
  /\ scrape.state = "done" /\ ~scrape.cleared =>
       \/ scrape.got = <<>> /\ scrape.before = <<>>
       \/ Recounts(Fields(scrape.form), Len(Fields(scrape.form)), scrape.got, scrape.before, scrape.after)
  /\ scrape.state = "raised" => scrape.cleared

SnapshotInv == Registered /\ ScrapeShape /\ ReadingOK /\ DoneOK

LEMMA FieldsRead ==
  ASSUME NEW form \in {"snapshot", "exposition"}
  PROVE  /\ Fields(form) \in Seq(FieldSet) /\ Len(Fields(form)) \in Nat /\ Len(Fields(form)) > 0
         /\ Distinct(Fields(form))
         /\ \A f : Has(Fields(form), f) /\ f[1] = "divisor" =>
               f = <<"divisor", 0>> /\ Earlier(Fields(form), <<"nonempty", 0>>, f)
<1>1. CASE form = "snapshot"
  <2>1. PICK F : F = Fields("snapshot")
    OBVIOUS
  <2>2. /\ F \in Seq(FieldSet) /\ Len(F) > 0 /\ Distinct(F)
        /\ Earlier(F, <<"nonempty", 0>>, <<"divisor", 0>>)
        /\ \A f : Has(F, f) /\ f[1] = "divisor" => f = <<"divisor", 0>>
    BY <2>1, SnapshotRead
  <2>3. Len(F) \in Nat
    BY <2>2
  <2>4. \A f : Has(F, f) /\ f[1] = "divisor" => f = <<"divisor", 0>> /\ Earlier(F, <<"nonempty", 0>>, f)
    BY <2>2
  <2> QED
    BY <1>1, <2>1, <2>2, <2>3, <2>4
<1>2. CASE form = "exposition"
  <2>1. PICK F : F = Fields("exposition")
    OBVIOUS
  <2>2. /\ F \in Seq(FieldSet) /\ Len(F) > 0 /\ Distinct(F)
        /\ \A f : Has(F, f) => f[1] # "divisor"
    BY <2>1, ExpositionRead
  <2>3. Len(F) \in Nat
    BY <2>2
  <2> QED
    BY <1>2, <2>1, <2>2, <2>3
<1> QED
  BY <1>1, <1>2

LEMMA MetricsStarts ==
  ASSUME MetricsInit
  PROVE  SnapshotInv
<1>1. Registered
  <2>1. <<>> \in Seq(Nat) /\ 0 \in 0 .. MaxObjects
    BY MetricsAssumption
  <2> QED
    BY <2>1 DEF MetricsInit, Registered
<1>2. ScrapeShape /\ scrape.state = "idle"
  BY DEF MetricsInit, NoScrape, ScrapeShape
<1> QED
  BY <1>1, <1>2 DEF SnapshotInv, ReadingOK, DoneOK

LEMMA FetchInv ==
  ASSUME SnapshotInv, scrape.state \in {"idle", "reading"}, NEW w \in Worker, Fetch(w)
  PROVE  SnapshotInv'
<1>1. scrape.state = "idle" /\ scrape' = scrape
  BY DEF Fetch, LockFree
<1>2. PICK o \in Handed : /\ registry' = o /\ held' = [held EXCEPT ![w] = o]
                          /\ current' = current \cup {w} /\ samples' = samples /\ observed' = observed
  BY DEF Fetch
<1>3. Registered
  BY DEF SnapshotInv
<1>4. Registered'
  <2>1. CASE registry # 0
    <3>1. o = registry
      BY <1>2, <2>1 DEF Handed
    <3> QED
      BY <1>2, <1>3, <2>1, <3>1 DEF Registered
  <2>2. CASE registry = 0
    <3>1. o \in 1 .. MaxObjects /\ samples[o] = <<>> /\ \A v \in Worker : held[v] # o
      BY <1>2, <2>2 DEF Handed, Unused
    <3>2. o \in 0 .. MaxObjects /\ o # 0
      BY <3>1, MetricsAssumption
    <3>3. observed = <<>> /\ current = {}
      BY <1>3, <2>2 DEF Registered
    <3> QED
      BY <1>2, <1>3, <3>1, <3>2, <3>3 DEF Registered
  <2> QED
    BY <2>1, <2>2
<1>5. ScrapeShape'
  BY <1>1 DEF SnapshotInv, ScrapeShape
<1> QED
  BY <1>1, <1>4, <1>5 DEF SnapshotInv, ReadingOK, DoneOK

LEMMA ObserveInv ==
  ASSUME SnapshotInv, scrape.state \in {"idle", "reading"}, NEW w \in Worker, NEW v \in Sample, Observe(w, v)
  PROVE  SnapshotInv'
<1>1. /\ held[w] # 0 /\ samples' = [samples EXCEPT ![held[w]] = Append(@, v)]
      /\ observed' = IF w \in current THEN Append(observed, v) ELSE observed
      /\ registry' = registry /\ held' = held /\ current' = current /\ scrape' = scrape
  BY DEF Observe
<1>2. Registered /\ v \in Nat
  BY MetricsAssumption DEF SnapshotInv
<1>3. /\ observed' \in Seq(Nat) /\ StartOf(observed, observed')
  <2>1. Append(observed, v) \in Seq(Nat) /\ StartOf(observed, Append(observed, v))
    BY <1>2, AppendedStart DEF Registered
  <2>2. StartOf(observed, observed)
    BY <1>2, StartsItself DEF Registered
  <2> QED
    BY <1>1, <1>2, <2>1, <2>2 DEF Registered
<1>4. Registered'
  <2>1. held[w] \in 1 .. MaxObjects /\ samples[held[w]] \in Seq(Nat)
    BY <1>1, <1>2, MetricsAssumption DEF Registered
  <2>2. samples' \in [1 .. MaxObjects -> Seq(Nat)]
    <3>1. Append(samples[held[w]], v) \in Seq(Nat)
      BY <1>2, <2>1, AppendProperties
    <3> QED
      BY <1>1, <1>2, <2>1, <3>1 DEF Registered
  <2>3. registry = 0 => w \notin current
    BY <1>2 DEF Registered
  <2>4. ASSUME registry # 0
        PROVE  samples'[registry] = observed'
    <3>1. CASE w \in current
      BY <1>1, <1>2, <2>1, <2>4, <3>1 DEF Registered
    <3>2. CASE w \notin current
      <4>1. held[w] # registry
        BY <1>1, <1>2, <3>2 DEF Registered
      <4> QED
        BY <1>1, <1>2, <2>1, <2>4, <3>2, <4>1 DEF Registered
    <3> QED
      BY <3>1, <3>2
  <2> QED
    BY <1>1, <1>2, <1>3, <2>2, <2>3, <2>4 DEF Registered
<1>5. ScrapeShape' /\ DoneOK'
  BY <1>1 DEF SnapshotInv, ScrapeShape, DoneOK
<1>6. ReadingOK'
  <2>1. ASSUME StartOf(scrape.after, observed)
        PROVE  StartOf(scrape.after, observed')
    <3>1. PICK a, b, c \in Seq(Nat) : a = scrape.after /\ b = observed /\ c = observed'
      BY <1>2, <1>3 DEF SnapshotInv, ScrapeShape, Registered
    <3>2. StartOf(a, b) /\ StartOf(b, c)
      BY <1>3, <2>1, <3>1
    <3> QED
      BY <3>1, <3>2, StartsFollow
  <2> QED
    BY <1>1, <2>1 DEF SnapshotInv, ReadingOK
<1> QED
  BY <1>4, <1>5, <1>6 DEF SnapshotInv

LEMMA ResetAllInv ==
  ASSUME SnapshotInv, scrape.state \in {"idle", "reading"}, ResetAll
  PROVE  SnapshotInv'
<1>1. /\ scrape.state = "idle" /\ scrape' = scrape /\ samples' = samples /\ held' = held
      /\ registry' = 0 /\ current' = {} /\ observed' = <<>>
  BY DEF ResetAll, LockFree
<1>2. Registered /\ ScrapeShape
  BY DEF SnapshotInv
<1>3. Registered'
  <2>1. <<>> \in Seq(Nat) /\ 0 \in 0 .. MaxObjects
    BY MetricsAssumption
  <2> QED
    BY <1>1, <1>2, <2>1 DEF Registered
<1>4. ScrapeShape'
  BY <1>1, <1>2 DEF ScrapeShape
<1> QED
  BY <1>1, <1>3, <1>4 DEF SnapshotInv, ReadingOK, DoneOK

LEMMA ClearInv ==
  ASSUME SnapshotInv, scrape.state \in {"idle", "reading"}, NEW w \in Worker, Clear(w)
  PROVE  SnapshotInv'
<1>1. /\ held[w] # 0 /\ samples' = [samples EXCEPT ![held[w]] = <<>>]
      /\ observed' = IF w \in current THEN <<>> ELSE observed
      /\ scrape' = [scrape EXCEPT !.cleared = TRUE]
      /\ registry' = registry /\ held' = held /\ current' = current
  BY DEF Clear
<1>2. Registered /\ ScrapeShape
  BY DEF SnapshotInv
<1>3. Registered'
  <2>1. held[w] \in 1 .. MaxObjects /\ <<>> \in Seq(Nat)
    BY <1>1, <1>2, MetricsAssumption DEF Registered
  <2>2. samples' \in [1 .. MaxObjects -> Seq(Nat)] /\ observed' \in Seq(Nat)
    BY <1>1, <1>2, <2>1 DEF Registered
  <2>3. registry = 0 => w \notin current
    BY <1>2 DEF Registered
  <2>4. ASSUME registry # 0
        PROVE  samples'[registry] = observed'
    <3>1. CASE w \in current
      BY <1>1, <1>2, <2>1, <2>4, <3>1 DEF Registered
    <3>2. CASE w \notin current
      <4>1. held[w] # registry
        BY <1>1, <1>2, <3>2 DEF Registered
      <4> QED
        BY <1>1, <1>2, <2>1, <2>4, <3>2, <4>1 DEF Registered
    <3> QED
      BY <3>1, <3>2
  <2> QED
    BY <1>1, <1>2, <2>2, <2>3, <2>4 DEF Registered
<1>4. /\ scrape'.state = scrape.state /\ scrape'.form = scrape.form /\ scrape'.todo = scrape.todo
      /\ scrape'.before = scrape.before /\ scrape'.after = scrape.after /\ scrape'.cleared
      /\ ScrapeShape'
  BY <1>1, <1>2 DEF ScrapeShape
<1>5. ReadingOK'
  BY <1>1, <1>4 DEF SnapshotInv, ReadingOK
<1>6. DoneOK'
  BY <1>4 DEF DoneOK
<1> QED
  BY <1>3, <1>4, <1>5, <1>6 DEF SnapshotInv

LEMMA StartScrapeInv ==
  ASSUME SnapshotInv, NEW form \in {"snapshot", "exposition"}, StartScrape(form)
  PROVE  SnapshotInv'
<1>1. Registered
  BY DEF SnapshotInv
<1>2. Registered' /\ registry' = registry /\ observed' = observed
  BY <1>1 DEF StartScrape, Registered
<1>3. scrape' = [state |-> IF registry = 0 THEN "done" ELSE "reading", form |-> form,
                 todo |-> IF registry = 0 THEN <<>> ELSE Fields(form), got |-> <<>>,
                 before |-> observed, after |-> observed, cleared |-> FALSE]
  BY DEF StartScrape
<1>4. /\ scrape'.state = (IF registry = 0 THEN "done" ELSE "reading") /\ scrape'.form = form
      /\ scrape'.todo = (IF registry = 0 THEN <<>> ELSE Fields(form)) /\ scrape'.got = <<>>
      /\ scrape'.before = observed /\ scrape'.after = observed /\ scrape'.cleared = FALSE
  BY <1>3
<1>5. ScrapeShape'
  <2>1. observed \in Seq(Nat)
    BY <1>1 DEF Registered
  <2> QED
    BY <1>3, <1>4, <2>1 DEF ScrapeShape
<1>6. PICK F : F = Fields(form)
  OBVIOUS
<1>7. Left(F, 0, F)
  BY <1>6, FieldsRead DEF Left
<1>8. Recounts(F, 0, <<>>, observed, observed) /\ StartOf(observed, observed)
  BY <1>1, NothingTold, StartsItself DEF Registered
<1>9. ReadingOK'
  <2>1. ASSUME registry # 0
        PROVE  /\ Left(Fields(scrape'.form), 0, scrape'.todo)
               /\ Recounts(Fields(scrape'.form), 0, scrape'.got, scrape'.before, scrape'.after)
               /\ StartOf(scrape'.after, observed')
    BY <1>2, <1>4, <1>6, <1>7, <1>8, <2>1
  <2>2. scrape'.state = "reading" => registry # 0
    BY <1>4
  <2> QED
    BY <1>2, <2>1, <2>2 DEF ReadingOK
<1>10. DoneOK'
  <2>1. registry = 0 => observed = <<>>
    BY <1>1 DEF Registered
  <2> QED
    BY <1>4, <2>1 DEF DoneOK
<1> QED
  BY <1>2, <1>5, <1>9, <1>10 DEF SnapshotInv

LEMMA LeftShrinks ==
  ASSUME NEW F \in Seq(FieldSet), NEW k, NEW todo, Left(F, k, todo)
  PROVE  /\ Head(todo) = F[k + 1] /\ k + 1 \in 1 .. Len(F)
         /\ Len(todo) = 1 => k + 1 = Len(F)
         /\ Len(todo) # 1 => Left(F, k + 1, Tail(todo))
<1>1. /\ k \in Nat /\ k < Len(F) /\ todo \in Seq(FieldSet) /\ Len(todo) = Len(F) - k
      /\ \A i \in 1 .. Len(todo) : todo[i] = F[k + i]
  BY DEF Left
<1>2. Len(F) \in Nat
  OBVIOUS
<1>3. Len(todo) > 0 /\ todo # <<>> /\ 1 \in 1 .. Len(todo)
  BY <1>1, <1>2
<1>4. Head(todo) = todo[1]
  BY <1>1, <1>3
<1>5. ASSUME Len(todo) # 1
      PROVE  Left(F, k + 1, Tail(todo))
  <2>1. /\ Tail(todo) \in Seq(FieldSet) /\ Len(Tail(todo)) = Len(todo) - 1
        /\ \A i \in 1 .. Len(Tail(todo)) : Tail(todo)[i] = todo[i + 1]
    BY <1>1, <1>3, HeadTailProperties
  <2>2. \A i \in 1 .. Len(Tail(todo)) : i + 1 \in 1 .. Len(todo) /\ k + (i + 1) = (k + 1) + i
    BY <1>1, <2>1
  <2>3. k + 1 \in Nat /\ k + 1 < Len(F) /\ Len(Tail(todo)) = Len(F) - (k + 1)
    BY <1>1, <1>2, <1>3, <1>5, <2>1
  <2>4. \A i \in 1 .. Len(Tail(todo)) : Tail(todo)[i] = F[(k + 1) + i]
    BY <1>1, <2>1, <2>2
  <2> QED
    BY <2>1, <2>3, <2>4 DEF Left
<1> QED
  BY <1>1, <1>2, <1>3, <1>4, <1>5

LEMMA NonemptyRemains ==
  ASSUME NEW F \in Seq(FieldSet), Distinct(F), NEW k \in Nat, k + 1 \in 1 .. Len(F), NEW got,
         NEW before \in Seq(Nat), NEW after \in Seq(Nat), NEW now \in Seq(Nat),
         Recounts(F, k, got, before, after), StartOf(after, now),
         F[k + 1] = <<"divisor", 0>>, Earlier(F, <<"nonempty", 0>>, <<"divisor", 0>>),
         Read(<<"divisor", 0>>, now) = 0
  PROVE  got[<<"nonempty", 0>>] = 0
<1>1. PICK p : p = <<"nonempty", 0>>
  OBVIOUS
<1>2. PICK q : q = <<"divisor", 0>>
  OBVIOUS
<1>3. p # q
  <2>1. p[1] # q[1]
    BY <1>1, <1>2
  <2> QED
    BY <2>1
<1>4. PICK i \in 1 .. Len(F), j \in 1 .. Len(F) : i <= j /\ F[i] = p /\ F[j] = q
  BY <1>1, <1>2 DEF Earlier
<1>5. j = k + 1
  BY <1>2, <1>4 DEF Distinct
<1>6. i \in 1 .. k /\ i <= i
  BY <1>2, <1>3, <1>4, <1>5
<1>7. PICK s, t \in Seq(Nat) : /\ StartOf(before, s) /\ StartOf(s, t) /\ StartOf(t, after)
                               /\ got[p] = Read(p, s) /\ got[p] = Read(p, t)
  <2>1. BothTrue(got, F[i], F[i], before, after)
    BY <1>6, ToldEarlier
  <2> QED
    BY <1>4, <2>1 DEF BothTrue
<1>8. got[p] = Len(s)
  <2>1. Read(p, s) = Len(s)
    BY <1>1 DEF Read
  <2> QED
    BY <1>4, <1>7, <2>1
<1>9. Len(now) = 0
  BY DEF Read
<1>10. Len(s) <= Len(now)
  <2>1. Len(s) <= Len(t) /\ Len(t) <= Len(after) /\ Len(after) <= Len(now)
    BY <1>7 DEF StartOf
  <2>2. Len(s) \in Nat /\ Len(t) \in Nat /\ Len(after) \in Nat /\ Len(now) \in Nat
    OBVIOUS
  <2> QED
    BY <2>1, <2>2
<1>11. Len(s) \in Nat
  OBVIOUS
<1> QED
  BY <1>1, <1>8, <1>9, <1>10, <1>11

LEMMA ReadFieldInv ==
  ASSUME SnapshotInv, ReadField
  PROVE  SnapshotInv'
<1>1. Registered /\ ScrapeShape
  BY DEF SnapshotInv
<1>2. /\ scrape.state = "reading" /\ registry' = registry /\ samples' = samples /\ held' = held
      /\ current' = current /\ observed' = observed
  BY DEF ReadField
<1>3. Registered'
  BY <1>1, <1>2 DEF Registered
<1>4. PICK k \in Nat : /\ Left(Fields(scrape.form), k, scrape.todo)
                       /\ ~scrape.cleared =>
                            /\ Recounts(Fields(scrape.form), k, scrape.got, scrape.before, scrape.after)
                            /\ StartOf(scrape.after, observed)
  BY <1>2 DEF SnapshotInv, ReadingOK
<1>5. registry # 0 /\ samples[registry] = observed
  BY <1>1, <1>2 DEF SnapshotInv, ReadingOK, Registered
<1>6. PICK F : F = Fields(scrape.form)
  OBVIOUS
<1>7. PICK todo : todo = scrape.todo
  OBVIOUS
<1>8. PICK got : got = scrape.got
  OBVIOUS
<1>9. PICK before \in Seq(Nat) : before = scrape.before
  BY <1>1 DEF ScrapeShape
<1>10. PICK after \in Seq(Nat) : after = scrape.after
  BY <1>1 DEF ScrapeShape
<1>11. PICK now \in Seq(Nat) : now = observed
  BY <1>1 DEF Registered
<1>12. /\ F \in Seq(FieldSet) /\ Len(F) \in Nat /\ Distinct(F)
       /\ \A f : Has(F, f) /\ f[1] = "divisor" =>
             f = <<"divisor", 0>> /\ Earlier(F, <<"nonempty", 0>>, f)
  BY <1>1, <1>6, FieldsRead DEF ScrapeShape
<1>13. Left(F, k, todo) /\ (~scrape.cleared => Recounts(F, k, got, before, after) /\ StartOf(after, now))
  BY <1>4, <1>6, <1>7, <1>8, <1>9, <1>10, <1>11
<1>14. PICK field : field = Head(todo)
  OBVIOUS
<1>15. PICK value : value = Read(field, now)
  OBVIOUS
<1>16. /\ field = F[k + 1] /\ k + 1 \in 1 .. Len(F) /\ (Len(todo) = 1 => k + 1 = Len(F))
       /\ Len(todo) # 1 => Left(F, k + 1, Tail(todo))
  BY <1>12, <1>13, <1>14, LeftShrinks
<1>17. scrape' = IF field[1] = "divisor" /\ value = 0 /\ got[<<"nonempty", 0>>] # 0
                 THEN [scrape EXCEPT !.state = "raised", !.todo = <<>>]
                 ELSE [scrape EXCEPT !.got = With(got, field, value), !.todo = Tail(todo),
                                     !.after = now,
                                     !.state = IF Len(todo) = 1 THEN "done" ELSE "reading"]
  BY <1>1, <1>2, <1>5, <1>7, <1>8, <1>11, <1>14, <1>15 DEF ReadField, ScrapeShape
<1>18. CASE field[1] = "divisor" /\ value = 0 /\ got[<<"nonempty", 0>>] # 0
  <2>1. scrape' = [scrape EXCEPT !.state = "raised", !.todo = <<>>]
    BY <1>17, <1>18
  <2>2. ScrapeShape' /\ scrape'.state = "raised" /\ scrape'.cleared = scrape.cleared
    BY <1>1, <2>1 DEF ScrapeShape
  <2>3. ASSUME ~scrape.cleared
        PROVE  FALSE
    <3>1. Has(F, field)
      BY <1>16 DEF Has
    <3>2. field = <<"divisor", 0>> /\ Earlier(F, <<"nonempty", 0>>, <<"divisor", 0>>)
      BY <1>12, <1>18, <3>1
    <3>3. F[k + 1] = <<"divisor", 0>> /\ Read(<<"divisor", 0>>, now) = 0
      BY <1>15, <1>16, <1>18, <3>2
    <3>4. got[<<"nonempty", 0>>] = 0
      BY <1>12, <1>13, <1>16, <2>3, <3>2, <3>3, NonemptyRemains
    <3> QED
      BY <1>18, <3>4
  <2> QED
    BY <1>3, <2>2, <2>3 DEF SnapshotInv, ReadingOK, DoneOK
<1>19. CASE ~(field[1] = "divisor" /\ value = 0 /\ got[<<"nonempty", 0>>] # 0)
  <2>1. scrape' = [scrape EXCEPT !.got = With(got, field, value), !.todo = Tail(todo), !.after = now,
                                 !.state = IF Len(todo) = 1 THEN "done" ELSE "reading"]
    BY <1>17, <1>19
  <2>2. /\ scrape'.state = (IF Len(todo) = 1 THEN "done" ELSE "reading") /\ scrape'.form = scrape.form
        /\ scrape'.todo = Tail(todo) /\ scrape'.got = With(got, field, value)
        /\ scrape'.before = before /\ scrape'.after = now /\ scrape'.cleared = scrape.cleared
    BY <1>1, <1>9, <2>1 DEF ScrapeShape
  <2>3. ScrapeShape'
    BY <1>1, <2>1 DEF ScrapeShape
  <2>4. ASSUME ~scrape.cleared
        PROVE  Recounts(F, k + 1, With(got, field, value), before, now)
    <3>1. k < Len(F)
      BY <1>12, <1>16
    <3> QED
      BY <1>12, <1>13, <1>15, <1>16, <2>4, <3>1, ToldOneMore
  <2>5. Fields(scrape'.form) = F
    BY <1>6, <2>2
  <2>6. ReadingOK'
    <3>1. ASSUME scrape'.state = "reading"
          PROVE  Left(Fields(scrape'.form), k + 1, scrape'.todo)
      BY <1>16, <2>2, <2>5, <3>1
    <3>2. ASSUME ~scrape'.cleared
          PROVE  /\ Recounts(Fields(scrape'.form), k + 1, scrape'.got, scrape'.before, scrape'.after)
                 /\ StartOf(scrape'.after, observed')
      <4>1. StartOf(now, now)
        BY StartsItself
      <4> QED
        BY <1>2, <1>11, <2>2, <2>4, <2>5, <3>2, <4>1
    <3>3. k + 1 \in Nat /\ registry' # 0
      BY <1>2, <1>5
    <3> QED
      BY <3>1, <3>2, <3>3 DEF ReadingOK
  <2>7. DoneOK'
    <3>1. ASSUME scrape'.state = "done", ~scrape'.cleared
          PROVE  Recounts(Fields(scrape'.form), Len(Fields(scrape'.form)), scrape'.got, scrape'.before, scrape'.after)
      <4>1. k + 1 = Len(F)
        BY <1>16, <2>2, <3>1
      <4> QED
        BY <2>2, <2>4, <2>5, <3>1, <4>1
    <3>2. scrape'.state # "raised"
      BY <2>2
    <3> QED
      BY <3>1, <3>2 DEF DoneOK
  <2> QED
    BY <1>3, <2>3, <2>6, <2>7 DEF SnapshotInv
<1> QED
  BY <1>18, <1>19

------------------------------------------------------------------------------
\* What a finished snapshot shows.
LEMMA ToldFields ==
  ASSUME NEW F \in Seq(FieldSet), NEW k \in Nat, NEW got, NEW before \in Seq(Nat), NEW after \in Seq(Nat),
         Recounts(F, k, got, before, after), NEW f \in DOMAIN got, k <= Len(F)
  PROVE  f \in FieldSet /\ \E s \in Seq(Nat) : /\ StartOf(before, s) /\ StartOf(s, after)
                                                /\ got[f] = Read(f, s)
<1>1. PICK i \in 1 .. k : f = F[i]
  BY DEF Recounts
<1>2. PICK m \in [1 .. k -> Seq(Nat)] : Moments(F, k, got, before, after, m)
  BY DEF Recounts
<1>3. /\ m[i] \in Seq(Nat) /\ StartOf(before, m[i]) /\ StartOf(m[i], after) /\ got[f] = Read(f, m[i])
  BY <1>1, <1>2 DEF Moments
<1>4. F[i] \in FieldSet
  <2>1. i \in 1 .. Len(F)
    OBVIOUS
  <2> QED
    BY <2>1, ElementOfSeq
<1> QED
  BY <1>1, <1>3, <1>4

LEMMA ToldBoth ==
  ASSUME NEW F \in Seq(FieldSet), NEW got, NEW before \in Seq(Nat), NEW after \in Seq(Nat),
         Recounts(F, Len(F), got, before, after), NEW f, NEW g, Earlier(F, f, g)
  PROVE  BothTrue(got, f, g, before, after)
<1>1. PICK n \in Nat : n = Len(F)
  OBVIOUS
<1>2. PICK i, j \in 1 .. n : i <= j /\ F[i] = f /\ F[j] = g
  BY <1>1 DEF Earlier
<1>3. Recounts(F, n, got, before, after)
  BY <1>1
<1>4. BothTrue(got, F[i], F[j], before, after)
  BY <1>2, <1>3, ToldEarlier
<1> QED
  BY <1>2, <1>4

LEMMA TotalWithin ==
  ASSUME NEW s \in Seq(Nat), NEW t \in Seq(Nat), NEW u \in Seq(Nat), StartOf(s, t), StartOf(t, u)
  PROVE  Total(s) <= Len(t) * Max(ToSet(u) \cup {0})
<1>1. /\ Max(ToSet(u) \cup {0}) \in Nat
      /\ \A i \in 1 .. Len(u) : u[i] <= Max(ToSet(u) \cup {0})
  BY GreatestOfAll
<1>2. PICK b \in Nat : b = Max(ToSet(u) \cup {0}) /\ \A i \in 1 .. Len(u) : u[i] <= b
  BY <1>1
<1>3. StartOf(s, u)
  BY StartsFollow
<1>4. \A i \in 1 .. Len(s) : s[i] <= b
  <2>1. \A i \in 1 .. Len(s) : s[i] = u[i] /\ i \in 1 .. Len(u)
    BY <1>3 DEF StartOf
  <2> QED
    BY <1>2, <2>1
<1>5. Total(s) <= Len(s) * b
  BY <1>2, <1>4, TotalBounded
<1>6. Len(s) * b <= Len(t) * b
  <2>1. Len(s) \in Nat /\ Len(t) \in Nat /\ Len(s) <= Len(t)
    BY DEF StartOf
  <2> QED
    BY <1>2, <2>1, MoreTimes
<1>7. Total(s) \in Nat
  BY TotalRises
<1>8. PICK x \in Nat : x = Len(s) * b
  BY <1>2
<1>9. PICK y \in Nat : y = Len(t) * b
  BY <1>2
<1>10. Total(s) <= y
  BY <1>5, <1>6, <1>7, <1>8, <1>9
<1> QED
  BY <1>2, <1>9, <1>10

LEMMA SnapshotHolds ==
  ASSUME SnapshotInv
  PROVE  SnapshotsExact
<1>1. ASSUME scrape.state = "done", ~scrape.cleared, scrape.got # <<>>
      PROVE  FieldsAgree /\ \A field \in DOMAIN scrape.got : FieldWithin(field)
  <2>1. PICK F : F = Fields(scrape.form)
    OBVIOUS
  <2>2. PICK got : got = scrape.got
    OBVIOUS
  <2>3. PICK before \in Seq(Nat) : before = scrape.before
    BY DEF SnapshotInv, ScrapeShape
  <2>4. PICK after \in Seq(Nat) : after = scrape.after
    BY DEF SnapshotInv, ScrapeShape
  <2>5. Recounts(F, Len(F), got, before, after)
    BY <1>1, <2>1, <2>2, <2>3, <2>4 DEF SnapshotInv, DoneOK
  <2>6. F \in Seq(FieldSet) /\ Len(F) \in Nat
    BY <2>1, FieldsRead DEF SnapshotInv, ScrapeShape
  <2>7. /\ \A d, e \in Edge : d <= e => Earlier(F, <<"bucket", d>>, <<"bucket", e>>)
        /\ \A e \in Edge : Earlier(F, <<"bucket", e>>, <<"+Inf", 0>>)
        /\ scrape.form = "snapshot" => /\ Earlier(F, <<"count", 0>>, <<"+Inf", 0>>)
                                       /\ Earlier(F, <<"dividend", 0>>, <<"divisor", 0>>)
        /\ scrape.form # "snapshot" => Earlier(F, <<"+Inf", 0>>, <<"count", 0>>)
    <3>1. CASE scrape.form = "snapshot"
      BY <2>1, <3>1, SnapshotRead
    <3>2. CASE scrape.form = "exposition"
      BY <2>1, <3>2, ExpositionRead
    <3> QED
      BY <3>1, <3>2 DEF SnapshotInv, ScrapeShape
  <2>8. \A f, g : Earlier(F, f, g) => BothTrue(got, f, g, before, after)
    BY <2>5, <2>6, ToldBoth
  <2>9. ASSUME NEW d \in Edge, NEW e \in Edge, d <= e
        PROVE  got[<<"bucket", d>>] <= got[<<"bucket", e>>]
    <3>1. PICK s, t \in Seq(Nat) : /\ StartOf(s, t)
                                   /\ got[<<"bucket", d>>] = Read(<<"bucket", d>>, s)
                                   /\ got[<<"bucket", e>>] = Read(<<"bucket", e>>, t)
      BY <2>7, <2>8, <2>9 DEF BothTrue
    <3>2. got[<<"bucket", d>>] = AtMost(d, s) /\ got[<<"bucket", e>>] = AtMost(e, t)
      BY <3>1 DEF Read
    <3>3. d \in Nat /\ e \in Nat
      BY MetricsAssumption
    <3> QED
      BY <2>9, <3>1, <3>2, <3>3, AtMostRises
  <2>10. ASSUME NEW e \in Edge
         PROVE  got[<<"bucket", e>>] <= got[<<"+Inf", 0>>]
    <3>1. PICK s, t \in Seq(Nat) : /\ StartOf(s, t)
                                   /\ got[<<"bucket", e>>] = Read(<<"bucket", e>>, s)
                                   /\ got[<<"+Inf", 0>>] = Read(<<"+Inf", 0>>, t)
      BY <2>7, <2>8 DEF BothTrue
    <3>2. got[<<"bucket", e>>] = AtMost(e, s) /\ got[<<"+Inf", 0>>] = Len(t)
      BY <3>1 DEF Read
    <3>3. e \in Nat
      BY MetricsAssumption
    <3>4. AtMost(e, s) \in Nat /\ AtMost(e, s) <= Len(s) /\ Len(s) \in Nat /\ Len(t) \in Nat
      <4>1. AtMost(e, s) \in Nat /\ AtMost(e, s) <= Len(s)
        BY <3>3, UnderCounted
      <4> QED
        BY <4>1
    <3>5. Len(s) <= Len(t)
      BY <3>1 DEF StartOf
    <3> QED
      BY <3>2, <3>4, <3>5
  <2>11. ASSUME scrape.form = "snapshot"
         PROVE  /\ got[<<"count", 0>>] <= got[<<"+Inf", 0>>]
                /\ got[<<"dividend", 0>>] <= got[<<"divisor", 0>>] * Max(ToSet(after) \cup {0})
    <3>1. PICK s, t \in Seq(Nat) : /\ StartOf(s, t)
                                   /\ got[<<"count", 0>>] = Read(<<"count", 0>>, s)
                                   /\ got[<<"+Inf", 0>>] = Read(<<"+Inf", 0>>, t)
      BY <2>7, <2>8, <2>11 DEF BothTrue
    <3>2. got[<<"count", 0>>] = Len(s) /\ got[<<"+Inf", 0>>] = Len(t)
      BY <3>1 DEF Read
    <3>3. PICK u, v \in Seq(Nat) : /\ StartOf(u, v) /\ StartOf(v, after)
                                   /\ got[<<"dividend", 0>>] = Read(<<"dividend", 0>>, u)
                                   /\ got[<<"divisor", 0>>] = Read(<<"divisor", 0>>, v)
      BY <2>7, <2>8, <2>11 DEF BothTrue
    <3>4. got[<<"dividend", 0>>] = Total(u) /\ got[<<"divisor", 0>>] = Len(v)
      BY <3>3 DEF Read
    <3>5. Total(u) <= Len(v) * Max(ToSet(after) \cup {0})
      BY <3>3, TotalWithin
    <3> QED
      BY <3>1, <3>2, <3>4, <3>5 DEF StartOf
  <2>12. ASSUME scrape.form # "snapshot"
         PROVE  got[<<"+Inf", 0>>] <= got[<<"count", 0>>]
    <3>1. PICK s, t \in Seq(Nat) : /\ StartOf(s, t)
                                   /\ got[<<"+Inf", 0>>] = Read(<<"+Inf", 0>>, s)
                                   /\ got[<<"count", 0>>] = Read(<<"count", 0>>, t)
      BY <2>7, <2>8, <2>12 DEF BothTrue
    <3>2. got[<<"+Inf", 0>>] = Len(s) /\ got[<<"count", 0>>] = Len(t)
      BY <3>1 DEF Read
    <3> QED
      BY <3>1, <3>2 DEF StartOf
  <2>13. FieldsAgree
    BY <2>2, <2>4, <2>9, <2>10, <2>11, <2>12 DEF FieldsAgree
  <2>14. ASSUME NEW f \in DOMAIN got
         PROVE  FieldWithin(f)
    <3>1. f \in FieldSet
      BY <2>5, <2>6, ToldFields
    <3>2. PICK s \in Seq(Nat) : StartOf(before, s) /\ StartOf(s, after) /\ got[f] = Read(f, s)
      BY <2>5, <2>6, ToldFields
    <3>3. CASE f[1] = "min"
      <4>1. got[f] \in ToSet(after) \cup {0} /\ \A v \in ToSet(before) : got[f] <= v
        BY <3>2, <3>3, LeastRead
      <4> QED
        BY <2>2, <2>3, <2>4, <3>3, <4>1 DEF FieldWithin
    <3>4. CASE f[1] = "percentile"
      <4>1. got[f] \in ToSet(after) \cup {0}
        BY <3>1, <3>2, <3>4, PercentileRead
      <4> QED
        BY <2>2, <2>4, <3>4, <4>1 DEF FieldWithin
    <3>5. CASE f[1] \notin {"min", "percentile"}
      <4>1. Read(f, before) <= got[f] /\ got[f] <= Read(f, after)
        BY <3>1, <3>2, <3>5, ReadRises
      <4> QED
        BY <2>2, <2>3, <2>4, <3>5, <4>1 DEF FieldWithin
    <3> QED
      BY <3>3, <3>4, <3>5
  <2> QED
    BY <2>2, <2>13, <2>14
<1>2. ASSUME scrape.state = "done", ~scrape.cleared, scrape.got = <<>>
      PROVE  scrape.before = <<>>
  <2>1. PICK F : F = Fields(scrape.form)
    OBVIOUS
  <2>2. F \in Seq(FieldSet) /\ Len(F) \in Nat /\ Len(F) > 0
    BY <2>1, FieldsRead DEF SnapshotInv, ScrapeShape
  <2>3. ASSUME Recounts(F, Len(F), scrape.got, scrape.before, scrape.after)
        PROVE  FALSE
    <3>1. PICK n \in Nat : n = Len(F) /\ n > 0
      BY <2>2
    <3>2. PICK m : Moments(F, n, <<>>, scrape.before, scrape.after, m)
      BY <1>2, <2>3, <3>1 DEF Recounts
    <3>3. 1 \in 1 .. n
      BY <3>1
    <3>4. F[1] \in DOMAIN <<>>
      BY <3>2, <3>3 DEF Moments
    <3> QED
      BY <3>4
  <2> QED
    BY <1>2, <2>1, <2>3 DEF SnapshotInv, DoneOK
<1>3. scrape.state = "raised" => scrape.cleared
  BY DEF SnapshotInv, DoneOK
<1> QED
  BY <1>1, <1>2, <1>3 DEF SnapshotsExact

LEMMA MetricsStep ==
  ASSUME SnapshotInv, [MetricsNext]_observabilityVars
  PROVE  SnapshotInv'
<1>1. CASE UNCHANGED observabilityVars
  BY <1>1 DEF observabilityVars, SnapshotInv, Registered, ScrapeShape, ReadingOK, DoneOK
<1>2. CASE MetricsNext
  <2>1. scrape.state \in {"idle", "reading"}
    BY <1>2 DEF MetricsNext
  <2>2. ASSUME NEW w \in Worker, Fetch(w)
        PROVE  SnapshotInv'
    BY <2>1, <2>2, FetchInv
  <2>3. ASSUME NEW w \in Worker, Clear(w)
        PROVE  SnapshotInv'
    BY <2>1, <2>3, ClearInv
  <2>4. ASSUME NEW w \in Worker, NEW v \in Sample, Observe(w, v)
        PROVE  SnapshotInv'
    BY <2>1, <2>4, ObserveInv
  <2>5. ASSUME ResetAll
        PROVE  SnapshotInv'
    BY <2>1, <2>5, ResetAllInv
  <2>6. ASSUME NEW form \in {"snapshot", "exposition"}, StartScrape(form)
        PROVE  SnapshotInv'
    BY <2>6, StartScrapeInv
  <2>7. ASSUME ReadField
        PROVE  SnapshotInv'
    BY <2>7, ReadFieldInv
  <2> QED
    BY <1>2, <2>2, <2>3, <2>4, <2>5, <2>6, <2>7 DEF MetricsNext
<1> QED
  BY <1>1, <1>2

\* The numbers of one snapshot of a histogram fit together, and each was true at some
\* moment of it, whatever other threads observe meanwhile; a snapshot raises only if the
\* histogram is cleared under it.
THEOREM SnapshotsAreExact == MetricsSpec => []SnapshotsExact
<1>1. MetricsInit => SnapshotInv
  BY MetricsStarts
<1>2. SnapshotInv /\ [MetricsNext]_observabilityVars => SnapshotInv'
  BY MetricsStep
<1>3. SnapshotInv => SnapshotsExact
  BY SnapshotHolds
<1> QED
  BY <1>1, <1>2, <1>3, PTL DEF MetricsSpec

------------------------------------------------------------------------------
(* Retrieval: scores *)
LEMMA NoteTypes ==
  ASSUME NEW i \in Notes, NEW known
  PROVE  /\ i \in Int /\ Note[i].meeting \in Meetings
         /\ Note[i].index \in Nat /\ Note[i].confidence \in Nat /\ Note[i].created \in Int
         /\ DateIn(i, known) \in Nat
BY RecordsAssumption DEF Notes, Meetings, DateIn

\* Division by a positive number keeps the order.
LEMMA PartGrows ==
  ASSUME NEW m \in Nat, NEW n \in Nat, NEW of \in Nat \ {0}, m <= n
  PROVE  Part(m, of) \in Nat /\ Part(n, of) \in Nat /\ Part(m, of) <= Part(n, of)
<1> DEFINE a == (m * Scale) \div of
           b == (n * Scale) \div of
<1>1. Scale = 60 /\ m * Scale \in Nat /\ n * Scale \in Nat /\ m * Scale <= n * Scale
  BY DEF Scale
<1>2. ASSUME NEW x \in Nat
      PROVE  /\ x \div of \in Nat
             /\ of * (x \div of) <= x /\ x < of * ((x \div of) + 1)
  OBVIOUS
<1>3. ASSUME NEW x \in Nat, NEW y \in Nat, x <= y
      PROVE  x \div of <= y \div of
  <2>1. /\ x \div of \in Nat /\ of * (x \div of) <= x
        /\ y \div of \in Nat /\ y < of * ((y \div of) + 1)
    BY <1>2
  <2>2. of * (x \div of) < of * ((y \div of) + 1)
    BY <2>1, <1>3
  <2>3. \A p, q \in Nat : of * p < of * (q + 1) => p <= q
    OBVIOUS
  <2> QED
    BY <2>1, <2>2, <2>3
<1> QED
  BY <1>1, <1>2, <1>3 DEF Part

\* A date that is no earlier is no less recent.
Dates(candidates, known) == {DateIn(j, known) : j \in candidates} \ {0}

LEMMA RecencyGrows ==
  ASSUME NEW candidates \in SUBSET Notes, NEW known,
         NEW i \in candidates, NEW j \in candidates, DateIn(i, known) <= DateIn(j, known)
  PROVE  /\ Recency(i, candidates, known) \in Nat /\ Recency(j, candidates, known) \in Nat
         /\ Recency(i, candidates, known) <= Recency(j, candidates, known)
<1> DEFINE dates == Dates(candidates, known)
           earlier(d) == {e \in dates : e < d}
           a == DateIn(i, known)
           b == DateIn(j, known)
<1>1. a \in Nat /\ b \in Nat /\ dates \subseteq Nat
  BY NoteTypes DEF Dates
<1>2. IsFiniteSet(dates) /\ Cardinality(dates) \in Nat
  <2>1. IsFiniteSet(candidates)
    BY RecordsAssumption, FS_Subset DEF Notes
  <2>2. IsFiniteSet({DateIn(k, known) : k \in candidates})
    <3> DEFINE f == [k \in candidates |-> DateIn(k, known)]
               all == {DateIn(k, known) : k \in candidates}
    <3>1. f \in Surjection(candidates, all)
      BY DEF Surjection
    <3> HIDE DEF f, all
    <3> QED
      BY <2>1, <3>1, FS_Surjection DEF all
  <2>3. dates \in SUBSET {DateIn(k, known) : k \in candidates}
    BY DEF Dates
  <2> QED
    BY <2>2, <2>3, FS_Subset, FS_CardinalityType
<1>3. ASSUME NEW d
      PROVE  /\ IsFiniteSet(earlier(d)) /\ Cardinality(earlier(d)) \in Nat
  <2>1. earlier(d) \in SUBSET dates
    OBVIOUS
  <2> QED
    BY <1>2, <2>1, FS_Subset, FS_CardinalityType
<1>4. Cardinality(earlier(a)) <= Cardinality(earlier(b))
  <2>1. earlier(a) \in SUBSET earlier(b)
    BY <1>1
  <2> QED
    BY <1>3, <2>1, FS_Subset
<1> DEFINE n == Cardinality(dates)
           at(d) == IF n <= 1 THEN Scale
                    ELSE IF d = 0 THEN 0 ELSE Part(Cardinality(earlier(d)), n - 1)
<1>5. Recency(i, candidates, known) = at(a) /\ Recency(j, candidates, known) = at(b)
  BY DEF Recency, Dates
<1>6. at(a) \in Nat /\ at(b) \in Nat /\ at(a) <= at(b)
  <2>1. CASE n <= 1
    BY <2>1 DEF Scale
  <2>2. CASE ~(n <= 1)
    <3>1. n - 1 \in Nat \ {0}
      BY <2>2, <1>2
    <3>2. /\ Part(Cardinality(earlier(a)), n - 1) \in Nat
          /\ Part(Cardinality(earlier(b)), n - 1) \in Nat
          /\ Part(Cardinality(earlier(a)), n - 1) <= Part(Cardinality(earlier(b)), n - 1)
      <4>1. /\ Cardinality(earlier(a)) \in Nat /\ Cardinality(earlier(b)) \in Nat
            /\ Cardinality(earlier(a)) <= Cardinality(earlier(b))
        BY <1>3, <1>4
      <4> HIDE DEF earlier, n
      <4> QED
        BY <3>1, <4>1, PartGrows
    <3>3. b = 0 => a = 0
      BY <1>1
    <3> HIDE DEF n, earlier, a, b
    <3> QED
      BY <2>2, <3>2, <3>3
  <2> QED
    BY <2>1, <2>2
<1> QED
  BY <1>5, <1>6

\* A score is a number, and grows with every part.
Numbered(c) ==
  /\ c.text \in Nat /\ c.phrase \in Nat /\ c.confidence \in Nat
  /\ c.recency \in Nat /\ c.status \in Nat /\ c.meeting \in Nat
LEMMA ScoreGrows ==
  ASSUME NEW c, NEW d, Numbered(c), Numbered(d),
         c.text <= d.text, c.phrase <= d.phrase, c.confidence <= d.confidence,
         c.recency <= d.recency, c.status <= d.status, c.meeting <= d.meeting
  PROVE  Score(c) \in Nat /\ Score(d) \in Nat /\ Score(c) <= Score(d)
BY DEF Numbered, Score, Weight

LEMMA ScoreType ==
  ASSUME NEW c, Numbered(c)
  PROVE  Score(c) \in Nat
BY DEF Numbered, Score, Weight

LEMMA ComponentTypes ==
  ASSUME NEW candidates \in SUBSET Notes, NEW known, NEW i \in candidates, NEW applied,
         NEW words, applied.text \in Seq(words), shelf.status \in [Notes -> DOMAIN StatusWeight]
  PROVE  Numbered(Components(i, applied, candidates, known))
<1> DEFINE terms == applied.text
           share(body) == IF terms = <<>> THEN Scale ELSE Part(Matched(terms, body), Len(terms))
<1>1. ASSUME NEW body
      PROVE  share(body) \in Nat
  <2>1. Matched(terms, body) \in Nat
    <3>0. DOMAIN terms = 1 .. Len(terms) /\ 1 \in Int /\ Len(terms) \in Int
      BY LenProperties
    <3>1. IsFiniteSet(1 .. Len(terms)) /\ DOMAIN terms = 1 .. Len(terms)
      BY <3>0, FS_Interval
    <3>2. {k \in DOMAIN terms : terms[k] \in body} \in SUBSET (1 .. Len(terms))
      BY <3>1
    <3>3. IsFiniteSet({k \in DOMAIN terms : terms[k] \in body})
      BY <3>1, <3>2, FS_Subset
    <3> QED
      BY <3>3, FS_CardinalityType DEF Matched
  <2>2. CASE terms = <<>>
    BY <2>2 DEF Scale
  <2>3. CASE terms # <<>>
    <3>1. Len(terms) \in Nat \ {0}
      BY <2>3, EmptySeq, LenProperties
    <3> HIDE DEF terms
    <3> QED
      BY <2>1, <2>3, <3>1, PartGrows
  <2> QED
    BY <2>2, <2>3
<1>2. i \in Notes /\ Note[i].confidence \in Nat
  BY NoteTypes
<1>3. Recency(i, candidates, known) \in Nat
  <2>1. DateIn(i, known) <= DateIn(i, known)
    BY <1>2, NoteTypes
  <2> QED
    BY <2>1, RecencyGrows
<1>4. StatusWeight[shelf.status[i]] \in Nat
  BY <1>2 DEF StatusWeight
<1> DEFINE phrase == IF Len(terms) < 2 \/ Says(Note[i].said, terms) THEN Scale ELSE 0
<1>5. phrase \in Nat
  BY DEF Scale
<1>6. Components(i, applied, candidates, known) =
        [text |-> share(Body(i)), phrase |-> phrase, confidence |-> Note[i].confidence,
         recency |-> Recency(i, candidates, known), status |-> StatusWeight[shelf.status[i]],
         meeting |-> share(Heading(i, known))]
  BY DEF Components
<1>7. share(Body(i)) \in Nat /\ share(Heading(i, known)) \in Nat
  BY <1>1
<1> HIDE DEF share, phrase
<1> QED
  BY <1>2, <1>3, <1>4, <1>5, <1>6, <1>7 DEF Numbered

------------------------------------------------------------------------------
(* Retrieval: the order of the hits *)
LEMMA ThreeKeys ==
  ASSUME NEW a \in Int, NEW b \in Int, NEW c \in Int, NEW x \in Int, NEW y \in Int, NEW z \in Int
  PROVE  KeysLess(<<a, b, c>>, <<x, y, z>>)
         <=> a < x \/ (a = x /\ (b < y \/ (b = y /\ c < z)))
<1>1. DOMAIN <<a, b, c>> = {1, 2, 3} /\ 1 .. 0 = {} /\ 1 .. 1 = {1} /\ 1 .. 2 = {1, 2}
  OBVIOUS
<1>2. 1 - 1 = 0 /\ 2 - 1 = 1 /\ 3 - 1 = 2
  OBVIOUS
<1> QED
  BY <1>1, <1>2 DEF KeysLess

LEMMA FourKeys ==
  ASSUME NEW s \in Int \X Int \X Int \X Int, NEW t \in Int \X Int \X Int \X Int
  PROVE  KeysLess(s, t) <=>
           \/ s[1] < t[1]
           \/ /\ s[1] = t[1]
              /\ \/ s[2] < t[2]
                 \/ /\ s[2] = t[2]
                    /\ s[3] < t[3] \/ (s[3] = t[3] /\ s[4] < t[4])
<1>1. /\ DOMAIN s = {1, 2, 3, 4}
      /\ 1 .. 0 = {} /\ 1 .. 1 = {1} /\ 1 .. 2 = {1, 2} /\ 1 .. 3 = {1, 2, 3}
  OBVIOUS
<1>2. 1 - 1 = 0 /\ 2 - 1 = 1 /\ 3 - 1 = 2 /\ 4 - 1 = 3
  OBVIOUS
<1>3. /\ s[1] \in Int /\ s[2] \in Int /\ s[3] \in Int /\ s[4] \in Int
      /\ t[1] \in Int /\ t[2] \in Int /\ t[3] \in Int /\ t[4] \in Int
  OBVIOUS
<1> QED
  BY <1>1, <1>2, <1>3 DEF KeysLess

ByTime(known, i, j) ==
  \/ DateIn(i, known) < DateIn(j, known)
  \/ /\ DateIn(i, known) = DateIn(j, known)
     /\ Note[i].index < Note[j].index \/ (Note[i].index = Note[j].index /\ i < j)
ByNews(known, i, j) ==
  \/ DateIn(i, known) > DateIn(j, known)
  \/ /\ DateIn(i, known) = DateIn(j, known)
     /\ Note[i].created > Note[j].created \/ (Note[i].created = Note[j].created /\ i < j)
ByScore(known, score, i, j) ==
  score[i] > score[j] \/ (score[i] = score[j] /\ ByNews(known, i, j))

LEMMA PrecedesIs ==
  ASSUME NEW i \in Notes, NEW j \in Notes, NEW known, NEW score, NEW order,
         score[i] \in Int, score[j] \in Int
  PROVE  Precedes(order, known, score, i, j) <=>
           IF order = "chronological" THEN ByTime(known, i, j)
           ELSE IF order = "reverse-chronological" THEN ByNews(known, i, j)
           ELSE ByScore(known, score, i, j)
<1> DEFINE d == DateIn(i, known)
           e == DateIn(j, known)
           s == score[i]
           t == score[j]
           p == Note[i]
           q == Note[j]
<1>1. /\ i \in Int /\ j \in Int /\ d \in Nat /\ e \in Nat /\ p.index \in Nat /\ q.index \in Nat
      /\ p.created \in Int /\ q.created \in Int /\ s \in Int /\ t \in Int
  BY NoteTypes
<1>2. CASE order = "chronological"
  <2>1. Precedes(order, known, score, i, j) <=>
          KeysLess(<<d, p.index, i>>, <<e, q.index, j>>)
    BY <1>2 DEF Precedes
  <2>2. Precedes(order, known, score, i, j) <=>
          d < e \/ (d = e /\ (p.index < q.index \/ (p.index = q.index /\ i < j)))
    <3> HIDE DEF d, e, p, q
    <3> QED
      BY <1>1, <2>1, ThreeKeys
  <2>3. Precedes(order, known, score, i, j) <=> ByTime(known, i, j)
    BY <2>2 DEF ByTime
  <2> QED
    BY <1>2, <2>3
<1>3. CASE order = "reverse-chronological"
  <2>1. Precedes(order, known, score, i, j) <=>
          KeysLess(<<-d, -p.created, i>>, <<-e, -q.created, j>>)
    BY <1>3 DEF Precedes
  <2>2. -d \in Int /\ -e \in Int /\ -p.created \in Int /\ -q.created \in Int
    BY <1>1
  <2>3. Precedes(order, known, score, i, j) <=>
          -d < -e \/ (-d = -e /\ (-p.created < -q.created \/ (-p.created = -q.created /\ i < j)))
    <3> HIDE DEF d, e, p, q
    <3> QED
      BY <1>1, <2>1, <2>2, ThreeKeys, SMTT(30)
  <2>4. Precedes(order, known, score, i, j) <=> ByNews(known, i, j)
    BY <1>1, <2>3 DEF ByNews
  <2> QED
    BY <1>3, <2>4
<1>4. CASE order # "chronological" /\ order # "reverse-chronological"
  <2>1. Precedes(order, known, score, i, j) <=>
          KeysLess(<<-s, -d, -p.created, i>>, <<-t, -e, -q.created, j>>)
    BY <1>4 DEF Precedes
  <2>2. /\ -d \in Int /\ -e \in Int /\ -p.created \in Int /\ -q.created \in Int
        /\ -s \in Int /\ -t \in Int
    BY <1>1
  <2>3. Precedes(order, known, score, i, j) <=>
          \/ -s < -t
          \/ /\ -s = -t
             /\ \/ -d < -e
                \/ /\ -d = -e
                   /\ -p.created < -q.created \/ (-p.created = -q.created /\ i < j)
    <3> DEFINE a == -s
               b == -d
               c == -p.created
               x == -t
               y == -e
               z == -q.created
    <3>1. /\ a \in Int /\ b \in Int /\ c \in Int /\ i \in Int
          /\ x \in Int /\ y \in Int /\ z \in Int /\ j \in Int
      BY <1>1, <2>2
    <3>2. Precedes(order, known, score, i, j) <=> KeysLess(<<a, b, c, i>>, <<x, y, z, j>>)
      BY <2>1
    <3>3. Precedes(order, known, score, i, j) <=>
            a < x \/ (a = x /\ (b < y \/ (b = y /\ (c < z \/ (c = z /\ i < j)))))
      <4> DEFINE u == <<a, b, c, i>>
                 v == <<x, y, z, j>>
      <4>1. u \in Int \X Int \X Int \X Int /\ v \in Int \X Int \X Int \X Int
        BY <3>1
      <4>2. /\ u[1] = a /\ u[2] = b /\ u[3] = c /\ u[4] = i
            /\ v[1] = x /\ v[2] = y /\ v[3] = z /\ v[4] = j
        OBVIOUS
      <4>3. Precedes(order, known, score, i, j) <=> KeysLess(u, v)
        BY <3>2
      <4> HIDE DEF a, b, c, x, y, z, u, v
      <4> QED
        BY <4>1, <4>2, <4>3, FourKeys
    <3> QED
      BY <3>3
  <2>4. Precedes(order, known, score, i, j) <=> ByScore(known, score, i, j)
    BY <1>1, <2>3 DEF ByNews, ByScore
  <2> QED
    BY <1>4, <2>4
<1> QED
  BY <1>2, <1>3, <1>4

LEMMA RankingIsOrder ==
  ASSUME NEW items \in SUBSET Notes, NEW known, NEW order, NEW score \in [items -> Int]
  PROVE  StrictOrder(items, {p \in items \X items : Precedes(order, known, score, p[1], p[2])})
<1> DEFINE before == {p \in items \X items : Precedes(order, known, score, p[1], p[2])}
           Comes(i, j) == IF order = "chronological" THEN ByTime(known, i, j)
                          ELSE IF order = "reverse-chronological" THEN ByNews(known, i, j)
                          ELSE ByScore(known, score, i, j)
<1>1. ASSUME NEW i \in items, NEW j \in items
      PROVE  <<i, j>> \in before <=> Comes(i, j)
  <2>1. i \in Notes /\ j \in Notes /\ score[i] \in Int /\ score[j] \in Int
    OBVIOUS
  <2>2. Precedes(order, known, score, i, j) <=> Comes(i, j)
    BY <2>1, PrecedesIs
  <2> HIDE DEF Comes
  <2> QED
    BY <2>2
<1>2. ASSUME NEW i \in items
      PROVE  /\ i \in Int /\ Note[i].index \in Nat /\ Note[i].created \in Int
             /\ DateIn(i, known) \in Nat /\ score[i] \in Int
  BY NoteTypes
<1>3. ASSUME NEW i \in items
      PROVE  ~Comes(i, i)
  BY <1>2 DEF ByTime, ByNews, ByScore
<1>4. ASSUME NEW i \in items, NEW j \in items, i # j
      PROVE  Comes(i, j) \/ Comes(j, i)
  BY <1>2, <1>4 DEF ByTime, ByNews, ByScore
<1>5. ASSUME NEW i \in items, NEW j \in items, NEW k \in items, Comes(i, j), Comes(j, k)
      PROVE  Comes(i, k)
  <2>1. CASE order = "chronological"
    BY <1>2, <1>5, <2>1 DEF ByTime
  <2>2. CASE order = "reverse-chronological"
    BY <1>2, <1>5, <2>2 DEF ByNews
  <2>3. CASE order # "chronological" /\ order # "reverse-chronological"
    BY <1>2, <1>5, <2>3 DEF ByNews, ByScore
  <2> QED
    BY <2>1, <2>2, <2>3
<1> HIDE DEF before, Comes
<1>6. StrictOrder(items, before)
  BY <1>1, <1>3, <1>4, <1>5 DEF StrictOrder
<1> QED
  BY <1>6 DEF before

\* What comes first is not worse in every respect and older.
LEMMA BetterComesFirst ==
  ASSUME NEW candidates \in SUBSET Notes, NEW known, NEW components, NEW score,
         score = [i \in candidates |-> Score(components[i])],
         \A i \in candidates : /\ Numbered(components[i])
                              /\ components[i].recency = Recency(i, candidates, known),
         NEW i \in candidates, NEW j \in candidates,
         Precedes("relevance", known, score, i, j),
         \A c \in DOMAIN Weight \ {"recency"} : components[j][c] >= components[i][c]
  PROVE  \/ DateIn(j, known) < DateIn(i, known)
         \/ DateIn(j, known) = DateIn(i, known) /\ Note[j].created <= Note[i].created
<1>1. /\ DateIn(i, known) \in Nat /\ DateIn(j, known) \in Nat
      /\ Note[i].created \in Int /\ Note[j].created \in Int
  BY NoteTypes
<1>2. score[i] = Score(components[i]) /\ score[j] = Score(components[j])
  OBVIOUS
<1>3. /\ score[i] \in Nat /\ score[j] \in Nat
      /\ DateIn(i, known) <= DateIn(j, known) => score[i] <= score[j]
  <2> DEFINE a == components[i]
             b == components[j]
  <2>1. Numbered(a) /\ Numbered(b)
    OBVIOUS
  <2>2. /\ a.text <= b.text /\ a.phrase <= b.phrase /\ a.confidence <= b.confidence
        /\ a.status <= b.status /\ a.meeting <= b.meeting
    <3>1. {"text", "phrase", "confidence", "status", "meeting"} \subseteq DOMAIN Weight \ {"recency"}
      BY DEF Weight
    <3>2. /\ b["text"] >= a["text"] /\ b["phrase"] >= a["phrase"]
          /\ b["confidence"] >= a["confidence"] /\ b["status"] >= a["status"]
          /\ b["meeting"] >= a["meeting"]
      BY <3>1
    <3> QED
      BY <2>1, <3>2 DEF Numbered
  <2>3. DateIn(i, known) <= DateIn(j, known) => a.recency <= b.recency
    BY RecencyGrows
  <2> HIDE DEF a, b
  <2>4. Score(a) \in Nat /\ Score(b) \in Nat
    BY <2>1, ScoreType
  <2>5. DateIn(i, known) <= DateIn(j, known) => Score(a) <= Score(b)
    BY <2>1, <2>2, <2>3, ScoreGrows
  <2> QED
    BY <1>2, <2>4, <2>5 DEF a, b
<1>4. ByScore(known, score, i, j)
  <2>1. i \in Notes /\ j \in Notes /\ score[i] \in Int /\ score[j] \in Int
    BY <1>3
  <2>2. "relevance" # "chronological" /\ "relevance" # "reverse-chronological"
    OBVIOUS
  <2> QED
    BY <2>1, <2>2, PrecedesIs
<1> QED
  BY <1>1, <1>3, <1>4 DEF ByScore, ByNews

------------------------------------------------------------------------------
(* Retrieval: reasons and windows *)
\* What HitsExplained asks of the reasons given for memory i, by a search with
\* the plan q that knows these meetings.
Reasoned(i, q, given, known) ==
  LET kinds == {r[1] : r \in given}
  IN  /\ \A w \in ToSet(q.text) : <<"keyword", w>> \in given
      /\ \A p \in q.participants : <<"participant", p>> \in given
      /\ (q.types = {} \/ "type" \in kinds) /\ (q.speakers = {} \/ "speaker" \in kinds)
      /\ (q.statuses = {} \/ "status" \in kinds) /\ (q.meetings = {} \/ "meeting" \in kinds)
      /\ (q.low = Unset \/ "confidence" \in kinds) /\ (q.months = {} \/ "month" \in kinds)
      /\ (q.from = Unset /\ q.to = Unset) \/ "range" \in kinds \/ Note[i].meeting \notin known
      /\ given # {}

LEMMA EveryConditionHasItsReason ==
  ASSUME NEW q, NEW known, NEW i \in Rows(q), Matches(i, q, known)
  PROVE  Reasoned(i, q, Reasons(i, q, known), known)
<1> DEFINE x == Note[i].meeting
           given == Reasons(i, q, known)
           kinds == {r[1] : r \in given}
           dated == x \in known /\ Sitting[x].date # 0
           reasons ==
             {<<"speaker", s>> : s \in q.speakers \cap {Note[i].speaker}}
               \cup {<<"type", t>> : t \in q.types \cap {Note[i].type}}
               \cup {<<"keyword", w>> : w \in ToSet(q.text) \cap Explainable(i, known)}
               \cup {<<"phrase", p>> : p \in {r \in {q.text} : Len(r) > 1 /\ Says(Note[i].said, r)}}
               \cup {<<"confidence", c>> : c \in {q.low} \ {Unset}}
               \cup {<<"status", s>> : s \in q.statuses \cap {shelf.status[i]}}
               \cup {<<"range", r>> : r \in {e \in {<<q.from, q.to>>} :
                                             e # <<Unset, Unset>> /\ dated}}
               \cup {<<"month", m>> : m \in {n \in q.months : dated /\ n = Sitting[x].month}}
               \cup {<<"meeting", y>> : y \in q.meetings \cap {x}}
               \cup {<<"participant", p>> : p \in {r \in q.participants :
                                                   x \in known /\ r \in Sitting[x].present}}
<1>1. given = IF reasons = {} THEN {<<"confidence", Note[i].confidence>>} ELSE reasons
  BY DEF Reasons
<1>2. ASSUME NEW kind, NEW value, <<kind, value>> \in reasons
      PROVE  <<kind, value>> \in given /\ kind \in kinds
  <2>1. <<kind, value>> \in given
    <3> HIDE DEF reasons
    <3> QED
      BY <1>1, <1>2
  <2>2. <<kind, value>>[1] = kind
    OBVIOUS
  <2> HIDE DEF given
  <2> QED
    BY <2>1, <2>2
<1>3. /\ AskedOr(q.types, Note[i].type) /\ AskedOr(q.speakers, Note[i].speaker)
      /\ AskedOr(q.meetings, x) /\ AskedOr(q.statuses, shelf.status[i])
      /\ (q.from # Unset \/ q.to # Unset) => Sitting[x].date # 0
  BY DEF Rows
<1>4. /\ ToSet(q.text) \subseteq Explainable(i, known)
      /\ q.participants # {} => x \in known /\ q.participants \subseteq Sitting[x].present
      /\ q.months # {} => dated /\ Sitting[x].month \in q.months
  BY DEF Matches, Searchable, Explainable
<1>5. /\ \A w \in ToSet(q.text) : <<"keyword", w>> \in reasons
      /\ \A p \in q.participants : <<"participant", p>> \in reasons
  BY <1>4
<1>6. /\ q.types # {} => <<"type", Note[i].type>> \in reasons
      /\ q.speakers # {} => <<"speaker", Note[i].speaker>> \in reasons
      /\ q.statuses # {} => <<"status", shelf.status[i]>> \in reasons
      /\ q.meetings # {} => <<"meeting", x>> \in reasons
  BY <1>3 DEF AskedOr
<1>7. /\ q.low # Unset => <<"confidence", q.low>> \in reasons
      /\ q.months # {} => <<"month", Sitting[x].month>> \in reasons
  BY <1>4
<1>8. q.from # Unset \/ q.to # Unset =>
        <<"range", <<q.from, q.to>>>> \in reasons \/ x \notin known
  BY <1>3
<1>9. given # {}
  <2> HIDE DEF reasons, given
  <2> QED
    BY <1>1
<1> HIDE DEF reasons, given, dated
<1>10. /\ \A w \in ToSet(q.text) : <<"keyword", w>> \in given
       /\ \A p \in q.participants : <<"participant", p>> \in given
  BY <1>2, <1>5
<1>11. /\ (q.types = {} \/ "type" \in kinds) /\ (q.speakers = {} \/ "speaker" \in kinds)
       /\ (q.statuses = {} \/ "status" \in kinds) /\ (q.meetings = {} \/ "meeting" \in kinds)
  <2> HIDE DEF kinds
  <2> QED
    BY <1>2, <1>6
<1>12. /\ (q.low = Unset \/ "confidence" \in kinds) /\ (q.months = {} \/ "month" \in kinds)
       /\ (q.from = Unset /\ q.to = Unset) \/ "range" \in kinds \/ x \notin known
  <2> HIDE DEF kinds
  <2> QED
    BY <1>2, <1>7, <1>8
<1> QED
  BY <1>9, <1>10, <1>11, <1>12 DEF Reasoned, given

LEMMA SmallerOf ==
  ASSUME NEW a \in Int, NEW b \in Int
  PROVE  Min({a, b}) \in {a, b} /\ Min({a, b}) <= a /\ Min({a, b}) <= b
<1>1. \E m \in {a, b} : \A n \in {a, b} : m <= n
  <2>1. CASE a <= b
    BY <2>1
  <2>2. CASE b <= a
    BY <2>2
  <2> QED
    BY <2>1, <2>2
<1> QED
  BY <1>1 DEF Min

Framed(i, window) == Note[i].index \in window /\ \A a, b \in window : a .. b \subseteq window

LEMMA WindowFrames ==
  ASSUME NEW i \in Notes, NEW size \in Nat, NEW lines \in Nat
  PROVE  Framed(i, Window(i, size, lines)) /\ Window(i, size, lines) \in SUBSET Int
<1> DEFINE at == Note[i].index
<1>1. at \in Nat /\ lines \in Nat
  BY NoteTypes
<1>2. CASE at >= lines
  <2>1. Window(i, size, lines) = {at}
    BY <1>2 DEF Window
  <2>2. at .. at = {at}
    BY <1>1
  <2> QED
    BY <1>1, <2>1, <2>2 DEF Framed
<1>3. CASE ~(at >= lines)
  <2> DEFINE low == Max({0, at - size})
             high == Min({lines - 1, at + size})
  <2>1. low \in Int /\ low <= at
    BY <1>1 DEF Max
  <2>2. high \in Int /\ at <= high
    <3> DEFINE a == lines - 1
               b == at + size
    <3>1. a \in Int /\ b \in Int /\ at <= a /\ at <= b
      BY <1>1, <1>3
    <3> HIDE DEF at, a, b
    <3>2. Min({a, b}) \in {a, b}
      BY <3>1, SmallerOf
    <3> QED
      BY <3>1, <3>2 DEF a, b
  <2>3. Window(i, size, lines) = low .. high
    BY <1>3 DEF Window
  <2> HIDE DEF low, high
  <2>4. low .. high \in SUBSET Int
    BY <2>1, <2>2
  <2> QED
    BY <1>1, <2>1, <2>2, <2>3, <2>4 DEF Framed
<1> QED
  BY <1>2, <1>3

------------------------------------------------------------------------------
(* Retrieval: one search *)
ShelfOK ==
  shelf \in [meetings : SUBSET Meetings, notes : SUBSET Notes,
             status : [Notes -> DOMAIN StatusWeight], lines : [Meetings -> Nat]]

IsASequence(s) == s \in Seq({s[k] : k \in DOMAIN s})
HuntFields == DOMAIN NoHunt
Shape(h) ==
  /\ DOMAIN h = HuntFields /\ h.state \in {"idle", "listed", "planned", "ranked", "done"}
  /\ h.state # "idle" => h.query \in Query
  /\ h.state \in {"planned", "ranked", "done"} => IsASequence(h.applied.text)

\* BestFirst and the two halves of HitsExplained, of a search h.
Best(h) ==
  h.state \in {"ranked", "done"} /\ h.query.order = "relevance" =>
    LET at(k) == h.ranked[k]
        part(k) == h.components[at(k)]
        date(k) == DateIn(at(k), h.meetings)
    IN  \A k, l \in DOMAIN h.ranked :
          /\ k < l
          /\ \A c \in DOMAIN Weight \ {"recency"} : part(l)[c] >= part(k)[c]
          => \/ date(l) < date(k)
             \/ date(l) = date(k) /\ Note[at(l)].created <= Note[at(k)].created
Grounded(h) ==
  h.state \in {"ranked", "done"} =>
    \A k \in DOMAIN h.page :
      h.page[k] \in Notes /\ Reasoned(h.page[k], h.applied, h.reasons[h.page[k]], h.meetings)
Quoted(h) ==
  /\ h.lines \in [Meetings -> Nat \cup {Unset}]
  /\ h.windows \in Seq(SUBSET Int)
  /\ h.state \in {"idle", "listed", "planned"} => h.windows = <<>>
  /\ h.state \in {"ranked", "done"} => \E n \in Int : DOMAIN h.page = 1 .. n
  /\ \A k \in DOMAIN h.windows : k \in DOMAIN h.page /\ Framed(h.page[k], h.windows[k])
  /\ h.state = "done" => \A k \in DOMAIN h.page : k \in DOMAIN h.windows

HuntOK(h) == Shape(h) /\ Best(h) /\ Grounded(h) /\ Quoted(h)
SearchInv == ShelfOK /\ HuntOK(hunt)

LEMMA NothingRead == NoHunt.lines \in [Meetings -> Nat \cup {Unset}]
BY DEF NoHunt

LEMMA SearchInitInv == ReplayInit => SearchInv
<1> SUFFICES ASSUME ReplayInit  PROVE SearchInv
  OBVIOUS
<1>1. ShelfOK
  <2>1. PICK ms \in SUBSET Meetings, ns \in SUBSET Meetings :
          shelf = [meetings |-> ms, notes |-> {i \in Notes : Note[i].meeting \in ns},
                   status |-> [i \in Notes |-> "active"],
                   lines |-> [x \in Meetings |-> Sitting[x].lines]]
    BY DEF ReplayInit, RetrievalInit
  <2>2. [i \in Notes |-> "active"] \in [Notes -> DOMAIN StatusWeight]
    BY DEF StatusWeight
  <2>3. [x \in Meetings |-> Sitting[x].lines] \in [Meetings -> Nat]
    BY RecordsAssumption DEF Meetings
  <2> QED
    BY <2>1, <2>2, <2>3 DEF ShelfOK
<1>2. /\ hunt.state = "idle" /\ DOMAIN hunt = HuntFields /\ hunt.windows = <<>>
      /\ hunt.lines = NoHunt.lines
  BY DEF ReplayInit, RetrievalInit, NoHunt, HuntFields
<1>3. HuntOK(hunt)
  BY <1>2, NothingRead DEF HuntOK, Shape, Best, Grounded, Quoted
<1> QED
  BY <1>1, <1>3 DEF SearchInv

LEMMA ListKnownInv ==
  ASSUME SearchInv, NEW e \in Errand, ListKnown(e.query)
  PROVE  SearchInv'
<1>1. ShelfOK'
  BY DEF SearchInv, ShelfOK, ListKnown
<1>2. e.query \in Query
  BY ErrandAssumption
<1>3. /\ hunt'.state = "listed" /\ DOMAIN hunt' = HuntFields /\ hunt'.query = e.query
      /\ hunt'.lines = hunt.lines /\ hunt'.windows = hunt.windows
  BY DEF SearchInv, HuntOK, Shape, ListKnown, HuntFields, NoHunt
<1>4. hunt.windows = <<>> /\ hunt.lines \in [Meetings -> Nat \cup {Unset}]
  BY DEF SearchInv, HuntOK, Quoted, ListKnown
<1>5. HuntOK(hunt')
  BY <1>2, <1>3, <1>4 DEF HuntOK, Shape, Best, Grounded, Quoted
<1> QED
  BY <1>1, <1>5 DEF SearchInv

LEMMA PlanText ==
  ASSUME NEW q \in Query, NEW speakers, NEW participants
  PROVE  IsASequence(Plan(q, speakers, participants).text)
<1> DEFINE text == q.text
           listed == {"type", "status", "month"}
           names == {k \in Single(text) : Lexicon[text[k]].class \notin listed}
           said == {k \in names : text[k] \in speakers}
           present == {k \in names \ said : text[k] \in participants}
           terms == {k \in names \ (said \cup present) : ~Is(text[k], "stop")}
           inOrder == Arranged(terms, {p \in terms \X terms : p[1] < p[2]})
           plan == Plan(q, speakers, participants)
<1>1. terms \in SUBSET (1 .. Len(text)) /\ Len(text) \in Nat
  BY DEF Single, Query
<1>2. Cardinality(terms) \in Nat
  <2> HIDE DEF terms, text
  <2>1. IsFiniteSet(1 .. Len(text))
    BY <1>1, FS_Interval
  <2>2. IsFiniteSet(terms)
    BY <1>1, <2>1, FS_Subset
  <2> QED
    BY <2>2, FS_CardinalityType
<1>3. plan.text = [n \in 1 .. Cardinality(terms) |-> text[inOrder[n]]]
  BY DEF Plan, Query
<1> HIDE DEF terms, inOrder, plan
<1>4. DOMAIN plan.text = 1 .. Cardinality(terms) /\ plan.text = [n \in DOMAIN plan.text |-> plan.text[n]]
  BY <1>3
<1>5. plan.text \in [1 .. Cardinality(terms) -> {plan.text[k] : k \in DOMAIN plan.text}]
  BY <1>4
<1>6. IsASequence(plan.text)
  BY <1>2, <1>5, IsASeq DEF IsASequence
<1> QED
  BY <1>6 DEF plan

LEMMA PlanQueryInv ==
  ASSUME SearchInv, PlanQuery
  PROVE  SearchInv'
<1>1. ShelfOK'
  BY DEF SearchInv, ShelfOK, PlanQuery
<1>2. DOMAIN hunt = HuntFields /\ hunt.query \in Query
  BY DEF SearchInv, HuntOK, Shape, PlanQuery
<1> DEFINE plan == Plan(hunt.query, {Note[i].speaker : i \in shelf.notes},
                        UNION {Sitting[x].present : x \in hunt.meetings})
<1>3. IsASequence(plan.text)
  BY <1>2, PlanText
<1>4. hunt' = [hunt EXCEPT !.state = "planned", !.applied = plan]
  BY DEF PlanQuery
<1>5. hunt.windows = <<>> /\ hunt.lines \in [Meetings -> Nat \cup {Unset}]
  BY DEF SearchInv, HuntOK, Quoted, PlanQuery
<1>6. /\ hunt'.state = "planned" /\ DOMAIN hunt' = HuntFields
      /\ hunt'.query = hunt.query /\ hunt'.applied = plan
      /\ hunt'.lines = hunt.lines /\ hunt'.windows = hunt.windows
  <2> HIDE DEF plan
  <2> QED
    BY <1>2, <1>4 DEF HuntFields, NoHunt
<1> HIDE DEF plan
<1>7. HuntOK(hunt')
  BY <1>2, <1>3, <1>5, <1>6 DEF HuntOK, Shape, Best, Grounded, Quoted
<1> QED
  BY <1>1, <1>7 DEF SearchInv

\* What is known of a transcript from an earlier hit, or is read of it now.
LEMMA LinesKnown ==
  ASSUME SearchInv, NEW x \in Meetings
  PROVE  LinesOf(x) \in Nat
<1>1. hunt.lines[x] \in Nat \cup {Unset} /\ shelf.lines[x] \in Nat
  BY DEF SearchInv, ShelfOK, HuntOK, Quoted
<1> QED
  BY <1>1 DEF LinesOf

LEMMA QuoteInv ==
  ASSUME SearchInv, Quote
  PROVE  SearchInv'
<1> DEFINE i == hunt.page[ToQuote]
           x == Note[i].meeting
           n == LinesOf(x)
           window == Window(i, hunt.query.window, n)
           lines == [hunt.lines EXCEPT ![x] = n]
           windows == Append(hunt.windows, window)
<1>1. ShelfOK'
  BY DEF SearchInv, ShelfOK, Quote
<1>2. /\ DOMAIN hunt = HuntFields /\ hunt.query \in Query
      /\ hunt.state = "ranked" /\ IsASequence(hunt.applied.text)
      /\ Best(hunt) /\ Grounded(hunt) /\ Quoted(hunt) /\ ToQuote \in DOMAIN hunt.page
  BY DEF SearchInv, HuntOK, Shape, Quote
<1>3. hunt' = [hunt EXCEPT !.lines = lines, !.windows = windows]
  <2>1. hunt' = [hunt EXCEPT !.lines[x] = n, !.windows = Append(@, window)]
    BY DEF Quote
  <2> HIDE DEF i, n, x, window
  <2> QED
    BY <1>2, <2>1 DEF HuntFields, NoHunt
<1>4. i \in Notes /\ x \in Meetings /\ n \in Nat /\ hunt.query.window \in Nat
  <2>1. i \in Notes
    BY <1>2 DEF Grounded
  <2>2. x \in Meetings
    BY <2>1, NoteTypes
  <2>3. n \in Nat
    <3> HIDE DEF x
    <3> QED
      BY <2>2, LinesKnown
  <2>4. hunt.query.window \in Nat
    BY <1>2 DEF Query
  <2> QED
    BY <2>1, <2>2, <2>3, <2>4
<1>5. Framed(i, window) /\ window \in SUBSET Int
  <2> HIDE DEF i, n
  <2> QED
    BY <1>4, WindowFrames
<1>6. /\ hunt'.state = "ranked" /\ DOMAIN hunt' = HuntFields
      /\ hunt'.query = hunt.query /\ hunt'.applied = hunt.applied /\ hunt'.ranked = hunt.ranked
      /\ hunt'.components = hunt.components /\ hunt'.page = hunt.page
      /\ hunt'.reasons = hunt.reasons /\ hunt'.meetings = hunt.meetings
      /\ hunt'.lines = lines /\ hunt'.windows = windows
  <2> HIDE DEF lines, windows
  <2> QED
    BY <1>2, <1>3 DEF HuntFields, NoHunt
<1>7. lines \in [Meetings -> Nat \cup {Unset}]
  <2> HIDE DEF x, n
  <2> QED
    BY <1>2, <1>4 DEF Quoted
<1>8. /\ windows \in Seq(SUBSET Int) /\ DOMAIN windows = 1 .. Len(hunt.windows) + 1
      /\ Len(hunt.windows) \in Nat /\ DOMAIN hunt.windows = 1 .. Len(hunt.windows)
      /\ windows[Len(hunt.windows) + 1] = window
      /\ \A k \in 1 .. Len(hunt.windows) : windows[k] = hunt.windows[k]
  <2>1. hunt.windows \in Seq(SUBSET Int)
    BY <1>2 DEF Quoted
  <2> HIDE DEF window
  <2> QED
    BY <1>5, <2>1
<1>9. ASSUME NEW k \in DOMAIN windows
      PROVE  k \in DOMAIN hunt.page /\ Framed(hunt.page[k], windows[k])
  <2>1. CASE k = Len(hunt.windows) + 1
    <3>1. k = ToQuote
      BY <2>1 DEF ToQuote
    <3> HIDE DEF windows, window
    <3> QED
      BY <1>2, <1>5, <1>8, <2>1, <3>1
  <2>2. CASE k # Len(hunt.windows) + 1
    <3> HIDE DEF windows, window
    <3>1. k \in 1 .. Len(hunt.windows)
      BY <1>8, <2>2
    <3>2. k \in DOMAIN hunt.windows /\ windows[k] = hunt.windows[k]
      BY <1>8, <3>1
    <3> QED
      BY <1>2, <3>2 DEF Quoted
  <2> QED
    BY <2>1, <2>2
<1> HIDE DEF lines, windows
<1>10. Shape(hunt')
  BY <1>2, <1>6 DEF Shape
<1>11. Best(hunt')
  BY <1>2, <1>6 DEF Best
<1>12. Grounded(hunt')
  BY <1>2, <1>6 DEF Grounded
<1>13. Quoted(hunt')
  BY <1>2, <1>6, <1>7, <1>8, <1>9 DEF Quoted
<1> QED
  BY <1>1, <1>10, <1>11, <1>12, <1>13 DEF SearchInv, HuntOK

\* Once no hit is left to be quoted, each has its window.
LEMMA ReturnInv ==
  ASSUME SearchInv, Return
  PROVE  SearchInv'
<1>1. ShelfOK'
  BY DEF SearchInv, ShelfOK, Return
<1>2. /\ DOMAIN hunt = HuntFields /\ hunt.query \in Query
      /\ hunt.state = "ranked" /\ IsASequence(hunt.applied.text)
      /\ Best(hunt) /\ Grounded(hunt) /\ Quoted(hunt) /\ ToQuote \notin DOMAIN hunt.page
  BY DEF SearchInv, HuntOK, Shape, Return
<1>3. hunt' = [hunt EXCEPT !.state = "done", !.lines = NoHunt.lines]
  BY DEF Return
<1>4. /\ hunt'.state = "done" /\ DOMAIN hunt' = HuntFields
      /\ hunt'.query = hunt.query /\ hunt'.applied = hunt.applied /\ hunt'.ranked = hunt.ranked
      /\ hunt'.components = hunt.components /\ hunt'.page = hunt.page
      /\ hunt'.reasons = hunt.reasons /\ hunt'.meetings = hunt.meetings
      /\ hunt'.lines = NoHunt.lines /\ hunt'.windows = hunt.windows
  <2>1. PICK lines : lines = NoHunt.lines
    OBVIOUS
  <2> QED
    BY <1>2, <1>3, <2>1 DEF HuntFields, NoHunt
<1>5. ASSUME NEW k \in DOMAIN hunt.page
      PROVE  k \in DOMAIN hunt.windows
  <2>1. PICK n \in Int : DOMAIN hunt.page = 1 .. n
    BY <1>2 DEF Quoted
  <2>2. hunt.windows \in Seq(SUBSET Int)
    BY <1>2 DEF Quoted
  <2>3. Len(hunt.windows) \in Nat /\ DOMAIN hunt.windows = 1 .. Len(hunt.windows)
    BY <2>2
  <2>4. Len(hunt.windows) + 1 \notin 1 .. n
    BY <1>2, <2>1 DEF ToQuote
  <2>5. n < Len(hunt.windows) + 1
    BY <2>3, <2>4
  <2> QED
    BY <2>1, <2>3, <2>5
<1>6. Shape(hunt')
  BY <1>2, <1>4 DEF Shape
<1>7. Best(hunt')
  BY <1>2, <1>4 DEF Best
<1>8. Grounded(hunt')
  BY <1>2, <1>4 DEF Grounded
<1>9. Quoted(hunt')
  BY <1>2, <1>4, <1>5, NothingRead DEF Quoted
<1> QED
  BY <1>1, <1>6, <1>7, <1>8, <1>9 DEF SearchInv, HuntOK

LEMMA RankInv ==
  ASSUME SearchInv, Rank
  PROVE  SearchInv'
<1> DEFINE applied == hunt.applied
           known == hunt.meetings
           candidates == {i \in Rows(applied) : Matches(i, applied, known)}
           components == [i \in candidates |-> Components(i, applied, candidates, known)]
           score == [i \in candidates |-> Score(components[i])]
           before == {p \in candidates \X candidates :
                        Precedes(hunt.query.order, known, score, p[1], p[2])}
           ranked == Arranged(candidates, before)
           first == hunt.query.offset + 1
           last == Min({Len(ranked), hunt.query.offset + hunt.query.limit})
           page == SubSeq(ranked, first, last)
           reasons == [i \in candidates |-> Reasons(i, applied, known)]
<1>1. ShelfOK'
  BY DEF SearchInv, ShelfOK, Rank
<1>2. /\ DOMAIN hunt = HuntFields /\ hunt.query \in Query /\ IsASequence(applied.text)
      /\ ShelfOK /\ shelf.status \in [Notes -> DOMAIN StatusWeight]
      /\ hunt.windows = <<>> /\ hunt.lines \in [Meetings -> Nat \cup {Unset}]
  BY DEF SearchInv, HuntOK, Shape, Quoted, Rank, ShelfOK
<1>3. candidates \in SUBSET Notes /\ IsFiniteSet(candidates)
  <2>1. candidates \in SUBSET Notes
    BY <1>2 DEF Rows, ShelfOK
  <2> QED
    BY <2>1, RecordsAssumption, FS_Subset DEF Notes
<1>4. ASSUME NEW i \in candidates
      PROVE  i \in Notes /\ Reasoned(i, applied, reasons[i], known)
  <2>1. i \in Rows(applied) /\ Matches(i, applied, known)
    OBVIOUS
  <2>2. reasons[i] = Reasons(i, applied, known)
    OBVIOUS
  <2> QED
    BY <1>3, <2>1, <2>2, EveryConditionHasItsReason
<1>5. hunt' = [hunt EXCEPT !.state = "ranked", !.ranked = ranked, !.components = components,
                           !.page = page, !.reasons = reasons]
  BY DEF Rank
<1>6. /\ hunt'.state = "ranked" /\ DOMAIN hunt' = HuntFields
      /\ hunt'.query = hunt.query /\ hunt'.applied = applied /\ hunt'.ranked = ranked
      /\ hunt'.components = components /\ hunt'.page = page
      /\ hunt'.reasons = reasons /\ hunt'.meetings = known
      /\ hunt'.lines = hunt.lines /\ hunt'.windows = hunt.windows
  <2> HIDE DEF ranked, components, page, reasons
  <2> QED
    BY <1>2, <1>5 DEF HuntFields, NoHunt
<1>7. ASSUME NEW i \in candidates
      PROVE  /\ components[i] = Components(i, applied, candidates, known)
             /\ Numbered(components[i]) /\ components[i].recency = Recency(i, candidates, known)
             /\ score[i] = Score(components[i]) /\ score[i] \in Nat
  <2> HIDE DEF candidates
  <2>1. components[i] = Components(i, applied, candidates, known)
    OBVIOUS
  <2>2. Numbered(Components(i, applied, candidates, known))
    BY <1>2, <1>3, ComponentTypes DEF IsASequence
  <2>3. Components(i, applied, candidates, known).recency = Recency(i, candidates, known)
    BY DEF Components
  <2>4. score[i] = Score(components[i])
    OBVIOUS
  <2>5. score[i] \in Nat
    BY <2>1, <2>2, <2>4, ScoreType
  <2> QED
    BY <2>1, <2>2, <2>3, <2>4, <2>5
<1>8. score \in [candidates -> Int]
  <2>1. \A i \in candidates : score[i] \in Int
    BY <1>7
  <2> HIDE DEF candidates, components
  <2> QED
    BY <2>1
<1>9. /\ Cardinality(candidates) \in Nat
      /\ ranked \in [1 .. Cardinality(candidates) -> candidates]
      /\ \A k, l \in 1 .. Cardinality(candidates) : k < l => <<ranked[k], ranked[l]>> \in before
  <2>1. StrictOrder(candidates, before)
    <3> HIDE DEF candidates, score
    <3> QED
      BY <1>3, <1>8, RankingIsOrder
  <2> HIDE DEF candidates, before
  <2> QED
    BY <1>3, <2>1, ArrangedInOrder
<1>10. /\ \A k \in DOMAIN page : page[k] \in candidates
       /\ \E n \in Int : DOMAIN page = 1 .. n
  <2>1. ranked \in Seq(candidates) /\ Len(ranked) = Cardinality(candidates)
    <3> HIDE DEF ranked, candidates
    <3> QED
      BY <1>9
  <2>2. hunt.query.offset \in Nat /\ hunt.query.limit \in Nat
    BY <1>2 DEF Query
  <2>3. first \in Nat \ {0} /\ last \in Nat /\ last <= Len(ranked)
    <3> DEFINE a == Len(ranked)
               b == hunt.query.offset + hunt.query.limit
               m == Min({a, b})
    <3>0. a \in Nat
      <4>1. a = Cardinality(candidates) /\ Cardinality(candidates) \in Nat
        <5> HIDE DEF ranked, candidates
        <5> QED
          BY <1>9, <2>1
      <4> HIDE DEF a, candidates
      <4> QED
        BY <4>1
    <3>1. a \in Nat /\ b \in Nat /\ a \in Int /\ b \in Int
      <4>1. b \in Nat
        BY <2>2
      <4> HIDE DEF a, b
      <4> QED
        BY <3>0, <4>1
    <3> HIDE DEF a, b
    <3>2. (m = a \/ m = b) /\ m <= a
      BY <3>1, SmallerOf, Zenon
    <3> HIDE DEF m
    <3>3. m \in Nat
      BY <3>1, <3>2
    <3>4. first \in Nat \ {0}
      BY <2>2
    <3> QED
      BY <3>2, <3>3, <3>4 DEF a, b, m
  <2> HIDE DEF ranked, candidates, first, last
  <2>4. 1 + last - first \in Int /\ DOMAIN page = 1 .. (1 + last - first)
    BY <2>1, <2>3
  <2>5. ASSUME NEW k \in DOMAIN page
        PROVE  page[k] \in candidates
    <3>1. k \in 1 .. (1 + last - first) /\ page[k] = ranked[first + k - 1]
      BY <2>1, <2>3
    <3>2. first + k - 1 \in 1 .. Len(ranked)
      BY <2>1, <2>3, <3>1
    <3> QED
      BY <2>1, <3>1, <3>2
  <2> QED
    BY <2>4, <2>5
<1>11. Shape(hunt')
  BY <1>2, <1>6 DEF Shape
<1>12. Grounded(hunt')
  <2> HIDE DEF candidates, page, reasons
  <2> QED
    BY <1>4, <1>6, <1>10, SMTT(30) DEF Grounded
<1>13. Quoted(hunt')
  <2> HIDE DEF candidates, page
  <2> QED
    BY <1>2, <1>6, <1>10 DEF Quoted
<1>14. Best(hunt')
  <2> SUFFICES ASSUME hunt.query.order = "relevance",
                      NEW k \in DOMAIN ranked, NEW l \in DOMAIN ranked, k < l,
                      \A c \in DOMAIN Weight \ {"recency"} :
                        components[ranked[l]][c] >= components[ranked[k]][c]
               PROVE  \/ DateIn(ranked[l], known) < DateIn(ranked[k], known)
                      \/ /\ DateIn(ranked[l], known) = DateIn(ranked[k], known)
                         /\ Note[ranked[l]].created <= Note[ranked[k]].created
    <3> HIDE DEF ranked, components
    <3> QED
      BY <1>6 DEF Best
  <2>1. ranked[k] \in candidates /\ ranked[l] \in candidates /\ <<ranked[k], ranked[l]>> \in before
    <3> HIDE DEF ranked, candidates, before
    <3> QED
      BY <1>9
  <2>2. Precedes("relevance", known, score, ranked[k], ranked[l])
    <3> HIDE DEF ranked, candidates, score
    <3> QED
      BY <2>1
  <2>3. \A i \in candidates : Numbered(components[i]) /\ components[i].recency = Recency(i, candidates, known)
    BY <1>7
  <2>4. score = [i \in candidates |-> Score(components[i])]
    OBVIOUS
  <2> HIDE DEF ranked, candidates, score, components
  <2> QED
    BY <1>3, <2>1, <2>2, <2>3, <2>4, BetterComesFirst
<1> QED
  BY <1>1, <1>11, <1>12, <1>13, <1>14 DEF SearchInv, HuntOK

LEMMA WriterInv ==
  ASSUME SearchInv, WriterNext
  PROVE  SearchInv'
<1>1. hunt' = hunt
  BY DEF WriterNext, ImportMeeting, ImportNotes, EditTranscript, SetStatus, Write
<1>2. ShelfOK'
  <2> USE DEF SearchInv, ShelfOK
  <2>1. ASSUME NEW x \in Meetings, ImportMeeting(x)
        PROVE  ShelfOK'
    BY <2>1 DEF ImportMeeting
  <2>2. ASSUME NEW x \in Meetings, ImportNotes(x)
        PROVE  ShelfOK'
    BY <2>2 DEF ImportNotes
  <2>3. ASSUME NEW x \in Meetings, EditTranscript(x)
        PROVE  ShelfOK'
    <3>1. PICK n \in 0 .. Sitting[x].lines - 1 : shelf' = [shelf EXCEPT !.lines[x] = n]
      BY <2>3 DEF EditTranscript
    <3>2. n \in Nat
      BY <3>1, RecordsAssumption DEF Meetings
    <3> QED
      BY <3>1, <3>2
  <2>4. ASSUME NEW i \in Notes, SetStatus(i)
        PROVE  ShelfOK'
    BY <2>4 DEF SetStatus, StatusWeight
  <2> QED
    BY <2>1, <2>2, <2>3, <2>4 DEF WriterNext
<1> QED
  BY <1>1, <1>2 DEF SearchInv

LEMMA SearchStep == SearchInv /\ [ReplayNext]_replayVars => SearchInv'
<1> SUFFICES ASSUME SearchInv, [ReplayNext]_replayVars  PROVE SearchInv'
  OBVIOUS
<1>1. CASE SearchNext
  <2>1. ASSUME NEW e \in Errand, ListKnown(e.query)
        PROVE  SearchInv'
    BY <2>1, ListKnownInv
  <2> QED
    BY <1>1, <2>1, PlanQueryInv, RankInv, QuoteInv, ReturnInv DEF SearchNext
<1>2. CASE WriterNext
  BY <1>2, WriterInv
<1>3. CASE UNCHANGED <<shelf, hunt>>
  BY <1>3 DEF SearchInv, ShelfOK
<1>4. CASE StartLoad \/ LoadNext \/ BuildTimeline \/ Step \/ Seek \/ Rewind \/ PlayAll
  BY <1>3, <1>4 DEF StartLoad, LoadNext, BuildTimeline, Step, Seek, Rewind, PlayAll
<1> QED
  BY <1>1, <1>2, <1>3, <1>4 DEF ReplayNext, replayVars

LEMMA SearchInvariance == ReplaySpec => []SearchInv
BY SearchInitInv, SearchStep, PTL DEF ReplaySpec

\* BestFirst: whatever is stored, asked and written meanwhile, and however the
\* parts of the scores come out (engine.py, _order and _recency_map).
THEOREM RankingIsSound == ReplaySpec => []BestFirst
<1>1. SearchInv => BestFirst
  BY DEF SearchInv, HuntOK, Best, BestFirst
<1> QED
  BY <1>1, SearchInvariance, PTL

\* HitsExplained: every condition a hit had to meet when it was selected is
\* found again when it is explained, from the same rows and the same meetings
\* (explain.py), and the window lies around it (context.py).
THEOREM HitsAreExplained == ReplaySpec => []HitsExplained
<1>1. SearchInv => HitsExplained
  BY DEF SearchInv, HuntOK, Grounded, Quoted, Reasoned, Framed, HitsExplained
<1> QED
  BY <1>1, SearchInvariance, PTL

------------------------------------------------------------------------------
(* Replay: orders *)
LEMMA TwoKeys ==
  ASSUME NEW a \in Int, NEW b \in Int, NEW x \in Int, NEW y \in Int
  PROVE  KeysLess(<<a, b>>, <<x, y>>) <=> a < x \/ (a = x /\ b < y)
<1>1. DOMAIN <<a, b>> = {1, 2} /\ 1 .. 0 = {} /\ 1 .. 1 = {1} /\ 1 - 1 = 0 /\ 2 - 1 = 1
  OBVIOUS
<1> QED
  BY <1>1 DEF KeysLess

LEMMA SittingTypes ==
  ASSUME NEW x \in Meetings
  PROVE  x \in Int /\ Sitting[x].date \in Nat /\ Sitting[x].created \in Int
BY RecordsAssumption DEF Meetings

Older(x, y) ==
  KeysLess(<<IF Sitting[x].date = 0 THEN 1 ELSE 0, Sitting[x].date, Sitting[x].created, x>>,
           <<IF Sitting[y].date = 0 THEN 1 ELSE 0, Sitting[y].date, Sitting[y].created, y>>)

LEMMA OlderIs ==
  ASSUME NEW x \in Meetings, NEW y \in Meetings
  PROVE  Older(x, y) <=>
           LET u == IF Sitting[x].date = 0 THEN 1 ELSE 0
               v == IF Sitting[y].date = 0 THEN 1 ELSE 0
           IN  \/ u < v
               \/ /\ u = v
                  /\ \/ Sitting[x].date < Sitting[y].date
                     \/ /\ Sitting[x].date = Sitting[y].date
                        /\ \/ Sitting[x].created < Sitting[y].created
                           \/ Sitting[x].created = Sitting[y].created /\ x < y
<1> DEFINE u == IF Sitting[x].date = 0 THEN 1 ELSE 0
           v == IF Sitting[y].date = 0 THEN 1 ELSE 0
           s == <<u, Sitting[x].date, Sitting[x].created, x>>
           t == <<v, Sitting[y].date, Sitting[y].created, y>>
<1>1. s \in Int \X Int \X Int \X Int /\ t \in Int \X Int \X Int \X Int
  <2>1. u \in Int /\ v \in Int
    OBVIOUS
  <2>2. /\ x \in Int /\ Sitting[x].date \in Int /\ Sitting[x].created \in Int
        /\ y \in Int /\ Sitting[y].date \in Int /\ Sitting[y].created \in Int
    BY SittingTypes
  <2> HIDE DEF u, v
  <2> QED
    BY <2>1, <2>2
<1>2. /\ s[1] = u /\ s[2] = Sitting[x].date /\ s[3] = Sitting[x].created /\ s[4] = x
      /\ t[1] = v /\ t[2] = Sitting[y].date /\ t[3] = Sitting[y].created /\ t[4] = y
  OBVIOUS
<1>3. Older(x, y) <=> KeysLess(s, t)
  BY DEF Older
<1> HIDE DEF u, v, s, t
<1>4. Older(x, y) <=>
        \/ u < v
        \/ /\ u = v
           /\ \/ Sitting[x].date < Sitting[y].date
              \/ /\ Sitting[x].date = Sitting[y].date
                 /\ \/ Sitting[x].created < Sitting[y].created
                    \/ Sitting[x].created = Sitting[y].created /\ x < y
  BY <1>1, <1>2, <1>3, FourKeys
<1> QED
  BY <1>4 DEF u, v

\* list_meetings returns every meeting once.
LEMMA ListedIsListing ==
  ASSUME shelf.meetings \in SUBSET Meetings, IsFiniteSet(shelf.meetings)
  PROVE  /\ Listed \in Seq(shelf.meetings)
         /\ \A k, l \in DOMAIN Listed : Listed[k] = Listed[l] => k = l
         /\ shelf.meetings = {Listed[k] : k \in DOMAIN Listed}
<1> DEFINE xs == shelf.meetings
           before == {p \in xs \X xs : Older(p[1], p[2])}
           n == Cardinality(xs)
<1>1. Listed = Arranged(xs, before)
  BY DEF Listed, Older
<1>2. StrictOrder(xs, before)
  <2>1. ASSUME NEW x \in xs, NEW y \in xs
        PROVE  <<x, y>> \in before <=> Older(x, y)
    OBVIOUS
  <2>2. ASSUME NEW x \in xs
        PROVE  x \in Meetings /\ x \in Int /\ Sitting[x].date \in Nat /\ Sitting[x].created \in Int
    BY SittingTypes
  <2>3. ASSUME NEW x \in xs
        PROVE  ~Older(x, x)
    BY <2>2, OlderIs
  <2>4. ASSUME NEW x \in xs, NEW y \in xs, x # y
        PROVE  Older(x, y) \/ Older(y, x)
    BY <2>2, <2>4, OlderIs
  <2>5. ASSUME NEW x \in xs, NEW y \in xs, NEW z \in xs, Older(x, y), Older(y, z)
        PROVE  Older(x, z)
    BY <2>2, <2>5, OlderIs
  <2> HIDE DEF before, xs
  <2> QED
    BY <2>1, <2>3, <2>4, <2>5 DEF StrictOrder
<1> HIDE DEF before
<1>3. /\ n \in Nat /\ Listed \in [1 .. n -> xs]
      /\ \A k, l \in 1 .. n : k < l => <<Listed[k], Listed[l]>> \in before
      /\ \A x \in xs : \E k \in 1 .. n : Listed[k] = x
  BY <1>1, <1>2, ArrangedInOrder
<1> HIDE DEF n, xs
<1>4. \A k, l \in 1 .. n : Listed[k] = Listed[l] => k = l
  <2>1. ASSUME NEW k \in 1 .. n, NEW l \in 1 .. n, Listed[k] = Listed[l], k < l
        PROVE  FALSE
    BY <1>2, <1>3, <2>1 DEF StrictOrder
  <2> QED
    BY <1>3, <2>1
<1>5. Listed \in Seq(xs) /\ DOMAIN Listed = 1 .. n
  BY <1>3
<1> QED
  BY <1>3, <1>4, <1>5 DEF xs

\* Entries of different meetings come by date and id.
Dated(d, e) == Sitting[d.meeting].date < Sitting[e.meeting].date
                 \/ (Sitting[d.meeting].date = Sitting[e.meeting].date /\ d.meeting < e.meeting)
LEMMA InOrderIsOrder ==
  ASSUME NEW entries, IsFiniteSet(entries), \A e \in entries : e.meeting \in Meetings,
         \A d, e \in entries : d.meeting = e.meeting => d = e
  PROVE  \E n \in Nat :
           /\ InOrder(entries) \in [1 .. n -> entries]
           /\ \A k, l \in 1 .. n : k < l => Dated(InOrder(entries)[k], InOrder(entries)[l])
           /\ \A e \in entries : \E k \in 1 .. n : InOrder(entries)[k] = e
<1> DEFINE keys(e) == <<Sitting[e.meeting].date, e.meeting>>
           before == {p \in entries \X entries : KeysLess(keys(p[1]), keys(p[2]))}
<1>1. InOrder(entries) = Arranged(entries, before)
  BY DEF InOrder
<1>2. ASSUME NEW d \in entries
      PROVE  d.meeting \in Int /\ Sitting[d.meeting].date \in Int
  BY SittingTypes
<1>3. ASSUME NEW d \in entries, NEW e \in entries
      PROVE  <<d, e>> \in before <=> Dated(d, e)
  <2>1. <<d, e>> \in before <=> KeysLess(<<Sitting[d.meeting].date, d.meeting>>, <<Sitting[e.meeting].date, e.meeting>>)
    OBVIOUS
  <2> HIDE DEF before
  <2> QED
    BY <1>2, <2>1, TwoKeys DEF Dated
<1> HIDE DEF before
<1>4. StrictOrder(entries, before)
  <2>1. ASSUME NEW d \in entries
        PROVE  ~Dated(d, d)
    BY <1>2 DEF Dated
  <2>2. ASSUME NEW d \in entries, NEW e \in entries, d # e
        PROVE  Dated(d, e) \/ Dated(e, d)
    BY <1>2, <2>2 DEF Dated
  <2>3. ASSUME NEW d \in entries, NEW e \in entries, NEW f \in entries, Dated(d, e), Dated(e, f)
        PROVE  Dated(d, f)
    BY <1>2, <2>3 DEF Dated
  <2> QED
    BY <1>3, <2>1, <2>2, <2>3 DEF StrictOrder
<1>5. /\ Cardinality(entries) \in Nat
      /\ InOrder(entries) \in [1 .. Cardinality(entries) -> entries]
      /\ \A k, l \in 1 .. Cardinality(entries) :
           k < l => <<InOrder(entries)[k], InOrder(entries)[l]>> \in before
      /\ \A e \in entries : \E k \in 1 .. Cardinality(entries) : InOrder(entries)[k] = e
  BY <1>1, <1>4, ArrangedInOrder
<1> DEFINE n == Cardinality(entries)
<1>6. \A k, l \in 1 .. n : k < l => Dated(InOrder(entries)[k], InOrder(entries)[l])
  BY <1>3, <1>5
<1> HIDE DEF n
<1> QED
  BY <1>5, <1>6 DEF n

\* Memories of one meeting come in the order they were said.
Said(i, j) == Note[i].index < Note[j].index \/ (Note[i].index = Note[j].index /\ i < j)
LEMMA SpokenIsOrder ==
  ASSUME NEW notes \in SUBSET Notes
  PROVE  \E n \in Nat :
           /\ Spoken(notes) \in [1 .. n -> notes]
           /\ \A k, l \in 1 .. n : k < l => Said(Spoken(notes)[k], Spoken(notes)[l])
           /\ \A i \in notes : \E k \in 1 .. n : Spoken(notes)[k] = i
<1> DEFINE keys(i) == <<Note[i].index, i>>
           before == {p \in notes \X notes : KeysLess(keys(p[1]), keys(p[2]))}
<1>0. IsFiniteSet(notes)
  BY RecordsAssumption, FS_Subset DEF Notes
<1>1. Spoken(notes) = Arranged(notes, before)
  BY DEF Spoken
<1>2. ASSUME NEW i \in notes
      PROVE  i \in Int /\ Note[i].index \in Int
  BY NoteTypes
<1>3. ASSUME NEW i \in notes, NEW j \in notes
      PROVE  <<i, j>> \in before <=> Said(i, j)
  <2>1. <<i, j>> \in before <=> KeysLess(<<Note[i].index, i>>, <<Note[j].index, j>>)
    OBVIOUS
  <2> HIDE DEF before
  <2> QED
    BY <1>2, <2>1, TwoKeys DEF Said
<1> HIDE DEF before
<1>4. StrictOrder(notes, before)
  BY <1>2, <1>3 DEF StrictOrder, Said
<1>5. /\ Cardinality(notes) \in Nat
      /\ Spoken(notes) \in [1 .. Cardinality(notes) -> notes]
      /\ \A k, l \in 1 .. Cardinality(notes) : k < l => <<Spoken(notes)[k], Spoken(notes)[l]>> \in before
      /\ \A i \in notes : \E k \in 1 .. Cardinality(notes) : Spoken(notes)[k] = i
  BY <1>0, <1>1, <1>4, ArrangedInOrder
<1> DEFINE n == Cardinality(notes)
<1>6. \A k, l \in 1 .. n : k < l => Said(Spoken(notes)[k], Spoken(notes)[l])
  BY <1>3, <1>5
<1> HIDE DEF n
<1> QED
  BY <1>5, <1>6 DEF n

------------------------------------------------------------------------------
(* Replay: what a search and a replay know of the shelf *)
NotesOf(x) == {i \in shelf.notes : Note[i].meeting = x}
Entry0(x) == [meeting |-> x, notes |-> NotesOf(x)]
Hits == {i \in Rows(hunt.applied) : Matches(i, hunt.applied, hunt.meetings)}

\* Nothing was written since a search began that began in this very state of the
\* shelf.
SearchIsFresh ==
  /\ \A i \in shelf.notes : Note[i].meeting \in shelf.meetings
  /\ writes \in Nat /\ hunt.since \in Nat /\ hunt.since <= writes
  /\ hunt.state # "idle" /\ Undisturbed => hunt.meetings = shelf.meetings
  /\ hunt.state \in {"planned", "ranked", "done"} /\ hunt.query.text = <<>> =>
       hunt.applied = hunt.query
  /\ hunt.state \in {"ranked", "done"} =>
       /\ \E n \in Nat : hunt.ranked \in [1 .. n -> Notes]
       /\ Undisturbed => ToSet(hunt.ranked) = Hits
       /\ hunt.query.order = "chronological" =>
            \A k, l \in DOMAIN hunt.ranked :
              k < l => ByTime(hunt.meetings, hunt.ranked[k], hunt.ranked[l])

PlayShape ==
  /\ DOMAIN play = DOMAIN NoPlay /\ play.state \in {"idle", "loading", "ready"}
  /\ play.state # "idle" => hunt.state = "done"
  /\ play.state # "ready" => play.result = <<>>

\* Every meeting is loaded once.
LoadIsFresh ==
  play.state = "loading" =>
    /\ play.todo \in Seq(Meetings)
    /\ \A k, l \in DOMAIN play.todo : play.todo[k] = play.todo[l] => k = l
    /\ play.loaded \in Seq([meeting : Meetings, notes : SUBSET Notes])
    /\ \A d, e \in ToSet(play.loaded) : d.meeting = e.meeting => d = e
    /\ \A d \in ToSet(play.loaded) :
         /\ d.meeting \notin ToSet(play.todo)
         /\ \A i \in d.notes : Note[i].meeting = d.meeting
    /\ Undisturbed =>
         /\ shelf.meetings = ToSet(play.todo) \cup {d.meeting : d \in ToSet(play.loaded)}
         /\ \A d \in ToSet(play.loaded) : d = Entry0(d.meeting)

\* The events are the selected meetings in order, each with its memories in order.
EventsInOrder(events) ==
  /\ IsASequence(events)
  /\ \A n \in DOMAIN events :
       /\ events[n].meeting \in Meetings
       /\ \E m \in Nat : DOMAIN events[n].notes = 1 .. m
       /\ \A k \in DOMAIN events[n].notes :
            events[n].notes[k] \in Notes /\ Note[events[n].notes[k]].meeting = events[n].meeting
       /\ \A k, l \in DOMAIN events[n].notes : k < l => Said(events[n].notes[k], events[n].notes[l])
       /\ events[n].by_type = TypeCounts(UNION {ToSet(events[m].notes) : m \in 1 .. n})
  /\ \A m, n \in DOMAIN events : m < n => Dated(events[m], events[n])
EventsComplete(events, filter) ==
  /\ \A n \in DOMAIN events :
       /\ events[n].meeting \in shelf.meetings /\ ToSet(events[n].notes) = NotesOf(events[n].meeting)
       /\ Selected(Entry0(events[n].meeting), filter)
  /\ \A x \in shelf.meetings :
       Selected(Entry0(x), filter) => \E n \in DOMAIN events : events[n].meeting = x
TimelineIsFresh ==
  play.state = "ready" =>
    /\ EventsInOrder(play.events)
    /\ Undisturbed => EventsComplete(play.events, play.filter)
    /\ \A k \in DOMAIN play.result : play.result[k].final = TypeCounts(Told)

StoryInv == SearchInv /\ SearchIsFresh /\ PlayShape /\ LoadIsFresh /\ TimelineIsFresh

LEMMA StoryInitInv == ReplayInit => StoryInv
<1> SUFFICES ASSUME ReplayInit  PROVE StoryInv
  OBVIOUS
<1>1. SearchInv
  BY SearchInitInv
<1>2. hunt = NoHunt /\ writes = 0 /\ play = NoPlay
      /\ \A i \in shelf.notes : Note[i].meeting \in shelf.meetings
  BY DEF ReplayInit, RetrievalInit
<1>3. /\ hunt.state = "idle" /\ hunt.since = 0
      /\ play.state = "idle" /\ play.result = <<>> /\ DOMAIN play = DOMAIN NoPlay
  BY <1>2 DEF NoHunt, NoPlay
<1> QED
  BY <1>1, <1>2, <1>3 DEF StoryInv, SearchIsFresh, PlayShape, LoadIsFresh, TimelineIsFresh

\* Steps of the search: no replay has begun.
LEMMA NoReplayYet ==
  ASSUME StoryInv, hunt.state # "done", UNCHANGED play
  PROVE  PlayShape' /\ LoadIsFresh' /\ TimelineIsFresh'
<1>1. play.state = "idle"
  BY DEF StoryInv, PlayShape
<1> QED
  BY <1>1 DEF StoryInv, PlayShape, LoadIsFresh, TimelineIsFresh

LEMMA ListKnownStory ==
  ASSUME StoryInv, NEW e \in Errand, ListKnown(e.query), UNCHANGED play
  PROVE  StoryInv'
<1>1. SearchInv'
  BY ListKnownInv DEF StoryInv
<1>2. PlayShape' /\ LoadIsFresh' /\ TimelineIsFresh'
  BY NoReplayYet DEF ListKnown
<1>3. SearchIsFresh'
  <2>1. /\ hunt'.state = "listed" /\ hunt'.since = writes /\ hunt'.meetings = shelf.meetings
        /\ shelf' = shelf /\ writes' = writes
    BY DEF ListKnown, StoryInv, SearchInv, HuntOK, Shape, HuntFields, NoHunt
  <2> QED
    BY <2>1 DEF StoryInv, SearchIsFresh
<1> QED
  BY <1>1, <1>2, <1>3 DEF StoryInv

\* Without words there is nothing to plan.
LEMMA NothingToPlan ==
  ASSUME NEW q \in Query, q.text = <<>>, NEW speakers, NEW participants
  PROVE  Plan(q, speakers, participants) = q
<1> DEFINE text == q.text
           listed == {"type", "status", "month"}
           values(class) == {Lexicon[text[k]].value : k \in {j \in Single(text) : Is(text[j], class)}}
           names == {k \in Single(text) : Lexicon[text[k]].class \notin listed}
           said == {k \in names : text[k] \in speakers}
           present == {k \in names \ said : text[k] \in participants}
           terms == {k \in names \ (said \cup present) : ~Is(text[k], "stop")}
           inOrder == Arranged(terms, {p \in terms \X terms : p[1] < p[2]})
           loops == {"open_loop" : k \in {j \in DOMAIN text : OpenLoopAt(text, j)}}
           spoke == {text[k] : k \in said}
           came == {text[k] : k \in present}
           words == [n \in 1 .. Cardinality(terms) |-> text[inOrder[n]]]
<1>1. Single(text) = {} /\ DOMAIN text = {}
  BY DEF Single
<1>2. /\ names = {} /\ said = {} /\ present = {} /\ terms = {} /\ loops = {}
      /\ \A class : values(class) = {}
  BY <1>1
<1>3. Cardinality(terms) = 0
  BY <1>2, FS_EmptySet
<1>4. words = <<>>
  <2>1. 1 .. 0 = {}
    OBVIOUS
  <2> HIDE DEF terms, inOrder, text
  <2> QED
    BY <1>3, <2>1
<1> DEFINE types == values("type") \cup loops
           statuses == values("status")
           months == values("month")
<1>5. Plan(q, speakers, participants) =
        [q EXCEPT !.types = @ \cup values("type") \cup loops, !.statuses = @ \cup statuses,
                  !.months = @ \cup months, !.speakers = @ \cup spoke,
                  !.participants = @ \cup came, !.text = words]
  BY DEF Plan
<1>6. types = {} /\ statuses = {} /\ months = {} /\ spoke = {} /\ came = {}
  BY <1>2
<1>7. q.types \cup values("type") \cup loops = q.types \cup types
  OBVIOUS
<1> HIDE DEF text, values, loops, types, statuses, months, spoke, came, words
<1>8. /\ q.types \cup values("type") \cup loops = q.types /\ q.statuses \cup statuses = q.statuses
      /\ q.months \cup months = q.months /\ q.speakers \cup spoke = q.speakers
      /\ q.participants \cup came = q.participants
  BY <1>6, <1>7
<1>9. Plan(q, speakers, participants) =
        [q EXCEPT !.types = q.types, !.statuses = q.statuses, !.months = q.months,
                  !.speakers = q.speakers, !.participants = q.participants, !.text = q.text]
  BY <1>4, <1>5, <1>8
<1> QED
  BY <1>9 DEF Query

LEMMA PlanQueryStory ==
  ASSUME StoryInv, PlanQuery, UNCHANGED play
  PROVE  StoryInv'
<1>1. SearchInv'
  BY PlanQueryInv DEF StoryInv
<1>2. PlayShape' /\ LoadIsFresh' /\ TimelineIsFresh'
  BY NoReplayYet DEF PlanQuery
<1>3. SearchIsFresh'
  <2> DEFINE plan == Plan(hunt.query, {Note[i].speaker : i \in shelf.notes},
                          UNION {Sitting[x].present : x \in hunt.meetings})
  <2>1. hunt' = [hunt EXCEPT !.state = "planned", !.applied = plan]
    BY DEF PlanQuery
  <2>2. hunt.query \in Query /\ DOMAIN hunt = HuntFields /\ hunt.state = "listed"
    BY DEF PlanQuery, StoryInv, SearchInv, HuntOK, Shape
  <2>3. hunt.query.text = <<>> => plan = hunt.query
    BY <2>2, NothingToPlan
  <2> HIDE DEF plan
  <2>4. /\ hunt'.state = "planned" /\ hunt'.since = hunt.since /\ hunt'.meetings = hunt.meetings
        /\ hunt'.query = hunt.query /\ hunt'.applied = plan
    BY <2>1, <2>2 DEF HuntFields, NoHunt
  <2>5. shelf' = shelf /\ writes' = writes
    BY DEF PlanQuery
  <2> QED
    BY <2>2, <2>3, <2>4, <2>5 DEF StoryInv, SearchIsFresh, Undisturbed
<1> QED
  BY <1>1, <1>2, <1>3 DEF StoryInv

LEMMA RankStory ==
  ASSUME StoryInv, Rank, UNCHANGED play
  PROVE  StoryInv'
<1> DEFINE applied == hunt.applied
           known == hunt.meetings
           candidates == {i \in Rows(applied) : Matches(i, applied, known)}
           components == [i \in candidates |-> Components(i, applied, candidates, known)]
           score == [i \in candidates |-> Score(components[i])]
           order == hunt.query.order
           before == {p \in candidates \X candidates : Precedes(order, known, score, p[1], p[2])}
           ranked == Arranged(candidates, before)
<1>1. SearchInv'
  BY RankInv DEF StoryInv
<1>2. PlayShape' /\ LoadIsFresh' /\ TimelineIsFresh'
  BY NoReplayYet DEF Rank
<1>3. /\ hunt.query \in Query /\ DOMAIN hunt = HuntFields /\ hunt.state = "planned"
      /\ IsASequence(applied.text) /\ ShelfOK
  BY DEF Rank, StoryInv, SearchInv, HuntOK, Shape
<1>4. /\ hunt'.state = "ranked" /\ hunt'.since = hunt.since /\ hunt'.meetings = known
      /\ hunt'.query = hunt.query /\ hunt'.applied = applied /\ hunt'.ranked = ranked
      /\ shelf' = shelf /\ writes' = writes
  <2>1. PICK components0, page, reasons :
          hunt' = [hunt EXCEPT !.state = "ranked", !.ranked = ranked, !.components = components0,
                               !.page = page, !.reasons = reasons]
    BY DEF Rank
  <2>2. shelf' = shelf /\ writes' = writes
    BY DEF Rank
  <2> HIDE DEF ranked
  <2>3. {"state", "since", "meetings", "query", "applied", "ranked"} \in SUBSET DOMAIN hunt
    BY <1>3 DEF HuntFields, NoHunt
  <2> QED
    BY <2>1, <2>2, <2>3, SMTT(40)
<1>5. candidates \in SUBSET Notes /\ IsFiniteSet(candidates)
  <2>1. candidates \in SUBSET Notes
    BY <1>3 DEF Rows, ShelfOK
  <2> QED
    BY <2>1, RecordsAssumption, FS_Subset DEF Notes
<1>6. score \in [candidates -> Int]
  <2>1. ASSUME NEW i \in candidates
        PROVE  score[i] \in Int
    <3> HIDE DEF candidates
    <3>1. Numbered(Components(i, applied, candidates, known))
      BY <1>3, <1>5, ComponentTypes DEF IsASequence, ShelfOK
    <3> QED
      BY <3>1, ScoreType
  <2> HIDE DEF candidates, components
  <2> QED
    BY <2>1
<1>7. /\ Cardinality(candidates) \in Nat
      /\ ranked \in [1 .. Cardinality(candidates) -> candidates]
      /\ \A k, l \in 1 .. Cardinality(candidates) : k < l => <<ranked[k], ranked[l]>> \in before
      /\ \A i \in candidates : \E k \in 1 .. Cardinality(candidates) : ranked[k] = i
  <2>1. StrictOrder(candidates, before)
    <3> HIDE DEF candidates, score, order
    <3> QED
      BY <1>5, <1>6, RankingIsOrder
  <2> HIDE DEF candidates, before
  <2> QED
    BY <1>5, <2>1, ArrangedInOrder
<1>8. ASSUME order = "chronological", NEW k \in DOMAIN ranked, NEW l \in DOMAIN ranked, k < l
      PROVE  ByTime(known, ranked[k], ranked[l])
  <2>1. /\ ranked[k] \in candidates /\ ranked[l] \in candidates
        /\ <<ranked[k], ranked[l]>> \in before
    <3> HIDE DEF ranked, candidates, before
    <3> QED
      BY <1>7, <1>8
  <2>2. Precedes(order, known, score, ranked[k], ranked[l])
    <3> HIDE DEF ranked, candidates, score
    <3> QED
      BY <2>1
  <2>3. /\ ranked[k] \in Notes /\ ranked[l] \in Notes
        /\ score[ranked[k]] \in Int /\ score[ranked[l]] \in Int
    <3> HIDE DEF ranked, candidates, score
    <3> QED
      BY <1>5, <1>6, <2>1
  <2> HIDE DEF ranked, candidates, score
  <2> QED
    BY <1>8, <2>2, <2>3, PrecedesIs
<1>9. /\ ToSet(ranked) = candidates /\ \E n \in Nat : ranked \in [1 .. n -> Notes]
  <2> HIDE DEF ranked, candidates, before
  <2>1. \A i : i \in ToSet(ranked) <=> i \in candidates
    BY <1>7 DEF ToSet
  <2>2. ranked \in [1 .. Cardinality(candidates) -> Notes]
    BY <1>5, <1>7
  <2> QED
    BY <1>7, <2>1, <2>2
<1>10. Hits' = candidates
  BY <1>4 DEF Hits, Rows, Matches, Searchable, Heading, Body
<1>11. SearchIsFresh'
  <2> HIDE DEF ranked, candidates
  <2> QED
    BY <1>3, <1>4, <1>8, <1>9, <1>10 DEF StoryInv, SearchIsFresh, Undisturbed
<1> QED
  BY <1>1, <1>2, <1>11 DEF StoryInv

LEMMA QuoteStory ==
  ASSUME StoryInv, Quote, UNCHANGED play
  PROVE  StoryInv'
<1>1. SearchInv'
  BY QuoteInv DEF StoryInv
<1>2. PlayShape' /\ LoadIsFresh' /\ TimelineIsFresh'
  BY NoReplayYet DEF Quote
<1>3. /\ DOMAIN hunt = HuntFields /\ hunt.state = "ranked"
  BY DEF Quote, StoryInv, SearchInv, HuntOK, Shape
<1>4. /\ hunt'.state = "ranked" /\ hunt'.since = hunt.since /\ hunt'.meetings = hunt.meetings
      /\ hunt'.query = hunt.query /\ hunt'.applied = hunt.applied /\ hunt'.ranked = hunt.ranked
      /\ shelf' = shelf /\ writes' = writes
  <2>1. PICK x, lines, window :
          hunt' = [hunt EXCEPT !.lines[x] = lines, !.windows = Append(@, window)]
    BY DEF Quote
  <2>2. shelf' = shelf /\ writes' = writes
    BY DEF Quote
  <2> QED
    BY <1>3, <2>1, <2>2 DEF HuntFields, NoHunt
<1>5. Hits' = Hits
  BY <1>4 DEF Hits, Rows, Matches, Searchable, Heading, Body
<1>6. SearchIsFresh'
  BY <1>3, <1>4, <1>5 DEF StoryInv, SearchIsFresh, Undisturbed
<1> QED
  BY <1>1, <1>2, <1>6 DEF StoryInv

LEMMA ReturnStory ==
  ASSUME StoryInv, Return, UNCHANGED play
  PROVE  StoryInv'
<1>1. SearchInv'
  BY ReturnInv DEF StoryInv
<1>2. PlayShape' /\ LoadIsFresh' /\ TimelineIsFresh'
  BY NoReplayYet DEF Return
<1>3. /\ DOMAIN hunt = HuntFields /\ hunt.state = "ranked"
  BY DEF Return, StoryInv, SearchInv, HuntOK, Shape
<1>4. /\ hunt'.state = "done" /\ hunt'.since = hunt.since /\ hunt'.meetings = hunt.meetings
      /\ hunt'.query = hunt.query /\ hunt'.applied = hunt.applied /\ hunt'.ranked = hunt.ranked
      /\ shelf' = shelf /\ writes' = writes
  <2>1. PICK lines : hunt' = [hunt EXCEPT !.state = "done", !.lines = lines]
    BY DEF Return
  <2>2. shelf' = shelf /\ writes' = writes
    BY DEF Return
  <2> QED
    BY <1>3, <2>1, <2>2 DEF HuntFields, NoHunt
<1>5. Hits' = Hits
  BY <1>4 DEF Hits, Rows, Matches, Searchable, Heading, Body
<1>6. SearchIsFresh'
  BY <1>3, <1>4, <1>5 DEF StoryInv, SearchIsFresh, Undisturbed
<1> QED
  BY <1>1, <1>2, <1>6 DEF StoryInv

\* Whoever writes makes what was read before the past.
LEMMA WriterStory ==
  ASSUME StoryInv, WriterNext, play.state # "ready", UNCHANGED play
  PROVE  StoryInv'
<1>1. SearchInv'
  BY WriterInv DEF StoryInv
<1>2. hunt' = hunt /\ writes' = writes + 1
  BY DEF WriterNext, ImportMeeting, ImportNotes, EditTranscript, SetStatus, Write
<1>3. ~Undisturbed'
  BY <1>2 DEF StoryInv, SearchIsFresh, Undisturbed
<1>4. \A i \in shelf'.notes : Note[i].meeting \in shelf'.meetings
  <2> USE DEF StoryInv, SearchInv, ShelfOK, SearchIsFresh
  <2>1. ASSUME NEW x \in Meetings, ImportMeeting(x)
        PROVE  shelf'.notes = shelf.notes /\ shelf.meetings \subseteq shelf'.meetings
    BY <2>1 DEF ImportMeeting
  <2>2. ASSUME NEW x \in Meetings, ImportNotes(x)
        PROVE  /\ shelf'.meetings = shelf.meetings /\ x \in shelf.meetings
               /\ shelf'.notes = shelf.notes \cup {i \in Notes : Note[i].meeting = x}
    BY <2>2 DEF ImportNotes
  <2>3. ASSUME NEW x \in Meetings, EditTranscript(x)
        PROVE  shelf'.meetings = shelf.meetings /\ shelf'.notes = shelf.notes
    BY <2>3 DEF EditTranscript
  <2>4. ASSUME NEW i \in Notes, SetStatus(i)
        PROVE  shelf'.meetings = shelf.meetings /\ shelf'.notes = shelf.notes
    BY <2>4 DEF SetStatus
  <2> QED
    BY <2>1, <2>2, <2>3, <2>4 DEF WriterNext
<1>5. SearchIsFresh'
  BY <1>2, <1>3, <1>4 DEF StoryInv, SearchIsFresh
<1>6. PlayShape' /\ LoadIsFresh' /\ TimelineIsFresh'
  BY <1>2, <1>3 DEF StoryInv, PlayShape, LoadIsFresh, TimelineIsFresh
<1> QED
  BY <1>1, <1>5, <1>6 DEF StoryInv

\* Steps of a replay leave the search and the shelf alone.
LEMMA SearchStays ==
  ASSUME StoryInv, UNCHANGED <<shelf, writes, hunt>>
  PROVE  /\ SearchInv' /\ SearchIsFresh' /\ (Undisturbed' <=> Undisturbed)
         /\ \A x : NotesOf(x)' = NotesOf(x)
<1>1. SearchInv' /\ (Undisturbed' <=> Undisturbed)
  BY DEF StoryInv, SearchInv, ShelfOK, Undisturbed
<1>2. Hits' = Hits
  BY DEF Hits, Rows
<1>3. SearchIsFresh'
  BY <1>1, <1>2 DEF StoryInv, SearchIsFresh
<1> QED
  BY <1>1, <1>3 DEF NotesOf

LEMMA StartLoadStory ==
  ASSUME StoryInv, StartLoad
  PROVE  StoryInv'
<1>1. SearchInv' /\ SearchIsFresh'
  BY SearchStays DEF StartLoad
<1>2. PICK e \in Errand :
        play' = [NoPlay EXCEPT !.state = "loading", !.filter = e.filter, !.since = writes,
                               !.todo = Listed]
  BY DEF StartLoad
<1>3. /\ play'.state = "loading" /\ play'.todo = Listed /\ play'.loaded = <<>>
      /\ play'.result = <<>> /\ DOMAIN play' = DOMAIN NoPlay
  BY <1>2 DEF NoPlay
<1>4. shelf.meetings \in SUBSET Meetings
  BY DEF StoryInv, SearchInv, ShelfOK
<1>5. IsFiniteSet(shelf.meetings)
  BY <1>4, RecordsAssumption, FS_Subset DEF Meetings
<1>6. /\ Listed \in Seq(shelf.meetings)
      /\ \A k, l \in DOMAIN Listed : Listed[k] = Listed[l] => k = l
      /\ shelf.meetings = ToSet(Listed)
  BY <1>4, <1>5, ListedIsListing DEF ToSet
<1>7. ToSet(<<>>) = {}
  BY DEF ToSet
<1>8. shelf' = shelf /\ hunt' = hunt /\ hunt.state = "done"
  BY DEF StartLoad
<1>9. PlayShape' /\ TimelineIsFresh'
  BY <1>3, <1>8 DEF PlayShape, TimelineIsFresh
<1>10. LoadIsFresh'
  <2>1. Listed \in Seq(Meetings)
    BY <1>4, <1>6
  <2> HIDE DEF Listed
  <2> QED
    BY <1>3, <1>6, <1>7, <1>8, <2>1 DEF LoadIsFresh
<1> QED
  BY <1>1, <1>9, <1>10 DEF StoryInv

\* One more meeting is read, once.
LEMMA LoadNextStory ==
  ASSUME StoryInv, LoadNext
  PROVE  StoryInv'
<1> DEFINE x == Head(play.todo)
           entry == Entry0(x)
           todo == Tail(play.todo)
           loaded == Append(play.loaded, entry)
<1>1. /\ SearchInv' /\ SearchIsFresh' /\ (Undisturbed' <=> Undisturbed)
      /\ \A y : NotesOf(y)' = NotesOf(y)
  BY SearchStays DEF LoadNext
<1>2. play' = [play EXCEPT !.todo = todo, !.loaded = loaded]
  BY DEF LoadNext, Entry0, NotesOf
<1>3. /\ play.state = "loading" /\ play.todo # <<>> /\ DOMAIN play = DOMAIN NoPlay
      /\ play.result = <<>>
      /\ shelf' = shelf /\ hunt' = hunt /\ hunt.state = "done"
  BY DEF LoadNext, StoryInv, PlayShape
<1>4. /\ play'.state = "loading" /\ play'.todo = todo /\ play'.loaded = loaded
      /\ play'.result = <<>> /\ DOMAIN play' = DOMAIN NoPlay
  <2> HIDE DEF todo, loaded
  <2> QED
    BY <1>2, <1>3 DEF NoPlay
<1>5. /\ play.todo \in Seq(Meetings)
      /\ \A k, l \in DOMAIN play.todo : play.todo[k] = play.todo[l] => k = l
      /\ play.loaded \in Seq([meeting : Meetings, notes : SUBSET Notes])
  BY <1>3 DEF StoryInv, LoadIsFresh
<1>6. /\ x \in Meetings /\ todo \in Seq(Meetings) /\ Len(todo) = Len(play.todo) - 1
      /\ Len(play.todo) \in Nat /\ Len(play.todo) > 0
      /\ \A k \in 1 .. Len(todo) : todo[k] = play.todo[k + 1]
      /\ x = play.todo[1]
  BY <1>3, <1>5
<1>7. ToSet(play.todo) = {x} \cup ToSet(todo) /\ x \notin ToSet(todo)
  <2> HIDE DEF x, todo
  <2>1. DOMAIN todo = 1 .. Len(todo) /\ DOMAIN play.todo = 1 .. Len(play.todo)
    BY <1>5, <1>6
  <2>2. ASSUME NEW k \in DOMAIN todo
        PROVE  todo[k] # x
    <3>1. /\ k \in 1 .. Len(todo) /\ k + 1 \in DOMAIN play.todo /\ 1 \in DOMAIN play.todo
          /\ k + 1 # 1
      BY <1>6, <2>1
    <3> QED
      BY <1>5, <1>6, <3>1
  <2>3. ASSUME NEW y \in ToSet(todo)
        PROVE  y \in ToSet(play.todo)
    BY <1>6, <2>1, <2>3 DEF ToSet
  <2>4. ASSUME NEW y \in ToSet(play.todo), y # x
        PROVE  y \in ToSet(todo)
    <3>1. PICK k \in DOMAIN play.todo : play.todo[k] = y
      BY <2>4 DEF ToSet
    <3>2. k - 1 \in 1 .. Len(todo) /\ todo[k - 1] = y
      BY <1>6, <2>1, <2>4, <3>1
    <3> QED
      BY <2>1, <3>2 DEF ToSet
  <2>5. x \in ToSet(play.todo)
    BY <1>6, <2>1 DEF ToSet
  <2>6. x \notin ToSet(todo)
    BY <2>2 DEF ToSet
  <2> QED
    BY <2>3, <2>4, <2>5, <2>6
<1>8. \A k, l \in DOMAIN todo : todo[k] = todo[l] => k = l
  <2> HIDE DEF todo, x
  <2> QED
    BY <1>5, <1>6
<1>9. /\ entry \in [meeting : Meetings, notes : SUBSET Notes]
      /\ entry.meeting = x /\ entry.notes = NotesOf(x) /\ NotesOf(x) \in SUBSET Notes
  <2> HIDE DEF x
  <2> QED
    BY <1>6 DEF Entry0, NotesOf, StoryInv, SearchInv, ShelfOK
<1>10. /\ loaded \in Seq([meeting : Meetings, notes : SUBSET Notes])
       /\ ToSet(loaded) = ToSet(play.loaded) \cup {entry}
  <2> HIDE DEF entry
  <2>1. /\ loaded \in Seq([meeting : Meetings, notes : SUBSET Notes])
        /\ Len(loaded) = Len(play.loaded) + 1 /\ Len(play.loaded) \in Nat
        /\ \A k \in 1 .. Len(play.loaded) : loaded[k] = play.loaded[k]
        /\ loaded[Len(play.loaded) + 1] = entry
    BY <1>5, <1>9
  <2>2. DOMAIN loaded = 1 .. Len(play.loaded) + 1 /\ DOMAIN play.loaded = 1 .. Len(play.loaded)
    BY <1>5, <2>1
  <2> HIDE DEF loaded
  <2> QED
    BY <2>1, <2>2 DEF ToSet
<1> HIDE DEF todo, loaded, entry
<1>11. LoadIsFresh'
  <2>1. /\ \A d, e \in ToSet(play.loaded) : d.meeting = e.meeting => d = e
        /\ \A d \in ToSet(play.loaded) :
             /\ d.meeting \notin ToSet(play.todo)
             /\ \A i \in d.notes : Note[i].meeting = d.meeting
    BY <1>3 DEF StoryInv, LoadIsFresh
  <2>2. \A d, e \in ToSet(loaded) : d.meeting = e.meeting => d = e
    BY <1>7, <1>9, <1>10, <2>1
  <2>3. \A d \in ToSet(loaded) :
          d.meeting \notin ToSet(todo) /\ \A i \in d.notes : Note[i].meeting = d.meeting
    BY <1>7, <1>9, <1>10, <2>1 DEF NotesOf
  <2>4. ASSUME Undisturbed
        PROVE  /\ shelf.meetings = ToSet(todo) \cup {d.meeting : d \in ToSet(loaded)}
               /\ \A d \in ToSet(loaded) : d = Entry0(d.meeting)
    <3>1. /\ shelf.meetings = ToSet(play.todo) \cup {d.meeting : d \in ToSet(play.loaded)}
          /\ \A d \in ToSet(play.loaded) : d = Entry0(d.meeting)
      BY <1>3, <2>4 DEF StoryInv, LoadIsFresh
    <3>2. {d.meeting : d \in ToSet(loaded)} = {x} \cup {d.meeting : d \in ToSet(play.loaded)}
      BY <1>9, <1>10
    <3>3. entry = Entry0(entry.meeting)
      BY <1>9 DEF entry
    <3> QED
      BY <1>7, <1>10, <3>1, <3>2, <3>3
  <2>5. \A y : Entry0(y)' = Entry0(y)
    BY <1>1 DEF Entry0
  <2>6. /\ Undisturbed' <=> Undisturbed
        /\ shelf' = shelf
    BY <1>1, <1>3
  <2>7. ASSUME Undisturbed'
        PROVE  /\ shelf'.meetings = ToSet(play'.todo) \cup {d.meeting : d \in ToSet(play'.loaded)}
               /\ \A d \in ToSet(play'.loaded) : d = Entry0(d.meeting)'
    BY <1>4, <2>4, <2>5, <2>6, <2>7
  <2> QED
    BY <1>4, <1>6, <1>8, <1>10, <2>2, <2>3, <2>7 DEF LoadIsFresh
<1>12. PlayShape' /\ TimelineIsFresh'
  BY <1>3, <1>4 DEF PlayShape, TimelineIsFresh
<1> QED
  BY <1>1, <1>11, <1>12 DEF StoryInv

\* The events are what was loaded and selected, in order, each with its memories.
LEMMA BuildTimelineStory ==
  ASSUME StoryInv, BuildTimeline
  PROVE  StoryInv'
<1> DEFINE entries == {e \in ToSet(play.loaded) : Selected(e, play.filter)}
           selected == InOrder(entries)
           upto(n) == UNION {selected[k].notes : k \in 1 .. n}
           events == [n \in DOMAIN selected |->
                        [meeting |-> selected[n].meeting, notes |-> Spoken(selected[n].notes),
                         cumulative |-> Cardinality(upto(n)), by_type |-> TypeCounts(upto(n))]]
<1>1. /\ SearchInv' /\ SearchIsFresh' /\ (Undisturbed' <=> Undisturbed)
      /\ \A y : NotesOf(y)' = NotesOf(y)
  BY SearchStays DEF BuildTimeline
<1>2. play' = [play EXCEPT !.state = "ready", !.loaded = <<>>, !.events = events]
  BY DEF BuildTimeline
<1>3. /\ play.state = "loading" /\ play.todo = <<>> /\ DOMAIN play = DOMAIN NoPlay
      /\ play.result = <<>> /\ shelf' = shelf /\ hunt' = hunt /\ hunt.state = "done"
  BY DEF BuildTimeline, StoryInv, PlayShape
<1>4. /\ play'.state = "ready" /\ play'.events = events /\ play'.filter = play.filter
      /\ play'.result = <<>> /\ DOMAIN play' = DOMAIN NoPlay
  <2> HIDE DEF events
  <2> QED
    BY <1>2, <1>3 DEF NoPlay
<1>5. /\ play.loaded \in Seq([meeting : Meetings, notes : SUBSET Notes])
      /\ \A d, e \in ToSet(play.loaded) : d.meeting = e.meeting => d = e
      /\ \A d \in ToSet(play.loaded) : \A i \in d.notes : Note[i].meeting = d.meeting
  BY <1>3 DEF StoryInv, LoadIsFresh
<1>6. ASSUME NEW d \in ToSet(play.loaded)
      PROVE  d.meeting \in Meetings /\ d.notes \in SUBSET Notes
  <2>1. PICK k \in DOMAIN play.loaded : play.loaded[k] = d
    BY <1>6 DEF ToSet
  <2> DEFINE Entry == [meeting : Meetings, notes : SUBSET Notes]
  <2>2. d \in Entry
    <3>1. play.loaded \in Seq(Entry)
      BY <1>5
    <3> HIDE DEF Entry
    <3> QED
      BY <2>1, <3>1
  <2> QED
    BY <2>2
<1>7. IsFiniteSet(entries)
  <2> HIDE DEF entries
  <2>1. entries \subseteq ToSet(play.loaded)
    BY DEF entries
  <2>2. [e \in entries |-> e.meeting] \in Injection(entries, Meetings)
    BY <1>5, <1>6, <2>1 DEF Injection, IsInjective
  <2> QED
    BY <2>2, RecordsAssumption, FS_Injection DEF Meetings
<1>8. \A d \in entries : d \in ToSet(play.loaded) /\ Selected(d, play.filter)
  OBVIOUS
<1>9. PICK m \in Nat :
        /\ selected \in [1 .. m -> entries]
        /\ \A k, l \in 1 .. m : k < l => Dated(selected[k], selected[l])
        /\ \A e \in entries : \E k \in 1 .. m : selected[k] = e
  <2> HIDE DEF entries
  <2> QED
    BY <1>5, <1>6, <1>7, <1>8, InOrderIsOrder
<1> HIDE DEF entries, selected
<1>10. /\ DOMAIN selected = 1 .. m /\ DOMAIN events = 1 .. m
       /\ \A n \in 1 .. m :
            /\ selected[n] \in entries
            /\ events[n].meeting = selected[n].meeting
            /\ events[n].notes = Spoken(selected[n].notes)
            /\ events[n].by_type = TypeCounts(upto(n))
  BY <1>9
<1> HIDE DEF events
<1>11. ASSUME NEW n \in 1 .. m
       PROVE  /\ \E q \in Nat : DOMAIN events[n].notes = 1 .. q
              /\ \A k \in DOMAIN events[n].notes : events[n].notes[k] \in selected[n].notes
              /\ \A k, l \in DOMAIN events[n].notes :
                   k < l => Said(events[n].notes[k], events[n].notes[l])
              /\ ToSet(events[n].notes) = selected[n].notes
  <2> DEFINE notes == selected[n].notes
  <2>1. notes \in SUBSET Notes
    BY <1>6, <1>8, <1>10
  <2> HIDE DEF notes
  <2>2. PICK q \in Nat :
          /\ Spoken(notes) \in [1 .. q -> notes]
          /\ \A k, l \in 1 .. q : k < l => Said(Spoken(notes)[k], Spoken(notes)[l])
          /\ \A i \in notes : \E k \in 1 .. q : Spoken(notes)[k] = i
    BY <2>1, SpokenIsOrder
  <2>3. events[n].notes = Spoken(notes)
    BY <1>10 DEF notes
  <2>4. DOMAIN Spoken(notes) = 1 .. q
    BY <2>2
  <2>5. \A i : i \in ToSet(Spoken(notes)) <=> i \in notes
    BY <2>2, <2>4 DEF ToSet
  <2> QED
    BY <2>2, <2>3, <2>4, <2>5 DEF notes
<1>12. EventsInOrder(events)
  <2>1. IsASequence(events)
    <3>1. events \in [1 .. m -> {events[k] : k \in DOMAIN events}]
      BY <1>10 DEF events
    <3> QED
      BY <3>1 DEF IsASequence
  <2>2. ASSUME NEW n \in 1 .. m
        PROVE  /\ events[n].meeting \in Meetings
               /\ \A k \in DOMAIN events[n].notes :
                    /\ events[n].notes[k] \in Notes
                    /\ Note[events[n].notes[k]].meeting = events[n].meeting
    <3>1. selected[n] \in ToSet(play.loaded) /\ events[n].meeting = selected[n].meeting
      BY <1>8, <1>10
    <3>2. /\ selected[n].meeting \in Meetings /\ selected[n].notes \in SUBSET Notes
          /\ \A i \in selected[n].notes : Note[i].meeting = selected[n].meeting
      BY <1>5, <1>6, <3>1
    <3>3. \A k \in DOMAIN events[n].notes : events[n].notes[k] \in selected[n].notes
      BY <1>11
    <3> QED
      BY <3>1, <3>2, <3>3
  <2>3. ASSUME NEW n \in 1 .. m
        PROVE  events[n].by_type = TypeCounts(UNION {ToSet(events[k].notes) : k \in 1 .. n})
    <3>1. \A k \in 1 .. n : ToSet(events[k].notes) = selected[k].notes
      BY <1>11
    <3>2. UNION {ToSet(events[k].notes) : k \in 1 .. n} = UNION {selected[k].notes : k \in 1 .. n}
      BY <3>1
    <3> QED
      BY <1>10, <3>2
  <2>4. ASSUME NEW k \in 1 .. m, NEW l \in 1 .. m, k < l
        PROVE  Dated(events[k], events[l])
    <3>1. /\ Dated(selected[k], selected[l])
          /\ events[k].meeting = selected[k].meeting /\ events[l].meeting = selected[l].meeting
      BY <1>9, <1>10, <2>4
    <3> QED
      BY <3>1 DEF Dated
  <2> QED
    BY <1>10, <1>11, <2>1, <2>2, <2>3, <2>4 DEF EventsInOrder
<1>13. ASSUME Undisturbed
       PROVE  EventsComplete(events, play.filter)
  <2>1. /\ shelf.meetings = ToSet(<<>>) \cup {d.meeting : d \in ToSet(play.loaded)}
        /\ \A d \in ToSet(play.loaded) : d = Entry0(d.meeting)
    BY <1>3, <1>13 DEF StoryInv, LoadIsFresh
  <2>2. shelf.meetings = {d.meeting : d \in ToSet(play.loaded)}
    BY <2>1 DEF ToSet
  <2>3. ASSUME NEW n \in 1 .. m
        PROVE  /\ events[n].meeting \in shelf.meetings
               /\ ToSet(events[n].notes) = NotesOf(events[n].meeting)
               /\ Selected(Entry0(events[n].meeting), play.filter)
    <3>1. /\ selected[n] \in ToSet(play.loaded) /\ Selected(selected[n], play.filter)
          /\ events[n].meeting = selected[n].meeting
      BY <1>8, <1>10
    <3>2. selected[n] = Entry0(events[n].meeting)
      BY <2>1, <3>1
    <3>3. selected[n].notes = NotesOf(events[n].meeting)
      BY <3>2 DEF Entry0
    <3> QED
      BY <1>11, <2>2, <3>1, <3>2, <3>3
  <2>4. ASSUME NEW x \in shelf.meetings, Selected(Entry0(x), play.filter)
        PROVE  \E n \in DOMAIN events : events[n].meeting = x
    <3>1. PICK d \in ToSet(play.loaded) : d.meeting = x
      BY <2>2
    <3>2. d \in entries
      BY <2>1, <2>4, <3>1 DEF entries
    <3> QED
      BY <1>9, <1>10, <3>1, <3>2
  <2> QED
    BY <1>10, <2>3, <2>4 DEF EventsComplete
<1>14. Undisturbed' => EventsComplete(play.events, play.filter)'
  <2>1. \A y : Entry0(y)' = Entry0(y)
    BY <1>1 DEF Entry0
  <2> QED
    BY <1>1, <1>3, <1>4, <1>13, <2>1 DEF EventsComplete
<1>15. TimelineIsFresh'
  BY <1>4, <1>12, <1>14 DEF TimelineIsFresh
<1>16. PlayShape' /\ LoadIsFresh'
  BY <1>3, <1>4 DEF PlayShape, LoadIsFresh
<1> QED
  BY <1>1, <1>15, <1>16 DEF StoryInv

\* A session moves its playhead; a finished run reports the tally of the last
\* event, which is that of all.
LEMMA MoveStory ==
  ASSUME StoryInv, Step \/ Seek \/ Rewind \/ PlayAll
  PROVE  StoryInv'
<1>1. UNCHANGED <<shelf, writes, hunt>> /\ Move
  BY DEF Step, Seek, Rewind, PlayAll
<1>2. /\ SearchInv' /\ SearchIsFresh' /\ (Undisturbed' <=> Undisturbed)
      /\ \A y : NotesOf(y)' = NotesOf(y)
  BY <1>1, SearchStays
<1>3. DOMAIN play = DOMAIN NoPlay /\ play.state = "ready" /\ hunt.state = "done"
  BY <1>1 DEF Move, StoryInv, PlayShape
<1> DEFINE n == Len(play.events)
           final == IF n = 0 THEN TypeCounts({}) ELSE play.events[n].by_type
<1>4. PICK position, moves, result :
        /\ play' = [play EXCEPT !.position = position, !.moves = moves, !.result = result]
        /\ result = <<>> \/ result = <<[played |-> n, final |-> final]>>
  <2> HIDE DEF n, final
  <2>1. ASSUME Step
        PROVE  play' = [play EXCEPT !.position = play.position + 1, !.moves = play.moves + 1, !.result = <<>>]
    BY <2>1 DEF Step
  <2>2. ASSUME Seek
        PROVE  \E k : play' = [play EXCEPT !.position = k, !.moves = play.moves + 1, !.result = <<>>]
    BY <2>2 DEF Seek
  <2>3. ASSUME Rewind
        PROVE  play' = [play EXCEPT !.position = 0, !.moves = play.moves + 1, !.result = <<>>]
    BY <2>3 DEF Rewind
  <2>4. ASSUME PlayAll
        PROVE  play' = [play EXCEPT !.position = n, !.moves = play.moves + 1,
                                    !.result = <<[played |-> n, final |-> final]>>]
    BY <2>4 DEF PlayAll, n, final
  <2> QED
    BY <2>1, <2>2, <2>3, <2>4
<1> HIDE DEF final
<1>5. /\ play'.state = "ready" /\ play'.events = play.events /\ play'.filter = play.filter
      /\ play'.result = result /\ DOMAIN play' = DOMAIN NoPlay
  BY <1>3, <1>4 DEF NoPlay
<1>6. EventsInOrder(play.events)
  BY <1>3 DEF StoryInv, TimelineIsFresh
<1>7. final = TypeCounts(Told)
  <2> DEFINE notes(k) == ToSet(play.events[k].notes)
  <2>1. n \in Nat /\ DOMAIN play.events = 1 .. n
    BY <1>6 DEF EventsInOrder, IsASequence
  <2>2. Told = UNION {notes(k) : k \in 1 .. n}
    BY <2>1 DEF Told
  <2>3. CASE n = 0
    <3>1. 1 .. 0 = {}
      OBVIOUS
    <3>2. Told = {}
      BY <2>2, <2>3, <3>1
    <3> HIDE DEF n
    <3> QED
      BY <2>3, <3>2 DEF final
  <2>4. CASE n # 0
    <3>1. n \in DOMAIN play.events
      BY <2>1, <2>4
    <3> HIDE DEF n
    <3>2. play.events[n].by_type = TypeCounts(UNION {notes(k) : k \in 1 .. n})
      BY <1>6, <3>1 DEF EventsInOrder
    <3> QED
      BY <2>2, <2>4, <3>2 DEF final, n
  <2> QED
    BY <2>3, <2>4
<1>8. Told' = Told
  BY <1>5 DEF Told
<1>9. \A k \in DOMAIN result : result[k].final = TypeCounts(Told)
  <2> HIDE DEF n
  <2> QED
    BY <1>4, <1>7
<1>10. Undisturbed' => EventsComplete(play.events, play.filter)'
  <2>1. \A y : Entry0(y)' = Entry0(y)
    BY <1>2 DEF Entry0
  <2>2. Undisturbed' => EventsComplete(play.events, play.filter)
    BY <1>2, <1>3 DEF StoryInv, TimelineIsFresh
  <2> QED
    BY <1>1, <1>2, <1>5, <2>1, <2>2 DEF EventsComplete
<1>11. PlayShape' /\ LoadIsFresh' /\ TimelineIsFresh'
  BY <1>1, <1>3, <1>5, <1>6, <1>8, <1>9, <1>10 DEF PlayShape, LoadIsFresh, TimelineIsFresh
<1> QED
  BY <1>2, <1>11 DEF StoryInv

LEMMA StoryStep == StoryInv /\ [ReplayNext]_replayVars => StoryInv'
<1> SUFFICES ASSUME StoryInv, [ReplayNext]_replayVars  PROVE StoryInv'
  OBVIOUS
<1>1. CASE SearchNext
  <2>1. ASSUME NEW e \in Errand, ListKnown(e.query)
        PROVE  StoryInv'
    BY <1>1, <2>1, ListKnownStory DEF SearchNext
  <2> QED
    BY <1>1, <2>1, PlanQueryStory, RankStory, QuoteStory, ReturnStory DEF SearchNext
<1>2. CASE WriterNext /\ play.state # "ready" /\ UNCHANGED play
  BY <1>2, WriterStory
<1>3. CASE UNCHANGED replayVars
  <2>1. /\ SearchInv' /\ SearchIsFresh' /\ (Undisturbed' <=> Undisturbed)
        /\ \A y : NotesOf(y)' = NotesOf(y)
    BY <1>3, SearchStays DEF replayVars
  <2>2. \A y : Entry0(y)' = Entry0(y)
    BY <2>1 DEF Entry0
  <2>3. PlayShape' /\ LoadIsFresh'
    BY <1>3, <2>1, <2>2 DEF replayVars, StoryInv, PlayShape, LoadIsFresh
  <2>4. TimelineIsFresh'
    BY <1>3, <2>1, <2>2 DEF replayVars, StoryInv, TimelineIsFresh, EventsComplete, Told
  <2> QED
    BY <2>1, <2>3, <2>4 DEF StoryInv
<1> QED
  BY <1>1, <1>2, <1>3, StartLoadStory, LoadNextStory, BuildTimelineStory, MoveStory DEF ReplayNext

LEMMA StoryInvariance == ReplaySpec => []StoryInv
BY StoryInitInv, StoryStep, PTL DEF ReplaySpec

------------------------------------------------------------------------------
(* Replay: the agreement *)
\* An event that is complete tells every memory of its meeting.
LEMMA ToldInFull ==
  ASSUME EventsComplete(play.events, play.filter), SearchIsFresh,
         NEW i \in shelf.notes, Selected(Entry0(Note[i].meeting), play.filter)
  PROVE  i \in Told
<1>1. Note[i].meeting \in shelf.meetings
  BY DEF SearchIsFresh
<1>2. PICK n \in DOMAIN play.events : play.events[n].meeting = Note[i].meeting
  BY <1>1 DEF EventsComplete
<1>3. i \in ToSet(play.events[n].notes)
  BY <1>2 DEF EventsComplete, NotesOf
<1> QED
  BY <1>3 DEF Told

\* A search for a range of dates and a replay of it choose the same memories.
LEMMA RangeIsSelected ==
  ASSUME SameRange, hunt.applied = hunt.query, NEW i \in shelf.notes
  PROVE  i \in Hits <=> Selected(Entry0(Note[i].meeting), play.filter)
<1> DEFINE q == hunt.applied
           from == play.filter.from
           to == play.filter.to
           date == Sitting[Note[i].meeting].date
<1>1. /\ q.text = <<>> /\ q.types = {} /\ q.statuses = {} /\ q.speakers = {} /\ q.participants = {}
      /\ q.months = {} /\ q.meetings = {} /\ q.low = Unset /\ q.high = Unset
      /\ q.from = from /\ q.to = to
  BY DEF SameRange, Timeline, Anything
<1>2. play.filter = ReplayRange(from, to)
  BY DEF SameRange
<1>3. /\ play.filter.on = Unset /\ play.filter.project = Nobody /\ play.filter.person = Nobody
  BY <1>2 DEF ReplayRange, EveryMeeting
<1>4. ToSet(<<>>) = {}
  BY DEF ToSet
<1>5. Matches(i, q, hunt.meetings)
  BY <1>1, <1>4 DEF Matches
<1>6. i \in Rows(q) <=> ((from # Unset \/ to # Unset) => date # 0 /\ InRange(from, date, to))
  <2> HIDE DEF from, to
  <2> QED
    BY <1>1 DEF Rows, AskedOr, InRange
<1>7. Entry0(Note[i].meeting).meeting = Note[i].meeting
  BY DEF Entry0
<1>8. Selected(Entry0(Note[i].meeting), play.filter) <=>
        /\ from # Unset => date # 0 /\ date >= from
        /\ to # Unset => date # 0 /\ date <= to
  BY <1>3, <1>7 DEF Selected
<1> QED
  BY <1>5, <1>6, <1>8 DEF Hits, InRange

\* TimelinesAgree: a search by date and a replay of the range read the same rows
\* and put them in the same order (engine.py of retrieval and of replay), and the
\* final tally of a run is that of its last event.
THEOREM TimelinesTellTheSame == ReplaySpec => []TimelinesAgree
<1> SUFFICES StoryInv => TimelinesAgree
  BY StoryInvariance, PTL
<1> SUFFICES ASSUME StoryInv, play.state = "ready"  PROVE TimelinesAgree
  BY DEF TimelinesAgree
<1> DEFINE events == play.events
           ranked == hunt.ranked
<1>1. /\ hunt.state = "done" /\ SearchIsFresh /\ EventsInOrder(events)
      /\ Undisturbed => EventsComplete(events, play.filter) /\ ToSet(ranked) = Hits
                        /\ hunt.meetings = shelf.meetings
      /\ \A k \in DOMAIN play.result : play.result[k].final = TypeCounts(Told)
  BY DEF StoryInv, PlayShape, TimelineIsFresh, SearchIsFresh
<1>2. ASSUME NEW n \in DOMAIN events, NEW k \in DOMAIN events[n].notes
      PROVE  /\ events[n].meeting \in Meetings /\ events[n].notes[k] \in Notes
             /\ Note[events[n].notes[k]].meeting = events[n].meeting
  BY <1>1 DEF EventsInOrder
<1>3. ASSUME Undisturbed, DatesDiffer, SameRange
      PROVE  SameStory
  <2>1. hunt.applied = hunt.query /\ hunt.query.order = "chronological"
    BY <1>1, <1>3 DEF SearchIsFresh, SameRange, Timeline, Anything
  <2>2. \A i \in shelf.notes : i \in Hits <=> Selected(Entry0(Note[i].meeting), play.filter)
    BY <1>3, <2>1, RangeIsSelected
  <2>3. Hits \subseteq Told
    <3>1. Hits \subseteq shelf.notes
      BY DEF Hits, Rows
    <3> QED
      BY <1>1, <1>3, <2>2, <3>1, ToldInFull
  <2>4. ASSUME NEW i \in Told
        PROVE  i \in Hits
    <3>1. PICK n \in DOMAIN events : i \in ToSet(events[n].notes)
      BY DEF Told
    <3>2. i \in NotesOf(events[n].meeting) /\ Selected(Entry0(events[n].meeting), play.filter)
      BY <1>1, <1>3, <3>1 DEF EventsComplete
    <3> QED
      BY <2>2, <3>2 DEF NotesOf
  <2>5. ASSUME NEW i, ToldBefore(i, i)
        PROVE  FALSE
    <3>1. PICK m \in DOMAIN events, n \in DOMAIN events :
            \E k \in DOMAIN events[m].notes, l \in DOMAIN events[n].notes :
              /\ events[m].notes[k] = i /\ events[n].notes[l] = i
              /\ m < n \/ (m = n /\ k < l)
      BY <2>5 DEF ToldBefore
    <3>2. PICK k \in DOMAIN events[m].notes, l \in DOMAIN events[n].notes :
            /\ events[m].notes[k] = i /\ events[n].notes[l] = i
            /\ m < n \/ (m = n /\ k < l)
      BY <3>1
    <3>3. /\ events[m].meeting \in Meetings /\ i \in Notes
          /\ Note[i].meeting = events[m].meeting /\ Note[i].meeting = events[n].meeting
      BY <1>2, <3>2
    <3>4. CASE m < n
      <4>1. Dated(events[m], events[n])
        BY <1>1, <3>4 DEF EventsInOrder
      <4> QED
        BY <3>3, <4>1, SittingTypes DEF Dated
    <3>5. CASE m = n /\ k < l
      <4>1. Said(i, i)
        BY <1>1, <3>2, <3>5 DEF EventsInOrder
      <4> QED
        BY <3>3, <4>1, NoteTypes DEF Said
    <3> QED
      BY <3>2, <3>4, <3>5
  <2>6. ASSUME NEW k \in DOMAIN ranked, NEW l \in DOMAIN ranked, k < l
        PROVE  ToldBefore(ranked[k], ranked[l])
    <3> DEFINE i == ranked[k]
               j == ranked[l]
    <3>1. ByTime(hunt.meetings, i, j)
      BY <1>1, <2>1, <2>6 DEF SearchIsFresh
    <3>2. i \in Told /\ j \in Told
      BY <1>1, <1>3, <2>3 DEF ToSet
    <3> HIDE DEF i, j
    <3>3. PICK m \in DOMAIN events : i \in ToSet(events[m].notes)
      BY <3>2 DEF Told
    <3>4. PICK n \in DOMAIN events : j \in ToSet(events[n].notes)
      BY <3>2 DEF Told
    <3>5. PICK a \in DOMAIN events[m].notes : events[m].notes[a] = i
      BY <3>3 DEF ToSet
    <3>6. PICK b \in DOMAIN events[n].notes : events[n].notes[b] = j
      BY <3>4 DEF ToSet
    <3> DEFINE x == events[m].meeting
               y == events[n].meeting
    <3>7. /\ i \in Notes /\ j \in Notes /\ x \in Meetings /\ y \in Meetings
          /\ Note[i].meeting = x /\ Note[j].meeting = y
      BY <1>2, <3>5, <3>6
    <3>8. x \in hunt.meetings /\ y \in hunt.meetings
      BY <1>1, <1>3 DEF EventsComplete
    <3>9. /\ i \in Int /\ j \in Int /\ x \in Int /\ y \in Int
          /\ Note[i].index \in Nat /\ Note[j].index \in Nat
          /\ Sitting[x].date \in Nat /\ Sitting[y].date \in Nat
      BY <3>7, NoteTypes, SittingTypes
    <3>10. \/ Sitting[x].date < Sitting[y].date
           \/ Sitting[x].date = Sitting[y].date /\ Said(i, j)
      BY <3>1, <3>7, <3>8 DEF ByTime, DateIn, Said
    <3>11. m \in Int /\ n \in Int /\ a \in Int /\ b \in Int
      <4>1. events \in Seq({events[h] : h \in DOMAIN events})
        BY <1>1 DEF EventsInOrder, IsASequence
      <4>2. DOMAIN events = 1 .. Len(events) /\ Len(events) \in Nat
        <5> DEFINE all == {events[h] : h \in DOMAIN events}
        <5>1. events \in Seq(all)
          BY <4>1
        <5> HIDE DEF all
        <5> QED
          BY <5>1
      <4>3. /\ \E h \in Nat : DOMAIN events[m].notes = 1 .. h
            /\ \E h \in Nat : DOMAIN events[n].notes = 1 .. h
        BY <1>1 DEF EventsInOrder
      <4> QED
        BY <4>2, <4>3
    <3>12. ~ n < m
      <4>1. SUFFICES ASSUME n < m  PROVE FALSE
        OBVIOUS
      <4>2. Dated(events[n], events[m])
        BY <1>1, <4>1 DEF EventsInOrder
      <4>3. Sitting[x].date = Sitting[y].date
        BY <3>9, <3>10, <4>2 DEF Dated
      <4>4. x = y
        BY <1>3, <3>8, <4>3 DEF DatesDiffer
      <4> QED
        BY <3>9, <4>2, <4>4 DEF Dated
    <3>13. ASSUME m = n
           PROVE  a < b
      <4>1. Said(i, j)
        BY <3>9, <3>10, <3>13
      <4>2. ~ b < a
        <5>1. ASSUME b < a
              PROVE  Said(j, i)
          BY <1>1, <3>5, <3>6, <3>13, <5>1 DEF EventsInOrder
        <5> QED
          BY <3>9, <4>1, <5>1 DEF Said
      <4>3. a # b
        BY <3>5, <3>6, <3>9, <3>13, <4>1 DEF Said
      <4> QED
        BY <3>11, <4>2, <4>3
    <3>14. m < n \/ (m = n /\ a < b)
      BY <3>11, <3>12, <3>13
    <3>15. ToldBefore(i, j)
      BY <3>5, <3>6, <3>14 DEF ToldBefore
    <3> QED
      BY <3>15 DEF i, j
  <2> QED
    BY <1>1, <1>3, <2>3, <2>4, <2>5, <2>6 DEF SameStory
<1>4. ASSUME Undisturbed, NEW i \in ToSet(ranked),
             \/ play.filter = ReplayPerson(play.filter.person)
                  /\ hunt.applied.speakers = {play.filter.person}
             \/ play.filter = ReplayProject(play.filter.project)
                  /\ play.filter.project \in ToSet(Note[i].said)
      PROVE  i \in Told
  <2>1. i \in shelf.notes /\ AskedOr(hunt.applied.speakers, Note[i].speaker)
    BY <1>1, <1>4 DEF Hits, Rows
  <2>2. i \in Entry0(Note[i].meeting).notes
    BY <2>1 DEF Entry0, NotesOf
  <2>3. Selected(Entry0(Note[i].meeting), play.filter)
    <3>1. CASE /\ play.filter = ReplayPerson(play.filter.person)
               /\ hunt.applied.speakers = {play.filter.person}
      <4>1. Note[i].speaker = play.filter.person
        BY <2>1, <3>1 DEF AskedOr
      <4>2. /\ play.filter.on = Unset /\ play.filter.from = Unset /\ play.filter.to = Unset
            /\ play.filter.project = Nobody
        BY <3>1 DEF ReplayPerson, EveryMeeting
      <4> QED
        BY <2>2, <4>1, <4>2 DEF Selected
    <3>2. CASE /\ play.filter = ReplayProject(play.filter.project)
               /\ play.filter.project \in ToSet(Note[i].said)
      <4>1. /\ play.filter.on = Unset /\ play.filter.from = Unset /\ play.filter.to = Unset
            /\ play.filter.person = Nobody
        BY <3>2 DEF ReplayProject, EveryMeeting
      <4> QED
        BY <2>2, <3>2, <4>1 DEF Selected
    <3> QED
      BY <1>4, <3>1, <3>2
  <2> QED
    BY <1>1, <1>4, <2>1, <2>3, ToldInFull
<1> QED
  BY <1>1, <1>3, <1>4 DEF TimelinesAgree
==============================================================================
