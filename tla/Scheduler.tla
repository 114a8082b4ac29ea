------------------------------ MODULE Scheduler ------------------------------
(***************************************************************************)
(* connectors/scheduler.py: simulate lists the next runs of a schedule,    *)
(* each the next_run after the one before.  A cron expression is searched  *)
(* for by jumping over months, days, hours and minutes that cannot match.  *)
(*                                                                         *)
(* A moment is a minute.  Every frequency but `once` drops the seconds of  *)
(* the moment it starts from; `once` compares whole moments.  The calendar *)
(* is a parameter: what it says of each minute, and where the next hour,   *)
(* day and month begin.  A cron token is what its text denotes.            *)
(***************************************************************************)
EXTENDS Integers, Sequences

CONSTANTS
  NULL,
  LastMinute,       \* bound: the last minute of the calendar
  MinuteOf, HourOf, DayOf, MonthOf,   \* minute -> field, as cron counts it
  WeekdayOf,                          \* minute -> 0 for Monday .. 6 for Sunday
  NextHour, NextDay, NextMonth,       \* minute -> where the next one begins
  FieldBounds,      \* the lowest and highest value of each of the five fields
  Horizon,          \* how many minutes ahead cron_next looks
  Schedule,         \* the schedules asked about
  Starts,           \* the moments `start` simulate is called with
  Counts            \* the values of its `count`

Time == 0 .. LastMinute
Frequency == {"manual", "once", "hourly", "daily", "weekly", "cron"}

\* A unit of the calendar lasts until the next one begins.
Lasts(next, fields) ==
  \A t, u \in Time :
    /\ t < next[t]
    /\ t <= u /\ u < next[t] => next[u] = next[t] /\ \A f \in fields : f[u] = f[t]

ASSUME CalendarAssumption ==
  /\ LastMinute \in Nat
  /\ Horizon \in Nat
  /\ \A f \in {MinuteOf, HourOf, DayOf, MonthOf, WeekdayOf, NextHour, NextDay, NextMonth} :
       f \in [Time -> Nat]
  /\ Lasts(NextHour, {HourOf, DayOf, WeekdayOf, MonthOf})
  /\ Lasts(NextDay, {DayOf, WeekdayOf, MonthOf})
  /\ Lasts(NextMonth, {MonthOf})

ASSUME CallAssumption ==
  /\ Starts \subseteq [minute : Time, aware : BOOLEAN]
  /\ Counts \subseteq Int
  /\ \A s \in Schedule : s.frequency \in Frequency

VARIABLES
  schedule, start, count,   \* the arguments of simulate
  runs,                     \* the run times listed so far
  cursor,                   \* the moment next_run is asked about
  candidate,                \* the minute that cron_next or _next_weekly looks at
  state                     \* "ask", "cron", "weekly", "done", "ScheduleError", "TypeError"

schedulerVars == <<schedule, start, count, runs, cursor, candidate, state>>

------------------------------------------------------------------------------
(* Cron expressions: a sequence of fields, each a sequence of tokens        *)
(* [any, from, to, slash, step].  A token whose text is no number is one    *)
(* with step 0: both raise ScheduleError.                                   *)
LowEnd(token, bounds) == IF token.any THEN bounds[1] ELSE token.from
HighEnd(token, bounds) == IF token.any THEN bounds[2] ELSE token.to

BadToken(token, bounds) ==
  \/ token.step <= 0
  \/ LowEnd(token, bounds) < bounds[1]
  \/ HighEnd(token, bounds) > bounds[2]
  \/ LowEnd(token, bounds) > HighEnd(token, bounds)

TokenValues(token, bounds) ==
  {v \in LowEnd(token, bounds) .. HighEnd(token, bounds) :
     (v - LowEnd(token, bounds)) % token.step = 0}

Star == [any |-> TRUE, from |-> 0, to |-> 0, slash |-> FALSE, step |-> 1]

Parses(expression) ==
  /\ expression # NULL
  /\ Len(expression) = 5
  /\ \A i \in 1 .. 5 : \A k \in DOMAIN expression[i] :
       ~BadToken(expression[i][k], FieldBounds[i])

Values(expression, i) ==
  UNION {TokenValues(expression[i][k], FieldBounds[i]) : k \in DOMAIN expression[i]}

Wildcard(expression, i) == expression[i] = <<Star>>

\* Day of month and day of week: either will do if both are restricted.
DayMatches(expression, t) ==
  LET onDate == DayOf[t] \in Values(expression, 3)
      onWeekday == (WeekdayOf[t] + 1) % 7 \in Values(expression, 5)
  IN  \/ Wildcard(expression, 3) /\ Wildcard(expression, 5)
      \/ ~Wildcard(expression, 3) /\ onDate
      \/ ~Wildcard(expression, 5) /\ onWeekday

MonthMatches(expression, t) == MonthOf[t] \in Values(expression, 4)
HourMatches(expression, t) == HourOf[t] \in Values(expression, 2)
MinuteMatches(expression, t) == MinuteOf[t] \in Values(expression, 1)

------------------------------------------------------------------------------
SchedulerInit ==
  /\ schedule \in Schedule
  /\ start \in Starts
  /\ count \in Counts
  /\ runs = <<>>
  /\ cursor = start.minute
  /\ candidate = start.minute
  /\ state = "ask"

Asked(frequency) ==
  /\ state = "ask"
  /\ Len(runs) < count
  /\ schedule.frequency = frequency

\* next_run returns `moment`; simulate goes on from there.  The calendar's
\* end bounds how far.
Lists(moment) ==
  /\ moment \in Time
  /\ runs' = Append(runs, moment)
  /\ cursor' = moment
  /\ state' = "ask"

Ends(outcome) ==
  /\ state' = outcome
  /\ UNCHANGED <<runs, cursor, candidate>>

AskManual == Asked("manual") /\ Ends("done")

\* A moment with a timezone cannot be compared with one that has none.
AskOnce ==
  /\ Asked("once")
  /\ \/ schedule.at = NULL /\ Lists(cursor) /\ UNCHANGED candidate
     \/ /\ schedule.at # NULL
        /\ \/ ~schedule.at.valid /\ Ends("ScheduleError")
           \/ /\ schedule.at.valid
              /\ schedule.at.aware # start.aware
              /\ Ends("TypeError")
           \/ /\ schedule.at.valid
              /\ schedule.at.aware = start.aware
              /\ \/ /\ schedule.at.minute > cursor
                    /\ Lists(schedule.at.minute)
                    /\ UNCHANGED candidate
                 \/ schedule.at.minute <= cursor /\ Ends("done")

AskHourly == Asked("hourly") /\ Lists(NextHour[cursor]) /\ UNCHANGED candidate
AskDaily == Asked("daily") /\ Lists(NextDay[cursor]) /\ UNCHANGED candidate

\* _next_weekly: midnights from tomorrow on, up to the first Monday.
AskWeekly ==
  /\ Asked("weekly")
  /\ state' = "weekly"
  /\ candidate' = NextDay[cursor]
  /\ UNCHANGED <<runs, cursor>>

NextWeekly ==
  /\ state = "weekly"
  /\ candidate \in Time
  /\ \/ /\ WeekdayOf[candidate] # 0
        /\ candidate' = NextDay[candidate]
        /\ UNCHANGED <<runs, cursor, state>>
     \/ WeekdayOf[candidate] = 0 /\ Lists(candidate) /\ UNCHANGED candidate

\* Mutant of AskCron: the search begins with the moment itself.
AskCron_FromCursor ==
  /\ Asked("cron")
  /\ \/ ~Parses(schedule.expression) /\ Ends("ScheduleError")
     \/ /\ Parses(schedule.expression)
        /\ cursor + Horizon <= LastMinute
        /\ state' = "cron"
        /\ candidate' = cursor
        /\ UNCHANGED <<runs, cursor>>

\* cron_next: the search begins with the minute after.
AskCron ==
  /\ Asked("cron")
  /\ \/ ~Parses(schedule.expression) /\ Ends("ScheduleError")
     \/ /\ Parses(schedule.expression)
        /\ cursor + Horizon <= LastMinute
        /\ state' = "cron"
        /\ candidate' = cursor + 1
        /\ UNCHANGED <<runs, cursor>>

Searching == state = "cron" /\ candidate <= cursor + Horizon
Jump(to) == candidate' = to /\ UNCHANGED <<runs, cursor, state>>

SkipMonth ==
  /\ Searching
  /\ ~MonthMatches(schedule.expression, candidate)
  /\ Jump(NextMonth[candidate])

\* Mutant of SkipDay: a whole day is added, and the time of day kept.
SkipDay_KeepsHour ==
  /\ Searching
  /\ MonthMatches(schedule.expression, candidate)
  /\ ~DayMatches(schedule.expression, candidate)
  /\ Jump(candidate + NextDay[NextDay[candidate]] - NextDay[candidate])

SkipDay ==
  /\ Searching
  /\ MonthMatches(schedule.expression, candidate)
  /\ ~DayMatches(schedule.expression, candidate)
  /\ Jump(NextDay[candidate])

SkipHour ==
  /\ Searching
  /\ MonthMatches(schedule.expression, candidate)
  /\ DayMatches(schedule.expression, candidate)
  /\ ~HourMatches(schedule.expression, candidate)
  /\ Jump(NextHour[candidate])

CronMatches(t) ==
  /\ MonthMatches(schedule.expression, t)
  /\ DayMatches(schedule.expression, t)
  /\ HourMatches(schedule.expression, t)
  /\ MinuteMatches(schedule.expression, t)

SkipMinute ==
  /\ Searching
  /\ MonthMatches(schedule.expression, candidate)
  /\ DayMatches(schedule.expression, candidate)
  /\ HourMatches(schedule.expression, candidate)
  /\ ~MinuteMatches(schedule.expression, candidate)
  /\ Jump(candidate + 1)

Found == Searching /\ CronMatches(candidate) /\ Lists(candidate) /\ UNCHANGED candidate

GiveUp == state = "cron" /\ candidate > cursor + Horizon /\ Ends("ScheduleError")

\* `count` runs are listed; a negative count is refused.
Finish == state = "ask" /\ count >= 0 /\ Len(runs) = count /\ Ends("done")
Refuse == state = "ask" /\ count < 0 /\ Ends("ScheduleError")

SchedulerNext ==
  /\ \/ AskManual \/ AskOnce \/ AskHourly \/ AskDaily
     \/ AskWeekly \/ NextWeekly
     \/ AskCron \/ SkipMonth \/ SkipDay \/ SkipHour \/ SkipMinute \/ Found \/ GiveUp
     \/ Finish \/ Refuse
  /\ UNCHANGED <<schedule, start, count>>

SchedulerSpec == SchedulerInit /\ [][SchedulerNext]_schedulerVars

------------------------------------------------------------------------------
\* What simulate lists are minutes, and None is never among them.
SchedulerTypeOK ==
  /\ schedule \in Schedule
  /\ start \in Starts
  /\ count \in Counts
  /\ runs \in Seq(Time)
  /\ cursor \in Time
  /\ candidate \in Nat
  /\ state \in {"ask", "cron", "weekly", "done", "ScheduleError", "TypeError"}

\* The minutes a recurring schedule means, whatever the search does.
Begins(next, t) == t > 0 /\ next[t - 1] = t
Due(t) ==
  \/ schedule.frequency = "hourly" /\ Begins(NextHour, t)
  \/ schedule.frequency = "daily" /\ Begins(NextDay, t)
  \/ schedule.frequency = "weekly" /\ Begins(NextDay, t) /\ WeekdayOf[t] = 0
  \/ schedule.frequency = "cron" /\ Parses(schedule.expression) /\ CronMatches(t)

Recurring == schedule.frequency \in {"hourly", "daily", "weekly", "cron"}
RunTimes == {runs[i] : i \in DOMAIN runs}

\* No jump of the search passes a run and none stops short of one: the runs
\* listed up to the latest are all the due minutes there are, and "no matching
\* time" is said only if none is due within the horizon.
RunsExact ==
  /\ Recurring => RunTimes = {t \in start.minute + 1 .. cursor : Due(t)}
  /\ state = "ScheduleError" /\ schedule.frequency = "cron" /\ count >= 0 =>
       \A t \in cursor + 1 .. cursor + Horizon : t \in Time => ~Due(t)

\* Runs are listed in order, none twice, all after `start`; the exception is a
\* `once` without a time, which is due whenever it is asked about.
RunsIncrease ==
  \/ schedule.frequency = "once" /\ schedule.at = NULL
  \/ /\ \A i \in DOMAIN runs : runs[i] > start.minute
     /\ \A i, j \in DOMAIN runs : i < j => runs[i] < runs[j]
==============================================================================
