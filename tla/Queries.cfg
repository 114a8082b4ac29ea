SPECIFICATION MCSpec
CONSTANTS
  NULL = NULL
  t1 = t1
  t2 = t2
  risk = risk
  task = task
  s1 = s1
  s2 = s2
  Caller = {reader, importer}
  Writer = {importer}
  Walker = reader
  PageSize = 1
  MaxOffset = 2
  Text = {t1, t2}
  Kind = {risk, task}
  Yields <- MCYields
  NameIn <- MCNameIn
  MeetingName = {s1, s2, "upload"}
  SomeMeeting = {s1}
  DateRank <- MCDateRank
  PathRank <- MCPathRank
  Path <- MCPath
  TypeOrder <- MCTypeOrder
  LastMinute = 95
  MinuteOf <- MCMinuteOf
  HourOf <- MCHourOf
  DayOf <- MCDayOf
  MonthOf <- MCMonthOf
  WeekdayOf <- MCWeekdayOf
  NextHour <- MCNextHour
  NextDay <- MCNextDay
  NextMonth <- MCNextMonth
  FieldBounds <- MCFieldBounds
  Horizon = 40
  Schedule <- MCSchedule
  Starts <- MCStarts
  Counts <- MCCounts
  Worker = {first, second}
  Edge = {1, 2}
  Sample = {1, 3}
  MaxObjects = 2
  MaxChanges = 3
  Sitting <- MCSitting
  Note <- MCNote
  Lexicon <- MCLexicon
  MaxWrites = 1
  Errand <- MCErrand
  MaxMoves = 2
CHECK_DEADLOCK FALSE
INVARIANTS
  RunsExact
  RunsIncrease
  PagesComplete
  StatsCover
  
  SnapshotsExact
  ProfilesExplained
  BestFirst
  HitsExplained
  TimelinesAgree
