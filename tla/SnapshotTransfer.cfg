SPECIFICATION RecoverySpec
CONSTANTS
  a = a
  b = b
  m1 = m1
  m2 = m2
  c1 = c1
  NULL = NULL
  MeetingId = {a, b}
  MemoryId = {m1, m2}
  Hash = {h1, h2}
  Content = {c1}
  Batch <- MCBatch
  Client = {client1}
  Backup = {backup1}
  Meeting = {meeting1}
  Release = 2
  MaxDeaths = 1
INVARIANTS
  RoundTrip
  NothingInvented
  FailsOnlyIfDisturbed
  RestoreExact
