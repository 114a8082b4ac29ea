SPECIFICATION SyncOnly
CONSTANTS
  a = a
  b = b
  c = c
  m1 = m1
  m2 = m2
  m3 = m3
  m4 = m4
  m5 = m5
  m6 = m6
  risk = risk
  promise = promise
  choice = choice
  doubt = doubt
  threat = threat
  vow = vow
  pledge = pledge
  p = p
  q = q
  h1 = h1
  h2 = h2
  h3 = h3
  NULL = NULL
  MeetingId = {a, b, c}
  MemoryId = {m1, m2, m3, m4, m5, m6}
  Hash = {h1, h2, h3}
  Content = {risk, promise, choice, doubt, threat, vow, pledge}
  Due <- MCDue
  Shelf <- MCShelf
  Request <- MCRequest
  Batch <- MCBatch
  HashOf <- MCHashOf
  Corrections <- MCCorrections
  Person = {p, q}
  Entity <- MCEntity
  About <- MCAbout
  Participants <- MCParticipants
  TitleMentions <- MCTitleMentions
  Date <- MCDate
  Chrono <- MCChrono
  NameRank <- MCNameRank
  Builder = {b1}
  MaxChanges = 3
  OnlyImports = TRUE
  Node = {1, 2, 3, 4}
  Unknown = 0
  Query <- MCQuery
  TypeOf <- MCTypeOf
  Unlimited = Unlimited
  MaxEdges = 3
  MaxGrowth = 1
  LineageDepth = 4
INVARIANTS
  ReflectsCurrentData
