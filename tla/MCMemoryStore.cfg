SPECIFICATION Spec
CONSTANTS
  a = a
  b = b
  m1 = m1
  m2 = m2
  m3 = m3
  c1 = c1
  c2 = c2
  NULL = NULL
  MeetingId = {a, b}
  MemoryId = {m1, m2, m3}
  Hash = {h1, h2}
  Content = {c1, c2}
  Batch <- MCBatch
INVARIANTS
  ReferentialIntegrity
  ChildrenExact
  PointerOnlyWhenSuperseded
PROPERTIES
  ImplementsRegistry
