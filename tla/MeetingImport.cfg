SPECIFICATION ImportSpec
CONSTANTS
  a = a
  b = b
  m1 = m1
  m2 = m2
  m3 = m3
  m4 = m4
  c1 = c1
  c2 = c2
  h1 = h1
  h2 = h2
  draft = draft
  copy = copy
  edited = edited
  NULL = NULL
  MeetingId = {a, b}
  MemoryId = {m1, m2, m3, m4}
  Hash = {h1, h2}
  Content = {c1, c2}
  Batch <- MCBatch
  IdOf <- MCIdOf
  HashOf <- MCHashOf
  Extracted <- MCExtracted
  File = {draft, copy, edited}
  Worker = {w1, w2}
  Deleter = {d1}
  MaxCrashes = 1
INVARIANTS
  EvidenceExact
  ExclusiveWriter
  MemoriesMatchTranscript
  LossOnlyByCrash
