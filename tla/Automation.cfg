SPECIFICATION MCSpec
CONSTANTS
  a = a
  b = b
  m1 = m1
  m2 = m2
  m3 = m3
  m4 = m4
  c1 = c1
  c2 = c2
  h1 = h1
  h2 = h2
  h3 = h3
  draft = draft
  copy = copy
  edited = edited
  garbled = garbled
  missing = missing
  binary = binary
  nightly = nightly
  refresh = refresh
  strange = strange
  odd = odd
  mixed = mixed
  NULL = NULL
  MeetingId = {a, b}
  MemoryId = {m1, m2, m3, m4}
  Hash = {h1, h2, h3}
  Content = {c1, c2}
  Batch <- MCBatch
  IdOf <- MCIdOf
  HashOf <- MCHashOf
  Extracted <- MCExtracted
  StepsOf <- MCStepsOf
  Transcript <- MCTranscript
  Look <- MCLook
  NameOf <- MCNameOf
  TimeOf <- MCTimeOf
  Cue <- MCCue
  PlainText <- MCPlainText
  ExtractionConfig <- MCExtractionConfig
  FileKind <- MCFileKind
  Job = {nightly, refresh, strange, odd, mixed}
  File = {draft, copy, edited, garbled, missing, binary}
  Worker = {w1, w2}
  Deleter = {}
  MaxCrashes = 1
  MaxRuns = 2
CHECK_DEADLOCK FALSE
INVARIANTS
  WorkAccounted
  HistoryTruthful
  
  TranscriptKept
  SaidOnce
PROPERTIES
  DryRunWritesNothing
