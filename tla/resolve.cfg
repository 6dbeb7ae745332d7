SPECIFICATION Spec
CONSTANTS
  p1 = p1
  p2 = p2
  b1 = b1
  b2 = b2
  b3 = b3
  b4 = b4
  i1 = i1
  i2 = i2
  i3 = i3
  a = a
  b = b
  t1 = t1
  t2 = t2
  Procs = {p1, p2}
  Recs = {1, 2}
  Items = {i1, i2, i3}
  Payloads = {a, b}
  Titles = {t1, t2}
  RecordIdOf <- TwoIds
  ItemOf <- TwoItems
  PayloadOf <- TwoPayloads
  KindOf <- RiskyFeedback
  TitleOf <- OwnTitles
  BatchIds = {b1, b2}
  NoProc = NoProc
  NoRec = NoRec
  NoItem = NoItem
  NoSpan = NoSpan
  NoBatch = NoBatch
  MaxQueueEntries = 2
  MaxFaults = 1
  MaxEdits = 1
  MaxDeletes = 0
  MaxTorn = 0
SYMMETRY Interchangeable
INVARIANTS ResolutionEvidenceOnce AuditGate
PROPERTIES RefinesBuffer
