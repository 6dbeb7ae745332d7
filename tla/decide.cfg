SPECIFICATION FairSpec
CONSTANTS
  x1 = x1
  x2 = x2
  m = m
  p1 = p1
  p2 = p2
  Case = {x1, x2}
  Outside = {m}
  Worker = {p1, p2}
  None = None
  Kinds = {"resolve"}
  Actions = {"select_authority", "merge"}
  Ripe = {}
  FloorConf = 1
  MaxConf = 1
  MaxText = 1
  MaxTxn = 2
  MaxClock = 0
  MaxDeletes = 0
  Faults = {"crash", "tear", "index"}
  MaxFaults = 1
INVARIANTS IndexOwed
PROPERTIES DecidesWhatWasSeen RefinesDecisions Settles
CHECK_DEADLOCK FALSE
