SPECIFICATION Spec
CONSTANTS
  x1 = x1
  x2 = x2
  m = m
  p1 = p1
  p2 = p2
  Case = {x1, x2}
  Outside = {}
  Worker = {p1, p2}
  None = None
  Kinds = {"contain", "resolve"}
  Actions = {"dismiss", "defer"}
  Ripe = {x1}
  FloorConf = 1
  MaxConf = 2
  MaxText = 0
  MaxTxn = 2
  MaxClock = 1
  MaxDeletes = 1
  Faults = {"crash", "tear", "fail"}
  MaxFaults = 1
SYMMETRY Alike
INVARIANTS TypeOK OneOpen BaselineFirst
PROPERTIES RecoveryRechecks
CHECK_DEADLOCK FALSE
