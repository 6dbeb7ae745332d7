SPECIFICATION Spec
CONSTANTS
  i1 = i1
  i2 = i2
  i3 = i3
  p1 = p1
  p2 = p2
  Item = {i1, i2, i3}
  Operator = {p1, p2}
  None = None
  Half = Half
  Suits <- MCSuits
  Kinds = {"supersede", "revert-supersession", "archive", "keep-active", "defer"}
  Faults = {"crash", "io", "ledger", "torn", "index"}
  MaxOps = 2
  MaxWrites = 1
  MaxFaults = 2
SYMMETRY Symmetry
INVARIANT TypeOK
INVARIANT AllOrNothing
PROPERTY NoNewCycle
PROPERTY ArchiveLosesNothing
CHECK_DEADLOCK FALSE
