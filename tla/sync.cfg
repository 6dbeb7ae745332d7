SPECIFICATION Spec
CONSTANTS
  d1 = d1
  d2 = d2
  m1 = m1
  Device = {d1, d2}
  Doc = {m1}
  Owner <- MCOwner
  Content = {"short"}
  Parts <- MCParts
  MaxParts = 1
  Blocked <- MCBlocked
  Page = 1
  Faults = {"stop", "late", "toggle"}
  MaxFaults = 2
  MaxEdits = 3
  Reverts = TRUE
INVARIANT TypeOK
INVARIANT DesiredIsOwed
PROPERTY ReadersMoveForward
