SPECIFICATION FairSpec
CONSTANTS
  d1 = d1
  d2 = d2
  m1 = m1
  Device = {d1}
  Doc = {m1}
  Owner <- MCOwner
  Content = {"short", "held"}
  Parts <- MCParts
  MaxParts = 1
  Blocked <- MCBlocked
  Page = 1
  Faults = {}
  MaxFaults = 0
  MaxEdits = 3
  Reverts = TRUE
PROPERTY Converges
