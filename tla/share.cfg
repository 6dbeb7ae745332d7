SPECIFICATION FairSpec
CONSTANTS
  d1 = d1
  d2 = d2
  m1 = m1
  Device = {d1}
  Doc = {m1}
  Owner <- MCOwner
  Content = {"short", "long", "blank", "held"}
  Parts <- MCParts
  MaxParts = 2
  Blocked <- MCBlocked
  Page = 2
  Faults = {"stop", "unmount", "toggle", "revoke", "purge", "upgrade"}
  MaxFaults = 1
  MaxEdits = 2
  Reverts = FALSE
INVARIANT DesiredIsOwed
PROPERTY Converges
PROPERTY RevocationClears
