SPECIFICATION FairSpec
CONSTANTS
  p1 = p1
  w1 = w1
  x = x
  y = y
  Items = {x, y}
  Writers = {w1}
  Repairers = {p1}
  Repairs = {"reindex", "verify", "drift"}
  NoItem = NoItem
  MaxLines = 2
  Present = {y}
  EarlierLines <- OneLine
  MaxVersion <- TwiceAndOnce
  MaxFaults = 2
INVARIANTS TypeOK
PROPERTIES VerifyKeepsLiveRows SparesOldRows KeepsNewLines RepairsConverge
