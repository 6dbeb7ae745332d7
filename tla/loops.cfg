SPECIFICATION Spec
CONSTANTS
  Actor = {a1, a2}
  Step = {s1, s2}
  Gate = {g1}
  Verifiers = 1
  MaxOps = 7
  MaxRaces = 1
  RaceCost = 3
  MaxCrashes = 1
  None = none
SYMMETRY Symmetry
INVARIANT TypeOK
INVARIANT VersionsFit
INVARIANT StaysReadable
INVARIANT JournalIsTrue
PROPERTY CompletesWhenClear
CHECK_DEADLOCK FALSE
