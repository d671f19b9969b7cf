CONSTANTS
  Interval = 2
  Keep = 2
  Window = 3
  Errors = {10, 13}
  Cent = 10
  Broken = Broken
  Untrained = 13
  MaxRound = 3
  MaxResets = 1
  MaxFaults = 2
  None = None
SPECIFICATION Spec
INVARIANTS LastSnapshotIsNewest ResetIsKept
PROPERTIES WorkingModelSurvives
CHECK_DEADLOCK FALSE
