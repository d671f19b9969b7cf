CONSTANTS
  Users = {u1}
  DayLength = 6
  ReminderDelay = 5
  Quiet <- MCQuiet
  MaxAttempts = 2
  TopN = 2
  MaxTime = 12
  MaxFaults = 1
  MaxMoves = 2
  None = None
SPECIFICATION Spec
INVARIANTS OnePendingReminder SlotWasAnnounced
PROPERTIES StreakHolderIsWarned PuzzleAnnouncedOnce
CHECK_DEADLOCK FALSE
