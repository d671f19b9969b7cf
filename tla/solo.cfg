CONSTANTS
  Users = {u1, u2}
  Visitors = {v1, v2}
  Sessions = {s1, s2}
  LastDay = 3
  DailyRounds = 2
  FreeRounds = 1
  MaxFaults = 1
  Nobody = Nobody
  NotDaily = NotDaily
SPECIFICATION Spec
SYMMETRY Names
INVARIANTS OncePerDay StreakIsBacked LifetimeMatchesHistory
PROPERTIES PlaysAreFinal
CHECK_DEADLOCK FALSE
