CONSTANTS
  Humans = {h1, h2}
  Bots = {}
  Creator = h1
  MaxPlayers = 2
  MinRounds = 1
  MaxRounds = 1
  MaxGames = 1
  MaxFaults = 0
SPECIFICATION Spec
INVARIANTS
  PlayingRoundHasTimer
CHECK_DEADLOCK FALSE
