CONSTANTS
  Humans = {h1, h2}
  Bots = {b1}
  Creator = h1
  MaxPlayers = 2
  MinRounds = 1
  MaxRounds = 2
  MaxGames = 2
  MaxFaults = 0
SPECIFICATION Spec
VIEW View
INVARIANTS ScoresMatchAnswers CapacityRespected PlayingHasDriver
PROPERTIES SettledRoundIsComplete KeepsPromise
CHECK_DEADLOCK FALSE
