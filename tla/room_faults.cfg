CONSTANTS
  Humans = {h1, h2}
  Bots = {b1}
  Creator = h1
  MaxPlayers = 3
  MinRounds = 2
  MaxRounds = 2
  MaxGames = 1
  MaxFaults = 1
SPECIFICATION Spec
VIEW View
INVARIANTS HostRoleConsistent LivePlayersAreConnected SettledInOrder
PROPERTIES AnswersAreFinal
CHECK_DEADLOCK FALSE
