CONSTANTS
  Humans = {h1, h2}
  Bots = {}
  Creator = h1
  MaxPlayers = 2
  MinRounds = 1
  MaxRounds = 2
  MaxGames = 1
  MaxFaults = 1
SPECIFICATION FairSpec
PROPERTIES TimedRoundEnds AbandonedRoomSettles HostRoleRecovers
CHECK_DEADLOCK FALSE
