CONSTANTS
  Humans = {h1, h2}
  Bots = {b1}
  Host = h1
  TotalRounds = 2
  MaxGames = 2
  MaxFaults = 1
  NoTurn = NoTurn
SPECIFICATION FairSpec
INVARIANTS RoundIsDriven
PROPERTIES OnlyLatecomersMissTheirTurn KeepsPromise BiddingRoundEnds
CHECK_DEADLOCK FALSE
