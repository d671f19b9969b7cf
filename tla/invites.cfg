CONSTANTS
  host = host
  guest = guest
  member = member
  People = {host, guest, member}
  UserOf <- MCUserOf
  VisitorOf <- MCVisitorOf
  IpOf <- MCIpOf
  Hosts = {host}
  NewAccounts = {}
  Rooms = {r1, r2}
  Public = {r1, r2}
  Attributions = {1, 2}
  TriggerRounds = 2
  HostMatches = 2
  JoinerMatches = 1
  HostCap = 1
  IpCap = 1
  Day = 1
  Week = 1
  BuffTTL = 1
  PairDedup = 1
  MaxTime = 1
  MaxGames = 2
  MaxJoins = 2
  None = None
SYMMETRY RoomSymmetry
VIEW View
SPECIFICATION Spec
INVARIANTS TypeOK PlayingPaysOnce PairsAreApart
PROPERTIES PublicBonusRemains
CHECK_DEADLOCK FALSE
