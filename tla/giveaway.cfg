CONSTANTS
  Users = {u1, u2}
  Rewards = {r1}
  Awards = {a1, a2}
  MaxFaults = 1
  None = None
SPECIFICATION Spec
INVARIANTS PoolMatchesAwards CodeRevealedOnce MailsAreTrue
PROPERTIES FullWindow OpenAwardSettles
CHECK_DEADLOCK FALSE
