CONSTANTS
  Addresses = {a, b, c}
  NoAddress = NoAddress
  Disposable = {c}
  MaxFails = 3
  MaxSessions = 3
  RecoveryCodes = 2
  MaxPending = 2
  MaxNow = 5
SPECIFICATION Spec
INVARIANTS LockComesInTime VerifiedAddressWasProved CodesWorkOnce
PROPERTIES ReferralSettles
CHECK_DEADLOCK FALSE
