SPECIFICATION Spec
CONSTANTS
  Name = {alice, bob}
  InviteCode = {i1}
  Bootstrap = Bootstrap
  NoAccount = NoAccount
  NoOne = NoOne
  MaxTries = 1
  MaxRefused = 1
  Address = {a1}
  Checkers = {v1, v2}
  Nobody = Nobody
  Operator = Operator
  MaxHits = 2
  Ttl = 2
  MaxAttempts = 2
  SendRetries = 1
  MaxNow = 2
  MaxCodes = 2
  MaxOverrides = 1
  MaxFaults = 1
SYMMETRY Symmetric
CHECK_DEADLOCK FALSE
INVARIANTS
  TypeOK
  OneAccountPerInvite
  AtMostOneActive
  GuessesAreCounted
PROPERTIES
  OnlyLiveCodesOpen
  OverrideStands
  RetiredForAReason
