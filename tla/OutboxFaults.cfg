SPECIFICATION Spec
CONSTANTS
  MaxDay = 1
  Keys = {k1}
  KeyOf <- MCKeyOf
  k1 = k1
  k2 = k2
  n1 = n1
  n2 = n2
  t1 = t1
  t2 = t2
  u1 = u1
  s1 = s1
  s2 = s2
  c1 = c1
  Numbers = {n1, n2}
  NoNum = NoNum
  Tickets = {t1}
  Users = {u1}
  Owner <- MCOwner
  BadTickets = {}
  ServerWorkers = {s1}
  CliWorkers = {c1}
  MaxVer = 2
  MaxOutbox = 2
  MaxEdits = 1
  MaxFaults = 1
  MaxHistory = 1
  MaxExtras = 2
SYMMETRY Symmetric
CHECK_DEADLOCK FALSE
INVARIANTS
  TypeOK
  NoLostDraw
  ClaimedOnce
  ClaimIffWin
  SettledIsComplete
  ServerReadsStand
  CostsWithResults
PROPERTIES
  LedgerSpec
  DecidedClaimsStay
