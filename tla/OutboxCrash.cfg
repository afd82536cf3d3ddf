SPECIFICATION Spec
CONSTANTS
  MaxDay = 1
  Keys = {k1}
  KeyOf <- MCKeyOf
  k1 = k1
  k2 = k2
  n1 = n1
  n2 = n2
  t1 = t1
  t2 = t2
  u1 = u1
  s1 = s1
  s2 = s2
  c1 = c1
  Numbers = {n1, n2}
  NoNum = NoNum
  Tickets = {t1}
  Users = {u1}
  Owner <- MCOwner
  BadTickets = {}
  ServerWorkers = {s1, s2}
  CliWorkers = {}
  MaxVer = 2
  MaxOutbox = 2
  MaxEdits = 0
  MaxFaults = 1
  MaxHistory = 0
  MaxExtras = 2
CHECK_DEADLOCK FALSE
INVARIANT CrashRecoverable
