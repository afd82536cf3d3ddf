SPECIFICATION FairSpec
CONSTANTS
  None = None
  Rows = {w}
  Code <- MCCode
  DrawDate <- MCDrawDate
  DrawNumbers <- FixedToo
  Tickets <- MCTickets
  Official <- MCOfficial
  MaxAge = 1
  MaxTime = 3
  MaxChanges = 2
  MaxCrashes = 1
CHECK_DEADLOCK FALSE
INVARIANTS
  TypeOK
  AmountFitsTier
  EveryWaitIsSeen
  RefilledIsKept
  WrittenOffForAReason
  JudgedConsistently
PROPERTY EveryWaitEnds
