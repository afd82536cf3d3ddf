SPECIFICATION Spec
CONSTANTS
  None = None
  Rows = {w}
  Code <- MCCode
  DrawDate <- MCDrawDate
  DrawNumbers <- MCDrawNumbers
  Tickets <- OneTicket
  Official <- MCOfficial
  MaxAge = 1
  MaxTime = 3
  MaxChanges = 1
  MaxCrashes = 0
CHECK_DEADLOCK FALSE
INVARIANT JudgedAgainIsAsked
