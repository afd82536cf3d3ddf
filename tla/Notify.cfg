SPECIFICATION FairSpec
CONSTANTS
  w1 = w1
  w2 = w2
  anne = anne
  ben = ben
  Wins = {w1}
  DayOf <- SameDay
  Owner <- MCOwner
  Users = {anne, ben}
  Float = {w1}
  MaxAge = 2
  MaxTime = 7
  MaxCrashes = 1
  MaxEdits = 1
CHECK_DEADLOCK FALSE
INVARIANTS
  TypeOK
  SentWasDelivered
  NoSilentMiss
  ReportsTile
  DeferralEndsTheQuiet
  PrizeAndCostTogether
PROPERTY LateWinsTold
