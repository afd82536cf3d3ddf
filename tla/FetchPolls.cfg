SPECIFICATION Spec
CONSTANTS
  Sources = {mxnzp, juhe}
  Primary = mxnzp
  Backup = juhe
  Evaluators = {w1, w2}
  Threshold = 1
  MaxTime = 2
  None = None
  Lotteries = {ssq}
  Issues = {1}
  numA = numA
  numAReordered = numAReordered
  numB = numB
  Numbers = {numA, numAReordered, numB}
  Canon <- MCCanon
  NoNum = NoNum
  Grace = TRUE
  MaxPolls = 2
SYMMETRY Symmetric
CHECK_DEADLOCK FALSE
INVARIANTS
  TypeOK
  NoticeCanBeSettled
PROPERTIES
  ConfirmedByBoth
  PollsOnlyConfirm
