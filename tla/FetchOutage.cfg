SPECIFICATION Spec
CONSTANTS
  Sources = {mxnzp, juhe}
  Primary = mxnzp
  Backup = juhe
  Evaluators = {w1}
  Threshold = 1
  MaxTime = 2
  None = None
  Lotteries = {ssq, dlt}
  Issues = {1}
  numA = numA
  numAReordered = numAReordered
  numB = numB
  Numbers = {numA}
  Canon <- MCCanon
  NoNum = NoNum
  Grace = TRUE
  MaxPolls = 2
CHECK_DEADLOCK FALSE
INVARIANT LongOutageIsTold
