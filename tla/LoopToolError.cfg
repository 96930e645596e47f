CONSTANTS
  a = a  b = b  pay = pay  read = read
  Ids = {a}
  Tools = {pay, read}
  Sensitive = {pay}
  NonReplayable = {pay}
  Responses <- MCReads
  MaxRounds = 1
  RecoverErrors = FALSE
  Operator = {}
  MaxCuts = 1
SPECIFICATION FairSpec
PROPERTY ToolErrorStops
CHECK_DEADLOCK FALSE
