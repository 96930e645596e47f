CONSTANTS
  a = a  b = b  pay = pay  read = read
  Ids = {a, b}
  Tools = {pay, read}
  Sensitive = {pay}
  NonReplayable = {pay}
  Responses <- MCResponses
  MaxRounds = 1
  RecoverErrors = FALSE
  Operator = {"pause", "resolve"}
  MaxCuts = 2
SPECIFICATION SpecLoops
INVARIANTS NonReplayableOnce LedgerReportsOnce ExecutionsApproved
PROPERTIES NoRepeatAfterOutcome RoundsSettle
CHECK_DEADLOCK FALSE
