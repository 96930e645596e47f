SPECIFICATION Spec
CONSTANTS
  Proc = {p1, p2}
  NoProc = NoProc
  Requests = {"start", "resume", "pause"}
  Concurrent = FALSE
  MaxEvents = 2
  MaxGen = 3
INVARIANT StoppedNotReplayed
CHECK_DEADLOCK FALSE
