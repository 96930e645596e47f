SPECIFICATION Spec
CONSTANTS
  Proc = {p1, p2}
  NoProc = NoProc
  Requests = {"start", "resumeStream"}
  Concurrent = TRUE
  MaxEvents = 0
  MaxGen = 2
SYMMETRY Lifetimes
INVARIANTS FencingTokensUnique NoZombieWrite
CHECK_DEADLOCK FALSE
