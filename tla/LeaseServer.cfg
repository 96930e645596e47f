SPECIFICATION FairSpec
CONSTANTS
  Proc = {p1, p2}
  NoProc = NoProc
  Requests = {"start", "startStream", "resume", "pause", "cancel", "annotate"}
  Concurrent = FALSE
  MaxEvents = 2
  MaxGen = 2
PROPERTIES ImplementsStatus StoppedNotPaused PauseKept RunSettles
CHECK_DEADLOCK FALSE
