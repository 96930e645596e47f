CONSTANTS
  None = None
  p1 = p1
  x1 = x1
  x2 = x2
  x3 = x3
  u = u
  t1 = t1
  k1 = k1
  oauth = oauth
  r1 = r1
  c1 = c1
  s1 = s1
  s2 = s2
  o1 = o1
  o2 = o2
  o3 = o3
  alpha = alpha
  beta = beta
  client = client
  Provider = {p1}
  Task = {x1, x2, x3}
  Kinds = {"call", "stream", "create", "createNew", "update", "disable", "delete"}
  MaxGen = 3
  ClosesAnyTime = FALSE
SPECIFICATION SpecServices
INVARIANTS ProvidersHold AccessHolds TranscriptHolds OneVersion MemoriesHold RequestsAreWhole
INVARIANTS EverybodyOutlived MigratedOnce TextsAreKept AnswersAreWhole
CHECK_DEADLOCK FALSE
