CONSTANTS
  s1 = s1  s2 = s2  y = y  z = z
  Order <- MCOrder
  Names = {y, z}
  Offered <- MCOffered
  Pages <- MCPages
  Blocked <- MCBlocked
  Local = {y}
  Advertises = {s1}
  Watches = {s1}
  Polls = {s2}
  MaxChanges = 2
  MaxTroubles = 1
SPECIFICATION FairSpec
INVARIANTS OneListing NothingIsLeft
PROPERTIES SourcesConverge
CHECK_DEADLOCK FALSE
