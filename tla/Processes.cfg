SPECIFICATION LiveSpec
CONSTANTS
    p1 = p1
    p2 = p2
    o1 = o1
    o2 = o2
    r1 = r1
    r2 = r2
    None = None
    Process = {p1, p2}
    Owner = {o1, o2}
    OwnerOf <- Mine
    Reader = {r1, r2}
    Children = {"attached"}
    WaitsForPipes = FALSE
    Unkillable = {p2}
    MaxPerOwner = 1
    MaxProcesses = 1
    MaxExited = 0
    MaxOutput = 1
    EndBound = 2
    Chunks = {1, 2}
    ReadsAhead = FALSE
INVARIANTS LimitsHold NothingSurvivesClose NothingIsSkipped
PROPERTIES CommandsExpire
CHECK_DEADLOCK FALSE
