SPECIFICATION SpecCalls
CONSTANTS
    read = read
    write = write
    shell = shell
    blocked = blocked
    o1 = o1
    o2 = o2
    s1 = s1
    i1 = i1
    i2 = i2
    i3 = i3
    free = free
    risky = risky
    fatal = fatal
    c1 = c1
    c2 = c2
    c3 = c3
    c4 = c4
    c5 = c5
    i4 = i4
    Permission = {read, write, shell, blocked}
    Blocked = {blocked}
    Guarded = {write}
    Call = {c1, c2, c3, c4, c5}
    Tool = {shell}
    Owner = {o1}
    Session = {s1}
    Id = {i1, i2, i3, i4}
    Command = {free, risky, fatal}
    Shell = {"root", "app"}
    Fresh = "root"
    Offered <- OfferedTools
    Judge <- Judgements
    Of <- ofBoth
    None = None
INVARIANTS RunsAsApproved SessionsAreSerial DeniedNeverRuns
PROPERTIES ExecutedIsPermitted FairCallsSettle
CHECK_DEADLOCK FALSE
