CONSTANTS
    p1 = p1
    PRs = {p1}
    Order <- OnePR
    Heads = {h1, h2}
    Null = null
    Outcomes = {"success"}
    MaxPerTick = 1
    Sets = {1, 2, 3}
    Workers = {w1, w2}
    MaxPushes = 2
    MaxMishaps = 1
    Mishaps = {"force", "stop", "disable", "headless", "dberror", "ioerror", "hang", "crash"}
SPECIFICATION FairSpec
CHECK_DEADLOCK FALSE
INVARIANTS
    TypeOK
    OneRunPerSet
    HeadsRunOnce
    ReceiptMatchesStatus
PROPERTIES
    NewHeadIsRun
