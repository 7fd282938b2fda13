CONSTANTS
    s1 = s1  s2 = s2  s3 = s3  a = a  b = b  t1 = t1  t2 = t2
    r1 = r1  r2 = r2  r3 = r3  r4 = r4
    Threads = {t1, t2}
    Sessions = {s1, s2, s3}
    Ids = {a, b}
    Id <- MCId
    NULL = NULL  HEAD = HEAD  TAIL = TAIL
    CacheSize = 1
    FlushEvery = 2
    Timeout = 1
    MaxTime = 2
    External = TRUE
    Workers = {t1, t2}
    Interval = 2
    MaxClock = 7
    MaxSet = 3
    Holders = {r1, r2, r3, r4}
    First = r1
    MAX = 4
SPECIFICATION MCSpec
CHECK_DEADLOCK FALSE
SYMMETRY Symmetry
INVARIANTS
    ListMatchesTable ReferencesAreOwners
    SealsWithLiveKey OldTicketsStayClosed TicketsLastAnInterval
    FreedIsUnowned
PROPERTIES ValidSessionsStay
