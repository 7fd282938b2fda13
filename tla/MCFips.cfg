CONSTANTS
    p1 = p1  p2 = p2  p3 = p3  t1 = t1
    Parts = {"indicator", "new", "plain", "old"}
    Called <- Services
    Unapproved <- Hkdf
    MaxRise = 6
    Procs = {p1, p2, p3}
    Threads = {t1}
    Origin = p1
    WipeOnFork = TRUE
    Snapsafe = "success"
    NULL = NULL
    FastRdrand = FALSE
    kReseedInterval = 2
    MaxChunks = 1
    MaxEntropy = 3
    MaxReturned = 2
SPECIFICATION MCSpec

SYMMETRY Symmetry
CHECK_DEADLOCK FALSE
INVARIANT IndicatorExact
PROPERTY NeverRepeated
