CONSTANTS
    kWindowSize = 2
    SeqLimit = 6
    EpochLimit = 2
    Kinds = {"data", "warning", "close_notify", "fatal", "bad_alert", "too_long"}
    kMaxWarningAlerts = 1
    Times <- MCTimes
    Shifts <- MCShifts
    Durations = {0, 1, 985, 1500}
SPECIFICATION MCSpec
INVARIANTS NoReplay WindowExact SealedOnce ReadEndsForCause WakesExpired
PROPERTIES NeverEarly
CHECK_DEADLOCK FALSE
