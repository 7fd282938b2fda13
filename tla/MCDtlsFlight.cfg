SPECIFICATION FairSpec
CONSTANTS
    Script <- ServerScript
    SSL_MAX_HANDSHAKE_FLIGHT = 7
    DTLS1_HM_HEADER_LENGTH = 1
    DTLS1_MAX_TIMEOUTS = 3
    DTLS1_MTU_TIMEOUTS = 1
    MaxDuration = 5
    InitialDuration = 1
    Mtus <- MCMtus
    Overhead <- MCOverhead
    Sealed <- MCSealed
INVARIANTS
    CursorExact
    WholeFlightSent
    TimedWhileWaiting
    UnansweredFlightKept
PROPERTIES
    FlushCompletes
