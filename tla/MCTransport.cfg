SPECIFICATION MCSpec
CONSTANTS
    SSL_MAX_HANDSHAKE_FLIGHT = 3
    ByteBits = 2
    MaxMessageLen = 5
    NumMsgs = 5
    MsgLen <- MCMsgLen
    FlightEnd <- MCFlightEnd
    StrayRecords <- MCStray
    NULL = NULL
    left = left
    right = right
    Ends <- MCEnds
    Size <- MCSize
    Bytes = {0, 1}
    MaxCall = 4
INVARIANTS CompleteIsWhole DeliveredInOrder DeliveredInEpoch NoSpuriousError RequestCanBeGranted
PROPERTIES AllDelivered ImplementsPipes Drains
CHECK_DEADLOCK FALSE
