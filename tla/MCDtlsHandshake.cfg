CONSTANTS
  client = client
  server = server
  Ends <- MCEnds
  Script <- FullScript
  Items <- FullItems
  SSL_MAX_HANDSHAKE_FLIGHT = 7
  DTLS1_MAX_TIMEOUTS = 2
  MaxCopies = 3
  MaxLoss = 0
  Patient = FALSE
SPECIFICATION Spec
INVARIANTS
  NobodyStranded
PROPERTIES
  ImplementsReliable
