CONSTANTS
  client = client
  server = server
  Ends <- MCEnds
  Script <- FullScript
  Items <- FullItems
  SSL_MAX_HANDSHAKE_FLIGHT = 7
  DTLS1_MAX_TIMEOUTS = 3
  MaxCopies = 4
  MaxLoss = 3
  Patient = TRUE
SPECIFICATION FairSpec
PROPERTIES
  BothComplete
