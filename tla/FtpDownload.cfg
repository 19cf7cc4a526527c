SPECIFICATION FairSpec
CONSTANTS
  NumServers = 2
  Setups <- SetupsRun
  FaultKinds = {"connect", "create", "reset"}
  MaxFaults = 2
  Buffer = 2
  Backlog = 1
  ErrorBytes = 2
  Arguments <- ArgumentsRun
  MaxRetries = 1
  UninitSizes = {0, 2}
INVARIANTS
  TypeOK
  StreamInStep
  ServersSurvive
PROPERTIES
  ChunkIsolation
  Delivered
  ClientEnds
  RefinesDownload
\* the client exits
CHECK_DEADLOCK FALSE
