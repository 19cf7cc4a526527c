SPECIFICATION FairSpec
CONSTANTS
  NumServers = 2
  FaultKinds = {"loss", "duplicate", "send"}
  MaxFaults = 1
  HostedSize <- FirstLacks
  Payload = 2
  MaxQueue = 2
  MaxWorkers = 3
  Arguments = {0, 2}
  MaxRetries = 1
  ErrorPayload = 2
  UninitSizes = {0, 3, 7}
  Bytes = 5
INVARIANTS
  OutputInChunk
PROPERTIES
  ChunkIsolation
  ClientEnds
\* the client exits, and a handler whose ACK is lost sleeps for ever
CHECK_DEADLOCK FALSE
