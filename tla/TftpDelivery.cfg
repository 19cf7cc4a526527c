SPECIFICATION FairSpec
CONSTANTS
  NumServers = 1
  FaultKinds = {"duplicate", "loss"}
  MaxFaults = 1
  HostedSize <- AllHave
  Payload = 2
  MaxQueue = 2
  MaxWorkers = 3
  Arguments = {2}
  MaxRetries = 1
  ErrorPayload = 2
  UninitSizes = {0}
  Bytes = 6
INVARIANTS
  NoLostWakeup
  OutputInChunk
PROPERTIES
  ChunkIsolation
  Delivered
  HandlersEnd
\* the client exits, and a handler whose ACK is lost sleeps for ever
CHECK_DEADLOCK FALSE
