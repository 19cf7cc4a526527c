SPECIFICATION FairSpec
CONSTANTS
  NumServers = 1
  FaultKinds = {"loss", "delay", "send", "create"}
  MaxFaults = 2
  HostedSize <- AllHave
  Payload = 2
  MaxQueue = 2
  MaxWorkers = 3
  Arguments <- OneOrTwo
  MaxRetries = 1
  ErrorPayload = 2
  UninitSizes = {0}
  Bytes = 5
INVARIANTS
  TypeOK
  QueuedAcksAwaited
  ServersSurvive
  StatusZeroAllOrNothing
PROPERTIES
  ClientEnds
  RefinesDownload
\* the client exits, and a handler whose ACK is lost sleeps for ever
CHECK_DEADLOCK FALSE
