SPECIFICATION FairSpec
CONSTANTS
  NumServers = 1
  FaultKinds = {}
  MaxFaults = 0
  HostedSize <- AllHave
  Payload = 2
  MaxQueue = 1
  MaxWorkers = 3
  Arguments = {2}
  MaxRetries = 1
  ErrorPayload = 2
  UninitSizes = {0}
  Bytes = 6
PROPERTIES
  DownloadCompletes
\* the client exits, and a handler whose ACK is lost sleeps for ever
CHECK_DEADLOCK FALSE
