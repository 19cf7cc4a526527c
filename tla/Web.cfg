SPECIFICATION FairSpec
CONSTANTS
  Runs <- RunsMC
  Responses <- ResponsesMC
  Buffer = 6
  MaxFaults = 1
INVARIANTS
  TypeOK
  OutputIsPrefix
  CompleteAtEnd
PROPERTIES
  Ends
\* the program ends, or an old one waits for a server that does not close
CHECK_DEADLOCK FALSE
