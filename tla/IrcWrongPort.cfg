SPECIFICATION FairSpec
CONSTANTS
  NumClients = 2
  Ids <- AnnBob
  MaxCoalesced = 1
  UninitIndexes = {0, 1}
  MaxCommands = 3
INVARIANTS
  ConnectLeadsToTarget
\* the users may all fall silent
CHECK_DEADLOCK FALSE
