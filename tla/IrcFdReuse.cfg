SPECIFICATION FairSpec
CONSTANTS
  NumClients = 3
  Ids <- AnnBobCleo
  MaxCoalesced = 1
  UninitIndexes = {0, 1}
  MaxCommands = 0
INVARIANTS
  RegistryInStep
\* the users may all fall silent
CHECK_DEADLOCK FALSE
