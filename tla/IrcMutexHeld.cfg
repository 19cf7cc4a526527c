SPECIFICATION FairSpec
CONSTANTS
  NumClients = 2
  Ids <- AnnBob
  MaxCoalesced = 2
  UninitIndexes = {0, 1}
  MaxCommands = 1
PROPERTIES
  CommandsFinish
\* the users may all fall silent
CHECK_DEADLOCK FALSE
