SPECIFICATION FairSpec
CONSTANTS
  MaxPort = 5
  MaxTyped = 4
  MaxCalls = 2
INVARIANTS
  TypeOK
  ChatHasSocket
PROPERTIES
  HangsUpLast
  LeaveEnds
  PeerGoneEnds
\* the users may both fall silent
CHECK_DEADLOCK FALSE
