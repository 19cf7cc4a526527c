SPECIFICATION Spec
CONSTANTS
  MaxFileSize = 16
  FileSizes    <- MCFileSizes
  Arguments    <- MCArguments
  ServerCounts <- MCServerCounts
INVARIANTS
  EveryByteAssignedOnce
  NonEmptyFileAccepted
\* main() ends after the plan
CHECK_DEADLOCK FALSE
