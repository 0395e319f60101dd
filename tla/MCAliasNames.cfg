SPECIFICATION Naming
CONSTANTS
  ByteNames <- MCByteNames
  PoolSize <- MCPoolSize
  MaxTools <- MCMaxTools
INVARIANTS
  AliasesApart
\* The list ends.
CHECK_DEADLOCK FALSE
