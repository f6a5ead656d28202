\* A request that is valid in everything.
SPECIFICATION Spec
CONSTANTS
  MaxHeaderCount = 2
  MaxLines = 2
INVARIANT FreeIsClean
\* A request is processed once.
CHECK_DEADLOCK FALSE
