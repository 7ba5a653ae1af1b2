\* Every file system to start with; others change it twice.
SPECIFICATION Spec
CONSTANTS
  MaxChanges = 2
\* The program starts once.
CHECK_DEADLOCK FALSE
INVARIANT FallbackIsUsed
