SPECIFICATION Spec
CONSTANTS
  InitSize = 2
  ExpandCount = 2
  AllocLimit = 8
  RecvBufferSize = 5
  ReadLoop = FALSE
  MaxBytes = 10
  MaxTasks = 2
INVARIANTS CursorsInRange FifoUnlessFullExpand
\* The caller may stop pushing.
CHECK_DEADLOCK FALSE
