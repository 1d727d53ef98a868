SPECIFICATION Spec
CONSTANTS
  InitSize = 2
  ExpandCount = 2
  AllocLimit = 8
  RecvBufferSize = 3
  ReadLoop = TRUE
  MaxBytes = 7
  MaxTasks = 2
INVARIANTS IInv PopAsSized NoStrandedBytes
PROPERTIES ImplementsFifo EverythingTaken
\* The peer may stop sending, or close.
CHECK_DEADLOCK FALSE
