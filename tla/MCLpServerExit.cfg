SPECIFICATION Spec
CONSTANTS
  Main = main0
  a1 = a1
  a2 = a2
  AsioThreads <- MCAsioThreads
  m_ioThreadCount = 2
  SESSION_POOL_SIZE = 1
  IntMax = 4
  MaxAccepts = 3
  MaxReads = 2
PROPERTY ExitEnds
