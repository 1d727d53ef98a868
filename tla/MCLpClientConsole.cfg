SPECIFICATION Spec
CONSTANTS
  m_threadCount = 2
  Callers = {1, 2}
  m_clientReconnectCount = 2
  SendCount = 2
  Uint32 = 5
INVARIANTS IInv OneInstance BuiltBehindLock TotalExact
PROPERTY FinalTotalPrinted
