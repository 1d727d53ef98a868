SPECIFICATION Spec
CONSTANTS
  m_sessionPoolSize = 1
  m_sessionCount = 2
  m_sessionSendCount = 2
  m_clientReconnectCount = 2
INVARIANTS IInv OpenIsMapped SendsOnConnected WireInOrder
 
\* The client stops after its rounds.
CHECK_DEADLOCK FALSE
