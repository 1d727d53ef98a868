SPECIFICATION Spec
CONSTANTS
  Sessions = {0, 1, 2}
  m_ioThreadCount = 2
  PacketSize = 2
  PoolSize = 1
  SeqMax = 3
  Streams <- MCStreams
  MaxBatch = 2
INVARIANTS PHTypeOK OneOwner NoNullPacket VerdictsAsSequential
PROPERTY ImplementsChannel
\* The sessions may stop sending.
CHECK_DEADLOCK FALSE
