SPECIFICATION Spec
CONSTANTS
  Sessions = {0, 1}
  m_ioThreadCount = 2
  PacketSize = 2
  PoolSize = 1
  SeqMax = 3
  Streams <- MCStreams
  WholePackets = FALSE
INVARIANT PacketsAligned
\* The peers may stop sending, or close.
CHECK_DEADLOCK FALSE
