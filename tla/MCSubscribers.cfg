SPECIFICATION FairSpec
CONSTANTS
  UDSClients = {u1}
  SSEClients = {s1}
  BufferSize = 1
  MaxEvents = 2
INVARIANTS NoPanic InOrder LossOnlyWhenFull
PROPERTIES BroadcastEnds ShutdownEndsUDS HungUpForgotten
CHECK_DEADLOCK FALSE
