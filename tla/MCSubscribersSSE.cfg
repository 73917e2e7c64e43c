SPECIFICATION FairSpec
CONSTANTS
  UDSClients = {}
  SSEClients = {s1}
  BufferSize = 1
  MaxEvents = 2
PROPERTY LiveStream
CHECK_DEADLOCK FALSE
