SPECIFICATION PFairSpec
CONSTANTS
  UDSClients = {u1}
  SSEClients = {s1}
  BufferSize = 1
  MaxEvents = 1
  DummyURL = DummyURL
  TargetURLs = {}
  Unset = Unset
INVARIANT WorkersStopBeforeExit
PROPERTIES Lifecycle ShutdownEnds ClientsSubscribed
CHECK_DEADLOCK FALSE
