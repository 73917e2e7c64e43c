SPECIFICATION Spec
CONSTANTS
  SSEClients = {c1, c2}
  DummyURL = DummyURL
  TargetURLs = {url}
  Unset = Unset
  MaxTicks = 2
INVARIANT OrderlyShutdown
CHECK_DEADLOCK FALSE
