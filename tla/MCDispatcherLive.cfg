SPECIFICATION FairSpec
CONSTANTS
  Events = {1, 2}
  Poppers = {w1, w2}
  Capacity = 1
  Policies = {"DropNewest", "DropOldest"}
  MaxPushes = 2
  MaxRetries = 1
  ErrQueueClosed = ErrQueueClosed
  CtxErr = CtxErr
  NoEvent = NoEvent
PROPERTIES EventsSettle RunReturns
CHECK_DEADLOCK FALSE
