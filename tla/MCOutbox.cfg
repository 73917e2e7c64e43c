SPECIFICATION FairSpec
CONSTANTS
  Events = {e1, e2}
  Poppers = {p1, p2}
  Capacity = 2
  Policies = {"DropNewest", "DropOldest"}
  MaxPushes = 4
  ErrQueueClosed = ErrQueueClosed
  CtxErr = CtxErr
  NoEvent = NoEvent
INVARIANTS RingWellFormed NoLostWakeup StatsAccount
PROPERTIES Refinement QueuedIsServed PopUnblocks
