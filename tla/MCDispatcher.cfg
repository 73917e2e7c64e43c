SPECIFICATION Spec
CONSTANTS
  Events = {1, 2, 3}
  Poppers = {w1, w2}
  Capacity = 1
  Policies = {"DropOldest"}
  MaxPushes = 3
  MaxRetries = 1
  ErrQueueClosed = ErrQueueClosed
  CtxErr = CtxErr
  NoEvent = NoEvent
SYMMETRY WorkerSymmetry
INVARIANTS
  DispatchAccount DispatchedWasAccepted OneWorkerPerEvent
  BoundedDuplicates NoSilentLoss RetriesExecuted
CHECK_DEADLOCK FALSE
