SPECIFICATION ASpec
CONSTANTS
  HoldoffDuration = 4
  MinConsecutiveAnomalies = 2
  MinConsecutiveNormals = 2
  Gaps = {1, 4}
  MaxObs = 5
  Never = Never
  RingCapacity = 3
  Zero = Zero
  HeartbeatInterval = 5
  Loads = {2}
  MaxInjects = 2
INVARIANTS SnapshotIsRecent HeartbeatAccount BurstOfThree AlertContext
PROPERTY DriftAlerts
CHECK_DEADLOCK FALSE
