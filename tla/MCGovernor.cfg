SPECIFICATION GSpec
CONSTANTS
  HoldoffDuration = 6
  MinConsecutiveAnomalies = 2
  MinConsecutiveNormals = 3
  Gaps = {1, 4}
  MaxObs = 9
  Never = Never
  MaxWriteFailures = 2
  MaxRestarts = 1
INVARIANTS ModeIsTruth QuotaFollowsState
PROPERTIES AlertSpacing TelemetryOnly
CHECK_DEADLOCK FALSE
