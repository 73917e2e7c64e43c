SPECIFICATION SSpec
CONSTANTS
  HoldoffDuration = 10
  MinConsecutiveAnomalies = 2
  MinConsecutiveNormals = 3
  Gaps = {1, 5}
  MaxObs = 8
  Never = Never
PROPERTY HoldoffIsMinimum
