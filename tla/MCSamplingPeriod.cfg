SPECIFICATION Spec
CONSTANTS
  RateTauMin = 0
  RateTauMax = 7
  RateTheta = 4
  ScrapeInterval = 5
  DriftThreshold = 2
  TauRecoveryStep = 2
  ZScores <- MCZScores
  DriftIndexes <- MCDriftIndexes
  MaxTicks = 9
  NaN = NaN
INVARIANT TickerPeriodPositive
CHECK_DEADLOCK FALSE
