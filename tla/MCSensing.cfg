SPECIFICATION LSpec
CONSTANTS
  NaN = NaN
  Percent = 4
  Counters = 32
  CPUDeltas <- MCCPUDeltas
  MemReadings <- MCMemReadings
  MaxFaults = 1
  alphaInv = 10
  alphaSlowInv = 100
  minSamples = 2
  threshold = 30
  driftThreshold = 150
  One = 4
  Sigma = 10
  MaxScore = 20
  HoldoffDuration = 12
  MinConsecutiveAnomalies = 2
  MinConsecutiveNormals = 3
  Gaps = {}
  MaxObs = 5
  Never = Never
  RateTauMin = 3
  RateTauMax = 10
  RateTheta = 35
  ScrapeInterval = 5
  DriftThreshold = 150
  TauRecoveryStep = 2
  ZScores = {}
  DriftIndexes = {}
  MaxTicks = 5
  FloorPct = 5
  MaxInjects = 1
INVARIANTS FedEveryTick UsageInRange BaselineInRange SaturationAlerts BurstAlerts IntervalBounded
PROPERTY NoChattering
CHECK_DEADLOCK FALSE
