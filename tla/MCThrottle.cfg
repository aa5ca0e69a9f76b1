SPECIFICATION FairSpec
CONSTANTS
  MinDelay = 9
  MaxDelay = 40
  MinBatchSize = 9
  AlphaTenths = 10
  IncreaseStep = 71
  CooldownTicks = 2
  WarmupSkip = 2
  CalibrationN = 2
  Recalibrate = TRUE
  StableCycles = 2
  MinSuccesses = 2
  HighPercent = 40
  LowPercent = 20
  ErrorUnit = 1
  Settings <- SettingsValue
  Latencies = {10, 23}
  HealthyLatency = 10
  MaxRequests = 3
INVARIANTS
  TypeOK
  ParamsInRange
PROPERTIES
  SlowToSpeedUp
  BackoffSlowsDown
  FullSpeedAgain
