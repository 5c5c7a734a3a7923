SPECIFICATION FairSpec
CONSTANTS
  NPairs = 2
  ConnectRetries = 1
  MaxFailStreak = 2
  StreakCap = 2
INVARIANTS
  NoConnectionLeak
  OneRetryPerPair
  OkMeansSynced
PROPERTY
  RunReturns
