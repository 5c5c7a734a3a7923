SPECIFICATION FairPoolSpec
CONSTANTS
  User = {u1, u2, u3}
  CfgWorkers = 2
  None = None
INVARIANTS
  ExactlyOnce
  QuietBetweenCycles
  StatsMatchWorkers
PROPERTIES
  ShutdownCompletes
  CyclesGoOn
