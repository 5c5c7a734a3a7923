SPECIFICATION Spec
CONSTANTS
  Daemon = {d1, d2}
  Command = {c1}
  NoProc = NoProc
  MaxCrash = 1
  DefaultPort = 993
  DefaultWorkers = 4
  DefaultBatch = 200
  DefaultRetries = 3
  DefaultStreak = 10
  File <- SomeFiles
  List <- SomeLists
SYMMETRY Daemons
INVARIANTS
  OneDaemon
  VersionIsTrue
  OpenHasColumns
  AcceptedRuns
  ListsFit
