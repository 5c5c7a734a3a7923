SPECIFICATION Spec
CONSTANTS
  User = {u1}
  Keep = 2
  MaxTime = 3
  MaxBack = 1
  MaxRuns = 5
INVARIANTS
  StatusTellsRuns
  HistoryMatchesStatus
  RemovedUnlessOnList
