SPECIFICATION Spec
CONSTANTS
  Mail = {m1}
  Copy = {c1, c2}
  Info = {S}
  NoInfo = NoInfo
  Partial = Partial
  MaxTime = 1
  MaxAppend = 2
  MaxCrash = 1
INVARIANTS
  ScanComplete
  PathsCurrent
  NoPartialVisible
PROPERTY
  NeverOverwrites
