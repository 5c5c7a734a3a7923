SPECIFICATION Spec
CONSTANTS
  m1 = m1
  h1 = h1
  h2 = h2
  h3 = h3
  None = None
  MIds = {m1}
  Hashes = {h1, h2, h3}
  Input <- MCInput
  MaxMessages = 3
INVARIANTS
  IndexIsGreedy
  DeltaIsExact
CHECK_DEADLOCK FALSE
