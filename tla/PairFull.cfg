SPECIFICATION Spec
CONSTANTS
  m1 = m1
  m2 = m2
  h1 = h1
  h2 = h2
  h3 = h3
  None = None
  MIds = {m1, m2}
  Hashes = {h1, h2, h3}
  IDs = {1, 2, 3}
  SortedIDs = TRUE
  Live = {"a", "b"}
  Arrivals <- ChainedMail
  MaxTag = 3
  MaxExpunge = 0
  MaxEpoch = 1
  MaxFaults = 1
  Incremental = FALSE
  FullResync = TRUE
  Direction = "both"
  ReadOnly = {}
  ReportsID = {"a", "b"}
  Unordered = {}
  LateMID = {"b"}
  ServerMIDs = {m2}
  Rewrites = {"b"}
  ServerHashes = {h3}
INVARIANTS
  SecondPassIdle
PROPERTY
  ImplementsTwoWaySync
