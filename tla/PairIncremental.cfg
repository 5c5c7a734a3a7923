SPECIFICATION FairSpec
CONSTANTS
  m1 = m1
  m2 = m2
  h1 = h1
  h2 = h2
  h3 = h3
  None = None
  MIds = {m1}
  Hashes = {h1, h2, h3}
  IDs = {1, 2, 3}
  SortedIDs = TRUE
  Live = {"a"}
  Arrivals <- HeaderMail
  MaxTag = 2
  MaxExpunge = 1
  MaxEpoch = 2
  MaxFaults = 2
  Incremental = TRUE
  FullResync = TRUE
  Direction = "both"
  ReadOnly = {}
  ReportsID = {"a", "b"}
  Unordered = {}
  LateMID = {}
  ServerMIDs = {}
  Rewrites = {}
  ServerHashes = {}
INVARIANTS
  NoDuplicates
  CacheSound
  IndexSound
  SecondPassIdle
PROPERTIES
  ImplementsTwoWaySync
  Converges
