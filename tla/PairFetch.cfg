SPECIFICATION Spec
CONSTANTS
  m1 = m1
  m2 = m2
  h1 = h1
  h2 = h2
  h3 = h3
  None = None
  MIds = {m1}
  Hashes = {h1, h2, h3}
  IDs = {1, 2, 3}
  SortedIDs = TRUE
  Live = {"a", "b"}
  Arrivals <- PlainMail
  MaxTag = 2
  MaxExpunge = 0
  MaxEpoch = 1
  MaxFaults = 0
  Incremental = TRUE
  FullResync = TRUE
  Direction = "both"
  ReadOnly = {}
  ReportsID = {"a", "b"}
  Unordered = {}
  LateMID = {}
  ServerMIDs = {}
  Rewrites = {}
  ServerHashes = {h3}
PROPERTY
  FetchesOnlyNew
