SPECIFICATION FairSpec
CONSTANTS
  Caller = {c1, c2, c3}
  MaxRevoke = 1
  MaxExpire = 1
  NoCaller = NoCaller
INVARIANTS
  NoStampede
  FreshRetry
PROPERTY
  CallReturns
