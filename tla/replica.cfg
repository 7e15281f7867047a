SPECIFICATION FairSpec
CONSTANTS
  c1 = c1
  c2 = c2
  Conn <- TwoConnections
  PoolSize = 1
  Quota <- SmallQuota
INVARIANTS
  TypeOK
  ServedBeforeClosed
  AttemptsLimited
PROPERTIES
  NothingHangs
