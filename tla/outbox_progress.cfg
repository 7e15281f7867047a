SPECIFICATION FairSpec
CONSTANTS
  m1 = m1
  m2 = m2
  w1 = w1
  w2 = w2
  NoClaim = NoClaim
  Message <- TwoMessages
  Worker <- TwoWorkers
  BatchSize = 2
  MaxAttempts = 2
  SendTries = 1
  Lease = 1
  RetryBase = 1
  MaxFaults = 1
INVARIANTS
  TypeOK
  AttemptsExclusive
  DeliveredWasAccepted
  CopiesBounded
PROPERTIES
  OutcomesAreFinal
  NothingForgotten
  Settles
