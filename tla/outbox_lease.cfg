SPECIFICATION Spec
CONSTANTS
  m1 = m1
  m2 = m2
  w1 = w1
  w2 = w2
  NoClaim = NoClaim
  Message <- OneMessage
  Worker <- TwoWorkers
  BatchSize = 1
  MaxAttempts = 3
  SendTries = 1
  Lease = 2
  RetryBase = 1
  MaxFaults = 0
SYMMETRY Interchangeable
INVARIANTS
  LeaseExcludes
