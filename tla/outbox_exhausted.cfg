SPECIFICATION Spec
CONSTANTS
  m1 = m1
  m2 = m2
  w1 = w1
  w2 = w2
  NoClaim = NoClaim
  Message <- OneMessage
  Worker <- TwoWorkers
  BatchSize = 1
  MaxAttempts = 2
  SendTries = 1
  Lease = 1
  RetryBase = 1
  MaxFaults = 1
SYMMETRY Interchangeable
INVARIANTS
  ExhaustedIsFailed
