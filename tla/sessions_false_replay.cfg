SPECIFICATION Spec
CONSTANTS
  u1 = u1
  u2 = u2
  s1 = s1
  s2 = s2
  t1 = t1
  t2 = t2
  t3 = t3
  r1 = r1
  r2 = r2
  r3 = r3
  None = None
  User <- OneUser
  SessionId <- TwoSessions
  TokenId <- TwoTokens
  Req <- TwoRequests
  Ttl = 1
  AccessTtl = 1
  MaxTime = 0
SYMMETRY Interchangeable
INVARIANTS
  CompromiseMeansReplay
