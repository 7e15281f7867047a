SPECIFICATION FairSpec
CONSTANTS
  u1 = u1
  t1 = t1
  t2 = t2
  t3 = t3
  s1 = s1
  p1 = p1
  p2 = p2
  r1 = r1
  r2 = r2
  None = None
  User <- OneUser
  Token <- ThreeTokens
  SessionId <- OneSession
  Password <- OnePassword
  Req <- TwoRequests
  Threshold = 1
  LockTime = 1
  TokenLife <- Lives
  MaxFails = 2
  MaxTime = 0
PROPERTIES
  RequestsFinish
