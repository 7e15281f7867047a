SPECIFICATION Spec
CONSTANTS
  u1 = u1
  s1 = s1
  s2 = s2
  t1 = t1
  t2 = t2
  t3 = t3
  r1 = r1
  r2 = r2
  admin = admin
  text = text
  secret = secret
  AccessKey = secret
  RefreshKey = secret
  None = None
  Absent = Absent
  User <- OneUser
  SessionId <- OneSession
  TokenId <- TwoTokens
  Role <- OneRole
  Text <- OneText
  Inputs <- ThreeInputs
  Req <- TwoRequests
  Ttl = 2
  AccessTtl = 1
  MaxTime = 2
SYMMETRY Interchangeable
INVARIANTS
  TypeOK
  AccessEndsSoon
PROPERTIES
  RolesHeldMeanwhile
  UpdateWhole
