\* Two requests at once on two devices of a user.
SPECIFICATION Spec
CONSTANTS
  u1 = u1
  x1 = x1
  x2 = x2
  t1 = t1
  t2 = t2
  t3 = t3
  r1 = r1
  r2 = r2
  User <- OneUser
  Sid <- TwoDevices
  UserOf <- OneOwner
  Jti <- ThreeTokens
  Expiring <- FirstOnes
  Request <- TwoRequests
INVARIANTS TypeOK OneLiveTokenPerSession
PROPERTIES LogoutAllEndsSessions ImplementsTokenChain
