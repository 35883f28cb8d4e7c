\* What the cache holds of products and lists when nobody writes.
SPECIFICATION Spec
CONSTANTS
  u1 = u1
  u2 = u2
  p = p
  q = q
  r1 = r1
  r2 = r2
  List = List
  Public = Public
  None = None
  User <- TwoUsers
  FirstUser = u1
  Product <- TwoProducts
  Op <- Ops
  Request <- TwoRequests
  MaxTenant = 2
  MaxVersion = 2
INVARIANTS CachedProductsAreCurrent
