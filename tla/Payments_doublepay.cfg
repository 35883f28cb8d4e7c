\* Two requests that pay for one order with different keys, on MySQL's isolation.
SPECIFICATION Spec
CONSTANTS
  o1 = o1
  t1 = t1
  t2 = t2
  k1 = k1
  k2 = k2
  k3 = k3
  ref = ref
  s1 = s1
  s2 = s2
  s3 = s3
  p1 = p1
  p2 = p2
  p3 = p3
  None = None
  Order <- OneOrder
  Total <- Totals
  Tenant <- Tenants
  TenantOf <- Owners
  Payment <- TwoPayments
  Key <- Keys
  Reference <- References
  Session <- TwoSessions
  PayRequest <- TwoKeys
  RefundRequest <- NoRefunds
  Isolation = "REPEATABLE READ"
INVARIANTS NetPaidWithinTotal
