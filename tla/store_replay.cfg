\* Three requestSession calls under one idempotency key.
SPECIFICATION FairSpec
CONSTANTS
  s1 = s1 s2 = s2 s3 = s3 c1 = c1 c2 = c2 c3 = c3
  a1 = a1 a2 = a2 m1 = m1 m2 = m2 k1 = k1 k2 = k2 d1 = d1 d2 = d2
  None = None
  Sessions = {s1, s2, s3}
  Commands = {}
  Agents = {a1}
  Machines = {m1}
  Keys = {k1}
  Admins = {}
  Policies <- TwoPolicies
  Request <- SameKeyRequest
  Order <- NoOrder
  MaxClock = 4
INVARIANTS TypeOK ReplayAgreement AuthorityWindow
PROPERTY AuthorityEnds
