\* One Session, a Command, two administrator calls.
SPECIFICATION Spec
CONSTANTS
  s1 = s1 s2 = s2 s3 = s3 c1 = c1 c2 = c2 c3 = c3
  a1 = a1 a2 = a2 m1 = m1 m2 = m2 k1 = k1 k2 = k2 d1 = d1 d2 = d2
  None = None
  Sessions = {s1}
  Commands = {c1}
  Agents = {a1}
  Machines = {m1}
  Keys = {k1}
  Admins = {d1, d2}
  Policies <- OnePolicy
  Request <- OneShortRequest
  Order <- OneOrder
  MaxClock = 2
INVARIANT AuthorityIsMandated
PROPERTY ImplementsLifecycle
