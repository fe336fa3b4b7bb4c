\* One Session, a Command, its retry and a second Command.
SPECIFICATION Spec
CONSTANTS
  s1 = s1 s2 = s2 s3 = s3 c1 = c1 c2 = c2 c3 = c3
  a1 = a1 a2 = a2 m1 = m1 m2 = m2 k1 = k1 k2 = k2 d1 = d1 d2 = d2
  None = None
  Sessions = {s1}
  Commands = {c1, c2, c3}
  Agents = {a1}
  Machines = {m1}
  Keys = {k1, k2}
  Admins = {}
  Policies <- TwoPolicies
  Request <- OneRequest
  Order <- RetriedOrder
  MaxClock = 4
INVARIANTS CommandReplayAgreement DeadlineReadIsCurrent
