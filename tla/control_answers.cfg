\* Breaks and crashes, two of them, and answers that arrive all the same.
SPECIFICATION FairSpec
CONSTANTS
  s1 = s1 c1 = c1 a1 = a1 m1 = m1 k1 = k1
  None = None
  Sessions = {s1}
  Commands = {c1}
  Agents = {a1}
  Machines = {m1}
  Keys = {k1}
  Policies <- OnePolicy
  Request <- OneRequest
  Order <- OneOrder
  MaxClock = 0
  SessionLimit = 1
  CommandLimit = 1
  BufferLimit = 1
  ClosedLimit = 1
  WireLimit = 1
  FaultKinds = {"break", "crash"}
  MaxFaults = 2
  SendLimit = 1
PROPERTIES WithdrawalIsAnswered ResultsReachTheServer
CHECK_DEADLOCK FALSE
