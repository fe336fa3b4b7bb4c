\* A closure that does not wait for a termination a timer started.
SPECIFICATION Spec
CONSTANTS
  s1 = s1 s2 = s2 c1 = c1 c2 = c2
  Sessions = {s1}
  Commands = {c1}
  SessionOf <- OneCommand
  Admissible = {s1}
  SessionLimit = 1
  CommandLimit = 1
  BufferLimit = 1
  ClosedLimit = 1
  WireLimit = 1
INVARIANT ClosedMeansGroupsEnded
CHECK_DEADLOCK FALSE
