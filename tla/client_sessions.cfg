\* Two Sessions, one of them with a Command; a full buffer and closedSessions.
SPECIFICATION FairSpec
CONSTANTS
  s1 = s1 s2 = s2 c1 = c1 c2 = c2
  Sessions = {s1, s2}
  Commands = {c1}
  SessionOf <- OneCommand
  Admissible = {s1, s2}
  SessionLimit = 1
  CommandLimit = 1
  BufferLimit = 1
  ClosedLimit = 1
  WireLimit = 1
PROPERTIES ClosedMeansFinished QuarantineHolds LapsedEnds HandlerReturns StoppingHalts
CHECK_DEADLOCK FALSE
