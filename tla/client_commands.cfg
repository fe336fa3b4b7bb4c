\* Two Commands of one Session, run, timed out and cancelled at once.
SPECIFICATION Spec
CONSTANTS
  s1 = s1 s2 = s2 c1 = c1 c2 = c2
  Sessions = {s1}
  Commands = {c1, c2}
  SessionOf <- TwoCommands
  Admissible = {s1}
  SessionLimit = 1
  CommandLimit = 2
  BufferLimit = 1
  ClosedLimit = 1
  WireLimit = 1
INVARIANTS TypeOK ResultsAreTrue HaltedMeansStopped
PROPERTIES RunsOnce ResultIsFinal
CHECK_DEADLOCK FALSE
