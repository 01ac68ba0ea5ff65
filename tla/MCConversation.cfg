SPECIFICATION AllSpec
CONSTANTS
  bad = bad
  v1 = v1
  v2 = v2
  p1 = p1
  p2 = p2
  MaxIterations = 3
  Interval = 1
  MaxCalls = 2
  Keeps = {2}
  NoInt = bad
  PastLength = 2
  MaxChanges = 1
  Watchers = {v1, v2}
  Captures = {p1, p2}
  MaxCommands = 2
  Sizes = {2, 3}
  RingBytes = 2
  Notice = 1
  MaxChunks = 2
INVARIANTS
  
  SeenFullOnce
  
PROPERTIES
  SessionEnds
CHECK_DEADLOCK FALSE
