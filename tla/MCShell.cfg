SPECIFICATION FairSpec
CONSTANTS
  MaxCommands = 1
  Sizes = {2, 3}
  RingBytes = 6
  Notice = 1
  MaxChunks = 4
PROPERTIES
  WritesEnd
CHECK_DEADLOCK FALSE
