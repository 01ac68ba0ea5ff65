SPECIFICATION FairSpec
CONSTANTS
  a1 = a1
  a2 = a2
  w1 = w1
  w2 = w2
  w3 = w3
  none = none
  Agents = {a1}
  Queues = {w1, w2}
  NoQueue = none
  NoAgent = none
  NoWorker = none
  MaxTokens = 1
  MaxEvents = 1
  MaxRespawns = 1
PROPERTIES
  RemovalReturns
