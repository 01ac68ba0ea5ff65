SPECIFICATION FairSpec
CONSTANTS
  a1 = a1
  a2 = a2
  m1 = m1
  m2 = m2
  none = none
  Agents = {a1, a2}
  Managers = {a1}
  Messages = {m1}
  NoAgent = none
  NoQueue = none
  ReadLimit = 1
  MaxTokens = 1
  MaxFaults = 2
PROPERTIES
  Delivered
