SPECIFICATION Spec
CONSTANTS
  a1 = a1
  a2 = a2
  m1 = m1
  m2 = m2
  none = none
  Agents = {a1, a2}
  Managers = {a1}
  Messages = {m1, m2}
  NoAgent = none
  NoQueue = none
  ReadLimit = 2
  MaxTokens = 2
  MaxFaults = 1
SYMMETRY Symmetry
INVARIANTS
  NoStranded
  
PROPERTIES
  ImplementsMailbox
  AbortedTurnLeavesNothing
