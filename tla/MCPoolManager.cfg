SPECIFICATION BothSpec
CONSTANTS
  a1 = a1
  h1 = h1
  h2 = h2
  h3 = h3
  d1 = d1
  d2 = d2
  c1 = c1
  c2 = c2
  monitor = monitor
  sweeper = sweeper
  none = none
  Agents = {a1}
  HeadlessUnits = {h1, h2, h3}
  DesktopUnits = {d1, d2}
  HeadlessPorts = {1, 2, 3}
  DesktopPorts = {11, 12}
  Cost <- SmallCost
  Capacity <- SmallCapacity
  Limit <- SmallLimit
  MaxTotal = 3
  Calls = {c1, c2}
  Monitor = monitor
  Sweeper = sweeper
  NoUnit = none
  NoAgent = none
SYMMETRY Symmetry
INVARIANTS
  BooksExact
  PortsExclusive
  NobodyForgotten
  IndInv
VIEW ReadLater
