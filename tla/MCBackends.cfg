SPECIFICATION BothSpec
CONSTANTS
  a1 = a1
  a2 = a2
  s1 = s1
  s2 = s2
  s3 = s3
  c1 = c1
  c2 = c2
  none = none
  Sandboxes = {s1, s2, s3}
  Agents = {a1, a2}
  Calls = {c1, c2}
  MaxSandboxes = 2
  MaxFaults = 1
  NoAgent = none
  Blank = blank
  blank = blank
  NoSandbox = none
  NumIds = 2
  HostFaults = 2
  HeadlessPorts = {1}
  DesktopPorts = {11, 12}
SYMMETRY Symmetry
CONSTRAINT OneSandboxOrQuiet
INVARIANTS
  MapPointsHome
  
  
  HostInOrder
