SPECIFICATION AllSpec
CONSTANTS
  t1 = t1
  t2 = t2
  a1 = a1
  a2 = a2
  c1 = c1
  c2 = c2
  k1 = k1
  none = none
  BoardTasks = {k1}
  Calls = {c1, c2}
  NoCall = none
  NoTask = none
  MaxWrites = 4
  Tasks = {t1, t2}
  NoAgent = none
  Agents = {a1, a2}
  Managers = {a1}
  NewStatuses = {"backlog", "review"}
  MaxRequests = 3
  Things = {t1, t2}
  MaxCheckouts = 2
  MaxEvents = 3
  MaxFaults = 1
  Editors = {1, 2, 3}
  MaxVersions = 2
  MaxEdits = 5
  Natives <- OneNative
  ServerNames <- TwoNames
  Offers <- TwoOffers
  MaxRows = 2
  MaxChanges = 3
  MaxSaves = 2
  MaxClicks = 3
  Manifests <- FiveManifests
  Chosen <- TwoNamesGiven
SYMMETRY Symmetry
INVARIANTS
  
  CurrentIsAssigned
  FollowsStripe
  
  ForeignHasACause
PROPERTIES
  EditKept
  
  
CHECK_DEADLOCK FALSE
