SPECIFICATION AllSpec
CONSTANTS
  v1 = v1
  v2 = v2
  a1 = a1
  r1 = r1
  r2 = r2
  r3 = r3
  u1 = u1
  u2 = u2
  u3 = u3
  c1 = c1
  c2 = c2
  none = none
  Users = {v1, v2}
  Agents = {a1}
  Rows = {r1, r2, r3}
  Units = {u1, u2, u3}
  Calls = {c1, c2}
  OwnerOf <- MCOwnerOf
  MaxPerUser = 1
  MaxRequests = 3
  None = none
  MaxChunk = 2
  Overlap = 1
  BatchSize = 2
  MaxDocs = 1
  MaxBytes = 4
  MaxFile = 5
  MaxAtOnce = 2
  Texts <- MCTexts
  MaxItems = 2
  MaxLines = 3
  MaxConnects = 2
  MaxAttempts = 1
  MaxTries = 2
SYMMETRY Symmetry
INVARIANTS
  AgreesWithPool
  LimitOvershoot
  QuotaOvershoot
  
  LogsComplete
  ViewersServed
CHECK_DEADLOCK FALSE
