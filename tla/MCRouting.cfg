SPECIFICATION Spec
CONSTANTS
  Models = {"anthropic", "kimi"}
  MaxKeys = 1
  MaxEdits = 1
INVARIANTS
  UserKeyUsed
