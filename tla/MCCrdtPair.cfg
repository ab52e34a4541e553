SPECIFICATION ConnectedSpec
CONSTANTS
  v1 = v1  v2 = v2  g1 = g1
  Node = {1, 2}
  Value = {v1}
  Tag = {g1}
  NoValue = NoValue
  registered <- MCRegisterOnly
  Factor = 3
  Ttl = 5
  SyncWire = TRUE
  MayExpire = FALSE
  MayLimit = FALSE
  MayStop = FALSE
  MaxOps = 4
  MaxRepeats = 0
  MaxStarts = 1
INVARIANTS
  Converged
CHECK_DEADLOCK FALSE
