SPECIFICATION Spec
CONSTANTS
  v1 = v1  v2 = v2  g1 = g1
  Node = {1, 2}
  Value = {v1}
  Tag = {g1}
  NoValue = NoValue
  registered <- MCRegisterBoth
  Factor = 3
  Ttl = 2
  SyncWire = FALSE
  MayExpire = TRUE
  MayLimit = TRUE
  MayStop = TRUE
  MaxOps = 2
  MaxRepeats = 1
  MaxStarts = 2
INVARIANTS
  CrdtTypeOK
  SameOpsSameState
  RunningNodesMeet
PROPERTIES
  OwnWriteWins
CHECK_DEADLOCK FALSE
