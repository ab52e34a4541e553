SPECIFICATION NodeSpec
CONSTANTS
  n1 = n1  c1 = c1  c2 = c2
  d1 = d1  d1x = d1x  d2 = d2  i1 = i1  i2 = i2
  Node = {n1}
  Caller = {c1, c2}
  Decision = {d1, d1x, d2}
  DecisionId = {i1, i2}
  idOf <- MCIdOf
  home <- MCHome
  Outside = Outside
  NoCaller = NoCaller
  NoCall = NoCall
  Idle = Idle
  StateSync = StateSync
  Corrupt = Corrupt
  RecentCap = 1
  QueueBound = 2
  MaxExits = 2
  MaxIoErrors = 1
SYMMETRY ClientSymmetry
INVARIANTS
  TypeOK
  MemoryMatchesDisk
  SnapshotNeverAhead
  EveryFileCounts
  AcceptedIsDurable
  GossipsOnlyDurable
  OneTaskPerCall
PROPERTIES
  JournalAppendOnly
