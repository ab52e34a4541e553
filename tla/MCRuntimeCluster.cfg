SPECIFICATION Spec
CONSTANTS
  n1 = n1  n2 = n2  t1 = t1  t2 = t2  c1 = c1  c2 = c2
  d1 = d1  d1x = d1x  d2 = d2  i1 = i1  i2 = i2
  Node = {n1, n2}
  Tick = {t1, t2}
  Client = {c1}
  Caller = {t1, t2, c1}
  Decision = {d1, d1x}
  DecisionId = {i1, i2}
  idOf <- MCIdOf
  home <- MCOverlapHome
  peersOf <- MCPeersOneWay
  contacts <- MCContactsN1
  Outside = Outside
  NoCaller = NoCaller
  NoCall = NoCall
  Idle = Idle
  Quiet = Quiet
  StateSync = StateSync
  Corrupt = Corrupt
  RecentCap = 1
  QueueBound = 1
  MaxExits = 1
  MaxIoErrors = 0
  MaxAttempts = 2
SYMMETRY OverlapSymmetry
INVARIANTS
  ClusterTypeOK
  TicksCarryDurable
PROPERTIES
  ImplementsReplicatedJournal
