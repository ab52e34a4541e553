SPECIFICATION ReconcilingSpec
CONSTANTS
  n1 = n1  n2 = n2  t1 = t1  t2 = t2  c1 = c1  c2 = c2
  d1 = d1  d1x = d1x  d2 = d2  i1 = i1  i2 = i2
  Node = {n1}
  Tick = {}
  Client = {c1, c2}
  Caller = {c1, c2}
  Decision = {d1, d1x}
  DecisionId = {i1, i2}
  idOf <- MCIdOf
  home <- MCHome
  peersOf <- MCNoPeers
  contacts <- MCContacts
  Outside = Outside
  NoCaller = NoCaller
  NoCall = NoCall
  Idle = Idle
  Quiet = Quiet
  StateSync = StateSync
  Corrupt = Corrupt
  RecentCap = 1
  QueueBound = 2
  MaxExits = 2
  MaxIoErrors = 1
  MaxAttempts = 1
PROPERTIES
  ReconciliationConverges
  EveryCallEnds
  EveryStopEnds
