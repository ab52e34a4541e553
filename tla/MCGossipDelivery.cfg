SPECIFICATION FairSpec
CONSTANTS
  n1 = n1  n2 = n2  t1 = t1  t2 = t2  c1 = c1  c2 = c2
  d1 = d1  d1x = d1x  d2 = d2  i1 = i1  i2 = i2
  Node = {n1, n2}
  Tick <- MCOneTick
  Client = {c1}
  Caller <- MCOneTickCaller
  Decision = {d1, d2}
  DecisionId = {i1, i2}
  idOf <- MCIdOf
  home <- MCHome
  peersOf <- MCPeersOneWay
  contacts <- MCContactsN1
  Outside = Outside
  NoCaller = NoCaller
  NoCall = NoCall
  Idle = Idle
  Quiet = Quiet
  StateSync = StateSync
  Corrupt = Corrupt
  RecentCap = 1
  QueueBound = 1
  MaxExits = 1
  MaxIoErrors = 0
  MaxAttempts = 1
PROPERTIES
  OfferedReachesPeers
  GossipLosesOnlyOverflow
