SPECIFICATION RotSpec
CONSTANTS
  n1 = n1  c1 = c1
  d1 = d1  d2 = d2  d3 = d3  i1 = i1  i2 = i2  i3 = i3
  Node = {n1}
  Caller = {c1}
  Decision = {d1, d2, d3}
  DecisionId = {i1, i2, i3}
  idOf <- MCIdOf
  home <- MCHome
  Outside = Outside
  NoCaller = NoCaller
  NoCall = NoCall
  Idle = Idle
  StateSync = StateSync
  Corrupt = Corrupt
  RecentCap = 1
  QueueBound = 1
  MaxExits = 2
  MaxIoErrors = 1
  MaxRot = 1
INVARIANTS
  ReadableIsKnown
PROPERTIES
  LiveJournalGrows
