SPECIFICATION Spec
CONSTANTS
  a = a  b = b  e1 = e1
  Node = {a, b}
  Event = {e1}
  Durable = {a, b}
  NoRequest = NoRequest
  MaxWork = 4
  MaxIndex = 2
INVARIANTS
  AuditTypeOK
  Provenance
  OpensUnlessTorn
  AppliedOnceAudited
PROPERTIES
  HistoryKept
SYMMETRY Mirror
CHECK_DEADLOCK FALSE
