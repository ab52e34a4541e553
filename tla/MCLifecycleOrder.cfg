SPECIFICATION Spec
CONSTANTS
  n1 = n1  n2 = n2  r1 = r1  r2 = r2
  Node = {n1, n2}
  Replica = {r1, r2}
  ClusterId = ClusterId
  None = None
  rank <- MCRank
  Options <- MCDefault
  MaxEvents <- MCOrder
SYMMETRY ReplicaSymmetry
INVARIANTS
  LifecycleTypeOK
  PhaseFollowsNodes
  NoBarrierResidue
  SameEventsSameView
  FailureNeverRefused
  ExecutedIsJournalled
PROPERTIES
  HistoryOnlyGrows
