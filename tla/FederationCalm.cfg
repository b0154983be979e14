SPECIFICATION Spec
CONSTANTS
  n1 = n1
  n2 = n2
  s1 = s1
  Operator = {n1, n2}
  Sentinel = {s1}
  Group = {1, 2}
  GroupOf <- TwoGroups
  Place <- AnyOrder
  NoLeader = NoLeader
  Unreadable = Unreadable
  AliveTime = 1
  Threshold = 1
  QueriesFail = TRUE
  BootQueriesFail = FALSE
  WaitCovers = TRUE
  Steady = {s1}
  MaxHeight = 4
  MaxLag = 2
  MaxFailures = 0
SYMMETRY OperatorSymmetry
INVARIANTS
  AtMostOneActive
PROPERTIES
  ChallengedWasSilent
  PeersHeardBeforeActive
  StandsDownForCause
