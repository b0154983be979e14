SPECIFICATION Spec
CONSTANTS
  n1 = n1
  n2 = n2
  s1 = s1
  Operator = {n1, n2}
  Sentinel = {s1}
  Group = {1}
  GroupOf <- OneGroup
  Place <- AnyOrder
  NoLeader = NoLeader
  Unreadable = Unreadable
  AliveTime = 1
  Threshold = 1
  QueriesFail = FALSE
  BootQueriesFail = FALSE
  WaitCovers = TRUE
  Steady = {s1}
  MaxHeight = 4
  MaxLag = 1
  MaxFailures = 1
SYMMETRY OperatorSymmetry
INVARIANT
  AtMostOneActive
