SPECIFICATION FairSpec
CONSTANTS
  n1 = n1
  n2 = n2
  s1 = s1
  Operator = {n1, n2}
  Sentinel = {s1}
  Group = {1}
  GroupOf <- OneGroup
  Place <- ListOrder
  NoLeader = NoLeader
  Unreadable = Unreadable
  AliveTime = 1
  Threshold = 0
  QueriesFail = FALSE
  BootQueriesFail = TRUE
  WaitCovers = FALSE
  Steady = {s1, n1}
  MaxHeight = 4
  MaxLag = 1
  MaxFailures = 1
INVARIANTS
  TypeOK
  HeartbeatsFollowChain
  ActiveIsLeaderSeen
PROPERTIES
  DemotedStandsDown
