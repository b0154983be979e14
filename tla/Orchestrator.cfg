SPECIFICATION FairSpec
CONSTANTS
  Rival = {r1, r2}
  Self = Self
  NoLeader = NoLeader
  AliveTime = 2
  NoLivenessThreshold = 2
  NoReadyThreshold = 1
  ServiceMode = {"orchestrator", "passive", "active", "noservice"}
  Requests = {"heartbeats", "orchestration", "passive", "active"}
  ChainFails = TRUE
INVARIANTS
  TypeOK
  ActiveIsLeader
PROPERTIES
  NotReadyGivesWay
  HeartbeatsOffMeansPassive
  SilentLeaderReplaced
