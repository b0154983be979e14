SPECIFICATION FairSpec
CONSTANTS
  Rival = {r1}
  Self = Self
  NoLeader = NoLeader
  AliveTime = 1
  NoLivenessThreshold = 2
  NoReadyThreshold = 2
  ServiceMode = {"orchestrator"}
  Requests = {}
  ChainFails = FALSE
PROPERTY
  HeartbeatsRecover
