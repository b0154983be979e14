SPECIFICATION FairSpec
CONSTANTS
  Sender = {"heartbeat", "cycle"}
  LastBlockThreshold = 2
  FinalizedGap = 3
  FinalityLag = 1
  MaxFailures = 1
INVARIANT
  TypeOK
PROPERTIES
  SickChainSilences
  WatchesSettle
  HeartbeatsResume
