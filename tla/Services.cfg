SPECIFICATION FairSpec
CONSTANTS
  Caller = {"loop", "listener"}
  Stopper = {"stop"}
  Signal = {"SIGTERM"}
  MaxFailures = 2
  MaxRestarts = 1
CHECK_DEADLOCK FALSE
INVARIANTS
  TypeOK
  CleanUpIsLocked
  OneContainerInTurn
  PassiveInTurn
  ExitInTurn
  OneVolume
PROPERTIES
  BootComesUp
  ValidatorStops
  SyncComesBack
