SPECIFICATION FairSpec
CONSTANTS
  KeyCount = 4
  Importer = {"cycle", "listener"}
  MaxFailures = 2
CHECK_DEADLOCK FALSE
INVARIANTS
  TypeOK
  ListedIsStored
PROPERTY
  KeysArrive
