SPECIFICATION Spec
CONSTANTS
  KeyCount = 6
  Importer = {"cycle", "listener"}
  MaxFailures = 2
INVARIANT
  ReadyHasAllKeys
CHECK_DEADLOCK FALSE
