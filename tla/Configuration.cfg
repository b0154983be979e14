SPECIFICATION Spec
CONSTANTS
  MaxNodes = 5
  NodeId = {3, 4, 5}
  MaxEdits = 2
  MaxGenerations = 2
  Password = {"p", "q"}
CHECK_DEADLOCK FALSE
INVARIANTS
  FilesOfOneGeneration
  AlignedRunsAsDrawn
PROPERTY
  ChainComesUp
