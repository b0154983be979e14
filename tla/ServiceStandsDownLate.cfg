SPECIFICATION Spec
CONSTANTS
  Caller = {"loop", "listener"}
  Stopper = {}
  Signal = {}
  MaxFailures = 0
  MaxRestarts = 0
INVARIANT
  PassiveMeansNoValidator
