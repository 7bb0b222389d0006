SPECIFICATION Spec
CONSTANTS
  MaxPolls = 2
  MaxCommands = 2
  MaxFaults = 0
INVARIANT ZeroMeansResponse
CHECK_DEADLOCK FALSE
