SPECIFICATION Spec
CONSTANTS
  Window = 16
  Key = 2
  Space = 128
  Block = 8
  Word = 2
  Requests <- MCRequests
  MaxCalls = 2
  MaxFaults = 1
INVARIANT WithinWindow
INVARIANT Faithful
CHECK_DEADLOCK FALSE
