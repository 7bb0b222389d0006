SPECIFICATION FairSpec
CONSTANTS
  Files <- MCFiles
  Chip = {1, 2, 3, 4, 5, 6, 7}
  Flash = {6, 7}
  NoBase = {3}
  Block = 2
  Window = 4
  MaxFaults = 1
INVARIANT ImageLoaded
INVARIANT NothingElseWritten
PROPERTY LoadReturns
CHECK_DEADLOCK FALSE
