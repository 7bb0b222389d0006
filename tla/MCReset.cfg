SPECIFICATION FairRSpec
CONSTANTS
  Procs = {p1, p2, p3}
  Pin = 17
  Plugged <- MCPlugged
  SerialNumbers <- MCSerialNumbers
  MaxLoc = 9
  MaxChannels = 4
INVARIANT ResetWorks
INVARIANT OwnAdapter
INVARIANT SoftResets
INVARIANT LastReleases
INVARIANT AllRelease
PROPERTY JtagAfterReset
PROPERTY ResetReturns
CHECK_DEADLOCK FALSE
