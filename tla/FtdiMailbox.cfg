SPECIFICATION FairSpec
CONSTANTS
  MaxPolls = 2
  MaxCommands = 3
  MaxFaults = 3
INVARIANT OwnResponse
INVARIANT ExecutedOnce
PROPERTY ChannelSpec
PROPERTY SendReturns
CHECK_DEADLOCK FALSE
