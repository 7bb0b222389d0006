SPECIFICATION FairSpec
CONSTANTS
  SeparateSeconds = TRUE
  Sizes = {1, 3}
  MaxSecond = 3
  MaxCommands = 3
  MaxFaults = 2
INVARIANT MatchedResponse
PROPERTY ChannelSpec
PROPERTY SendReturns
CHECK_DEADLOCK FALSE
