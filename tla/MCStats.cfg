SPECIFICATION FairSpec
CONSTANTS
  Cores <- MCCores
  Replies <- MCReplies
  Sections <- MCSections
  Unknown = "none"
  Lengths = {0, 8}
  Room = 17
INVARIANT ShownWhole
INVARIANT WalkBounded
INVARIANT DoneAsAsked
INVARIANT JsonWellFormed
PROPERTY ChannelSteps
PROPERTY StatsReturns
