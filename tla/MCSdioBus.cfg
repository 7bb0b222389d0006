SPECIFICATION BSpec
CONSTANTS
  BlockSize = 2
  Interblock = 8
  PostByte = 5
  MaxXfer = 24
  MaxLoops = 3
  Late = 4
  Leftovers <- MCLeftovers
  ShortReads = {0, 1, 3, 6, 7, 8, 12, 16, 20}
  MaxUpsets = 1
  Content <- MCContent
  OutOfStep <- MCOutOfStep
  SdioRequests <- MCRequests
  MoodsFor <- MCMoodsFor
INVARIANTS
  Carried
  Recovered
