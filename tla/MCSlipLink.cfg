SPECIFICATION LinkSpec
CONSTANTS
  END = "END"
  ESC = "ESC"
  ESC_END = "ESC_END"
  ESC_ESC = "ESC_ESC"
  Plain = {"a"}
  Packets <- MCPackets
  Limit = 2
  MaxUpsets = 3
INVARIANT LinkTypeOK
PROPERTY IntactDelivered
PROPERTY NoPhantomFrame
