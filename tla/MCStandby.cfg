SPECIFICATION Spec
CONSTANTS
  Stores = {s1}
  Enters = {e1, e2}
  Bare = {b1}
  Configs = {c1, c2}
  Channels = {ch1, ch2}
  NoFilter = {c2}
  Parallel = FALSE
PROPERTY SleepsOnOwnChannel
CHECK_DEADLOCK FALSE
SYMMETRY Symmetry
