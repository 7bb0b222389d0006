SPECIFICATION Spec
CONSTANTS
  Built <- MCBuilt
  MaxLines = 3
INVARIANT UsedOnlyOpen
INVARIANT ClosedInTheEnd
INVARIANT HonestExit
INVARIANT FileYields
 
CHECK_DEADLOCK FALSE
