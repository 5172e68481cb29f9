SPECIFICATION FairSpec
CONSTANTS
  Txns = {x, y}
  ToDevice = {y}
  MaxFailures = 1
INVARIANTS
  VInv
  NeverCancelsItself
  NobodyIsStuck
PROPERTIES
  EventuallyVerified
CHECK_DEADLOCK FALSE
