SPECIFICATION FairSpec
CONSTANTS
  Owner = owner
  Clients = {c1}
  BatchLimit = 0
  MaxQueue = 1
  MaxErrors = 1
PROPERTY BarrierReturns
CHECK_DEADLOCK FALSE
