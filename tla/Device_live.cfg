SPECIFICATION FairSpec
CONSTANTS
  Owner = owner
  Clients = {c1}
  BatchLimit = 0
  MaxQueue = 2
  MaxErrors = 1
PROPERTIES
  OwnerCallsReturn
  ImplementsActionQueue
CHECK_DEADLOCK FALSE
