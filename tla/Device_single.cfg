SPECIFICATION FairSpec
CONSTANTS
  Owner = owner
  Clients = {}
  BatchLimit = 0
  MaxQueue = 4
  MaxErrors = 2
INVARIANT CrashNeedsClient
PROPERTY ImplementsActionQueue
