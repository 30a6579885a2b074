SPECIFICATION Spec
CONSTANTS
  Owner = owner
  Clients = {c1, c2}
  BatchLimit = 0
  MaxQueue = 1
  MaxErrors = 1
SYMMETRY Symmetry
INVARIANTS
  TypeOK
  HandleHandoff
  WorkerHasQueues
  BlockedCallAccounted
  OwnerNotAbandoned
  NothingOfOwnerBehindClose
  CrashNeedsClient
  SendRunBounded
  IInv
CHECK_DEADLOCK FALSE
