SPECIFICATION Spec
CONSTANTS
  Owner = owner
  Clients = {}
  BatchLimit = 0
  MaxQueue = 1
  MaxErrors = 1
  UrbCount = 2
  MaxTransfers = 2
INVARIANTS
  RingFollowsDevice
  FreedWhenQuiet
PROPERTY
  UrbsAreEmptied
