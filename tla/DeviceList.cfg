SPECIFICATION Spec
CONSTANTS
  MaxDevices = 2
  MaxAttached = 3
  MaxCopies = 3
INVARIANTS
  TypeOK
  NothingHeldBetweenScans
  ListedWereRead
  FailureExplained
  LeaksNeedException
