SPECIFICATION FairSpec
CONSTANTS
  UrbCount = 2
  BufferCount = 3
  BatchLimit = 1
  MaxSends = 12
INVARIANT TypeOK
PROPERTIES
  FailureNeedsOverrun
  EverythingReceived
