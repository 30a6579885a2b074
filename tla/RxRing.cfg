SPECIFICATION Spec
CONSTANTS
  UrbCount = 3
  MaxTransfers = 5
INVARIANTS
  TypeOK
  OneReadPerBuffer
  AtMostOnce
  FirstRoundInOrder
  StampsOfThisOpen
PROPERTIES
  LossIsReported
  ErrorAgrees
