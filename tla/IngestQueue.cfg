SPECIFICATION FairSpec
CONSTANTS
  Messages = {m1, m2}
  Invocations = {i1, i2}
  BatchSize = 2
  MaxReceiveCount = 2
  VisibilityTimeout = 4
  MaxWait = 1
  FunctionTimeout = 2
INVARIANTS
  TypeOK
  LeaseExclusive
  NothingDroppedUnprocessed
PROPERTIES
  ImplementsDelivery
  EverySentMessageSettles
CHECK_DEADLOCK FALSE
