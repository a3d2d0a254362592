\* One call of RemoteWrite: up to seven series in chunks of three.
SPECIFICATION FairSpec
CONSTANTS
  MaxSeriesLength = 3
  Interval = 6
  Timeout = 1
  MaxPause = 2
  MaxLength = 7
\* The call returns and no request is left: the system stops.
CHECK_DEADLOCK FALSE
INVARIANTS
  OkMeansDelivered
  DeliveredInOrder
  RetriesFitInterval
PROPERTIES
  ImplementsDelivery
  CallReturns
