\* Bodies of up to four families, with room for three.
SPECIFICATION FairSpec
CONSTANTS
  Limit = 3
  MaxFamilies = 4
\* The call returns: the system stops.
CHECK_DEADLOCK FALSE
INVARIANTS
  StatusErrorIsReturned
PROPERTIES
  ImplementsAnswer
  ExchangeEnds
