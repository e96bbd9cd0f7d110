SPECIFICATION FairSpec
CONSTANTS
  Workers <- MCWorkers
  MaxRequests = 2
  None = None
INVARIANT JoinsProtect
PROPERTY ShutdownEnds
CHECK_DEADLOCK FALSE
