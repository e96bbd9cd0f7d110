SPECIFICATION FairSpec
CONSTANTS
  Threads <- MCThreads
  Scripts <- MCScripts
  MaxCalls = 2
INVARIANTS TypeOK NobodySleepsOverThings
PROPERTIES ImplementsFifo AllReturn
CHECK_DEADLOCK FALSE
