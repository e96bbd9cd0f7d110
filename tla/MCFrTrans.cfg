SPECIFICATION FairSpec
CONSTANTS
  Files <- MCFiles
  Waits = 2
INVARIANTS TypeOK EveryPictureSomewhere SameNumbers FrontIsThere
PROPERTY SecondPassEnds
CHECK_DEADLOCK FALSE
