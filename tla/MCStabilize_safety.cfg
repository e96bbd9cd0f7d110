SPECIFICATION RFairSpec
CONSTANTS
  Width = 16
  Height = 9
  MinWidth = 8
  MinHeight = 4
  SwipeLists <- MCSwipeLists
  Lengths = {5, 8}
  Boxes <- MCBoxes
  VideoRequests <- MCVideoRequests
  DefaultTarget <- MCDefaultTarget
  Curves <- MCCurves
  Parts = 2
  TrackScale = 3
  DropThreshold = 16
  NCOEFFS = 1
  RoiWidth = 60
  WinTrans = TRUE
  Waits = 2
INVARIANTS TypeOK OneRecordPerPicture TrajectoryInRange OwnTracker
  RequestFollowed StartsOnPicture NothingLost PrevToCur NoBorder
PROPERTIES ImplementsVideo Ends
CHECK_DEADLOCK FALSE
