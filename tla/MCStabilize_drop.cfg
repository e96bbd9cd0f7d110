SPECIFICATION RSpec
CONSTANTS
  Width = 16
  Height = 9
  MinWidth = 8
  MinHeight = 4
  SwipeLists <- MCSwipeLists
  Lengths = {5, 8}
  Boxes <- MCBoxes
  VideoRequests <- MCVideoRequests
  DefaultTarget <- MCDefaultTarget
  Curves <- MCCurves
  Parts = 2
  TrackScale = 3
  DropThreshold = 16
  NCOEFFS = 1
  RoiWidth = 60
  WinTrans = TRUE
  Waits = 2
INVARIANT RemovedNotShown
CHECK_DEADLOCK FALSE
