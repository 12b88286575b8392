SPECIFICATION Spec
CONSTANTS
  Robot = {0, 1}
  Length = 4
  Point <- LinePoints
  Dist <- LineDist
  Initial <- TwoPlaces
  MARKER_MAX_DISTANCE = 3
  ROBOT_LOOSE_FRAME_COUNT = 2
  Reach = 1
  Apart = 3
  MaxFrames = 4
INVARIANTS ListAndHistoryAgree ReportedWasSeen IdentityKept NobodyMissing
CHECK_DEADLOCK FALSE
