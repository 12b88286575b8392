SPECIFICATION Spec
CONSTANTS
  Robot = {0, 1, 2}
  Length = 2
  Point <- LinePoints
  Dist <- LineDist
  Origin = 0
  Bearing <- SpreadBearing
  CIRCLE = 8
  min_dis = 2
  wait_max_number = 2
  Slots = 3
  Calls <- MatchedCalls
INVARIANTS TurnsToTarget NeverBothAdvance SomebodyMoves WaitIsBounded HelloPlansRight
