SPECIFICATION PostSpec
CONSTANTS
  Robot = {0, 1}
  INTERVAL_POST_TASK = 2
  RoundTime = 2
  Day = 12
INVARIANTS NoDataRace RoundIsConsistent AtMostOneLateMove
