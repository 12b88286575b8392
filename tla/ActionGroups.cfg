SPECIFICATION Spec
CONSTANTS
  T = 0
  Cells = {1, 2, 3, 4, 5, 6}
  Groups = {0, 1}
  Actions <- SomeActions
  Messages <- SomeMessages
  MaxActions = 2
  MaxLost = 1
  MaxCounted = 2
  CountStep = 2
  ClockSize = 4
INVARIANTS OnlySpeakersLeak StatusIsCurrent StopsOnTime
