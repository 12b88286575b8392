SPECIFICATION ListSpec
CONSTANTS
  T = 0
  Cells = {1, 2, 3, 4}
  Data <- SomeData
  MaxSize = 4
INVARIANT LinksAreRight
PROPERTY ImplementsSequence
