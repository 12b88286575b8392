SPECIFICATION LinkSpec
CONSTANTS
  Fcs <- FletcherFcs
  MaxFrame = 24
  Messages <- SomeMessages
  Fresh <- FreshInfo
  Junk <- SomeJunk
  ReadSizes = {1, 3, 8}
  MaxShort = 2
  MaxConnects = 2
  MaxSent = 2
INVARIANTS UncutIsDelivered StoredAsSent OnceInOrder
CHECK_DEADLOCK FALSE
