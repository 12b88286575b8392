SPECIFICATION ChainFairSpec
CONSTANTS
  MaxPosted = 3
  MaxEvents = 2
  MaxBuffered = 1
  MaxTexts = 2
  Text <- Texts
INVARIANTS CommandsRunInOrder
PROPERTIES ImplementsLossyFifo Reconnects QueuedIsDelivered
