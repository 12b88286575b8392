CONSTANTS
  host_size = 2
  RETRY_INTERVAL = 1
  HB_INTERVAL = 1
  CONNECT_TIMEOUT = 2
  RX_TIMEOUT = 1
  MaxLag = 1
  MaxAppended <- Messages
SPECIFICATION FairSpec
PROPERTIES ImplementsLossyFifo  AppendedIsDelivered
CHECK_DEADLOCK FALSE
