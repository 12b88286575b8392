SPECIFICATION FairSpec
CONSTANTS
  Packet = {1, 2, 3, 4}
  Cmd = {"upload", "other"}
  CmdOf <- MixedCmds
  LenOf <- MixedLens
  MESSAGE_HEAD_LEN = 2
  MAX_MESSAGE_LEN = 4
  MaxConn = 2
  RX_MAX_SIZE = 15
  MaxPackets = 4
PROPERTIES ImplementsLossyFifo EverySentIsParsed
CHECK_DEADLOCK FALSE
