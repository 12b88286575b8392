SPECIFICATION Spec
CONSTANTS
  Packet = {1, 2, 3}
  Cmd = {"upload", "other"}
  CmdOf <- LongCmds
  LenOf <- LongBetween
  MESSAGE_HEAD_LEN = 2
  MAX_MESSAGE_LEN = 4
  MaxConn = 3
  RX_MAX_SIZE = 3
  MaxPackets = 3
INVARIANTS BoundedBuffering NewestClientServed OnlyCutHeadersAreLost OneMixedPerReconnect NoPhantomAfterReal
CHECK_DEADLOCK FALSE
