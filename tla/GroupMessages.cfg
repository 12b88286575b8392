SPECIFICATION Spec
CONSTANTS
  GroupInfo <- Groups
  NnInfo <- Neurons
  PacketSize = {5, 8, 24}
  MAX_GROUP_NUM = 3
  Lossy = TRUE
  MaxSent = 3
INVARIANTS LengthAsAnnounced WholeIsVerified AssemblesOneMessage StoredWithoutResidue
CHECK_DEADLOCK FALSE
