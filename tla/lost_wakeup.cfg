CONSTANTS
  SubLen = 0
  HeaderLen = 1
  DataLens = {1}
  LenLen = 1
  BodyLen = 1
  Kinds <- AllKinds
  SendIn <- ChannelSends
  ShutdownIn = {}
  ReleaseIn = {}
  MaxSend = 2
  MaxRecv = 1
SPECIFICATION Spec
CHECK_DEADLOCK FALSE
INVARIANTS
  PartlyWrittenIsWatched
