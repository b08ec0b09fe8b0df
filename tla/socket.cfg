CONSTANTS
  SubLen = 2
  HeaderLen = 2
  DataLens = {0, 1}
  LenLen = 2
  BodyLen = 2
  Kinds <- AllKinds
  SendIn <- ChannelSends
  ShutdownIn <- NotConnecting
  ReleaseIn <- AllSignals
  MaxSend = 3
  MaxRecv = 2
SPECIFICATION FairSpec
CHECK_DEADLOCK FALSE
INVARIANTS
  TypeOK
  WireFormat
  ReportedIsWritten
  ReadInStep
  RunsReferenced
PROPERTIES
  KeepsPromise
  EverythingRead
  LossIsTold
