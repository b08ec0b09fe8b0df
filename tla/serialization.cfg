CONSTANTS
  Req = {r1, r2, r3}
  Queue = {}
  None = None
  IdMax = 4
  Profiles <- PlainOrBlocking
  DefaultTimeout = FALSE
  SendOutcomes = {"OK", "PENDING"}
  EarlyReplies = FALSE
  Reentrant = {}
  MaxDepth = 0
  MaxBlock = 1
SPECIFICATION Spec
SYMMETRY Symmetry
CHECK_DEADLOCK FALSE
INVARIANTS
  TypeOK
  BlockingAlone
  BlockReqInTable
  NothingLeftUnsent
  SendReqIsWritten
PROPERTIES
  DropUnblocks
