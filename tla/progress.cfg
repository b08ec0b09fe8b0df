CONSTANTS
  Req = {r1, r2}
  Queue = {}
  None = None
  IdMax = 4
  Profiles <- TimedRetriedOrBlocking
  DefaultTimeout = FALSE
  SendOutcomes = {"OK"}
  EarlyReplies = FALSE
  Reentrant = {}
  MaxDepth = 0
  MaxBlock = 0
SPECIFICATION FairSpec
CHECK_DEADLOCK FALSE
PROPERTIES
  Settles
  QueueMoves
