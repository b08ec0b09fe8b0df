CONSTANTS
  Req = {r1, r2}
  Queue = {}
  None = None
  IdMax = 3
  Profiles <- OnlyTimed
  DefaultTimeout = FALSE
  SendOutcomes = {"OK"}
  EarlyReplies = FALSE
  Reentrant = {"response"}
  MaxDepth = 1
  MaxBlock = 0
SPECIFICATION Spec
SYMMETRY Symmetry
CHECK_DEADLOCK FALSE
PROPERTIES
  CancelledStays
