CONSTANTS
  Req = {r1, r2}
  Queue = {}
  None = None
  IdMax = 4
  Profiles <- WithForgotten
  DefaultTimeout = TRUE
  SendOutcomes = {"OK", "ERROR"}
  EarlyReplies = FALSE
  Reentrant = {}
  MaxDepth = 0
  MaxBlock = 1
SPECIFICATION Spec
SYMMETRY Symmetry
CHECK_DEADLOCK FALSE
INVARIANTS
  ListInv
  ListIntegrity
  TimerArmed
