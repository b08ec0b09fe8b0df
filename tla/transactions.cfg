CONSTANTS
  Req = {r1, r2}
  Queue = {q1, q2}
  None = None
  IdMax = 3
  Profiles <- PlainOrForgotten
  DefaultTimeout = FALSE
  SendOutcomes = {"OK", "PENDING"}
  EarlyReplies = FALSE
  Reentrant = {"response", "owner"}
  MaxDepth = 1
  MaxBlock = 0
SPECIFICATION QueueSpec
SYMMETRY QueueSymmetry
CHECK_DEADLOCK FALSE
INVARIANTS
  OwnerQueueSound
  QueueHoldsLive
  TransactionIsolated
