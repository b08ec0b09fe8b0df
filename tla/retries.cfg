CONSTANTS
  Req = {r1, r2}
  Queue = {}
  None = None
  IdMax = 5
  Profiles <- RetriedOrPlain
  DefaultTimeout = FALSE
  SendOutcomes = {"OK", "PENDING"}
  EarlyReplies = TRUE
  Reentrant = {"response", "event"}
  MaxDepth = 1
  MaxBlock = 0
SPECIFICATION Spec
SYMMETRY Symmetry
CHECK_DEADLOCK FALSE
INVARIANTS
  CancelFindsRequest
  OverIsForgotten
  PendingIsInFlight
  PendingSignalled
  WrittenIsSending
PROPERTIES
  LifeCycle
  KeepsPromise
  RetryFindsIdsFree
