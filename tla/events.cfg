CONSTANTS
  CallsIn <- AllSignals
  MaxInject = 4
SPECIFICATION FairSpec
CHECK_DEADLOCK FALSE
INVARIANTS
  TypeOK
  InjectedInOrder
  InjectsScheduled
PROPERTIES
  InjectSettled
