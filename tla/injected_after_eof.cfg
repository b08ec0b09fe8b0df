CONSTANTS
  CallsIn = {}
  MaxInject = 2
SPECIFICATION Spec
CHECK_DEADLOCK FALSE
PROPERTIES
  InjectedWhileConnected
