SPECIFICATION FairSpec
CONSTANTS
  c1 = c1
  Calls = {c1}
  MaxSockets = 2
  ReconnectOptions <- AllOptions
PROPERTIES
  CallSettles
  OpenAndCloseEnd
  ImplementsFairLifecycle
CHECK_DEADLOCK FALSE
