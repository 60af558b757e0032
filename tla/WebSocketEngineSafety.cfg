SPECIFICATION Spec
CONSTANTS
  c1 = c1
  c2 = c2
  Calls = {c1, c2}
  MaxSockets = 2
  ReconnectOptions <- AllOptions
SYMMETRY Symmetry
INVARIANTS
  NothingStuck
  GivesUpOnlyWhenExhausted
PROPERTIES
  AnsweredIsNotResent
  ImplementsChannel
  ImplementsLifecycle
CHECK_DEADLOCK FALSE
