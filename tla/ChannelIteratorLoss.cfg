SPECIFICATION Spec
CONSTANTS
  MaxValues = 2
  MaxNexts = 2
  Prompt = FALSE
INVARIANTS
  NothingIsLost
CHECK_DEADLOCK FALSE
