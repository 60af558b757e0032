SPECIFICATION Spec
CONSTANTS
  Consumers = {c1}
  Kinds = {"managed"}
  MaxListens = 2
  MaxChanges = 1
INVARIANTS
  NoDuplicates
CHECK_DEADLOCK FALSE
