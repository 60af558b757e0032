SPECIFICATION SmallSpec
CONSTANTS
  Consumers = {c1, c2}
  Kinds = {"managed", "unmanaged"}
  MaxListens = 3
  MaxChanges = 2
INVARIANTS
  OncePerMessage
  UpToDate
PROPERTIES
  NothingAfterKill
  StaysListening
CHECK_DEADLOCK FALSE
