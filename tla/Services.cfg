SPECIFICATION ServicesSpec
CONSTANTS
  Calls = {s1, s2}
  Texts = {"x", "y"}
  MaxRetries = 1
  Bucket = 1
  MaxClock = 1
  None = NoKey
  s1 = s1
  s2 = s2
  Connect = connect
  EngineCalls = {c1, c2}
  EngineCloses = {k1, k2}
  EngineKinds = {"worker", "local", "node"}
INVARIANTS
  ClosedIsOver
  WrittenOnce
PROPERTIES
  ConnectedIsUsable
  EveryCallSettles
  CloseReturns
CHECK_DEADLOCK FALSE
