SPECIFICATION MixedSpec
CONSTANTS
  o1 = o1
  o2 = o2
  o3 = o3
  o4 = o4
  v2 = v2
  Ops = {o1, o2, o3, o4}
  Forks = {fork}
  Root = root
  Variables = {x}
  Selected = ns
  Values = {v1, v2}
  None = none
  MaxSockets = 3
INVARIANTS
  CarefulRestored
PROPERTIES
  CallsSettle
  HandshakeEnds
CHECK_DEADLOCK FALSE
