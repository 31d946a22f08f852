CONSTANTS
  K1 = K1
  V1 = V1
  Nil = Nil
  Keys = {K1}
  StoredVars = {V1}
  Deltas <- MCDeltas
  MaxCalls = 2
  Foreign <- MCForeignSameKind
SPECIFICATION Spec
CHECK_DEADLOCK FALSE
INVARIANT MetricsExact
