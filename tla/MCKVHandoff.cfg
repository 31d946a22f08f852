CONSTANTS
  IntBits = 64
  Wide = Wide
  Nil = Nil
  UseClone = TRUE
  MutFields = {"Value", "Meta"}
  NewContents <- MCNewContents
  NewByte = 2
  MaxMutations = 2
SPECIFICATION Spec
CHECK_DEADLOCK FALSE
PROPERTY HandoffIsolated
PROPERTY ImplementsAtomicEncode
