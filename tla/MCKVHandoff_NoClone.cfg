CONSTANTS
  IntBits = 64
  Wide = Wide
  Nil = Nil
  UseClone = FALSE
  MutFields = {"Value", "Meta"}
  NewContents <- MCNewContents
  NewByte = 2
  MaxMutations = 2
SPECIFICATION Spec
CHECK_DEADLOCK FALSE
INVARIANT ChildErrorPropagates
