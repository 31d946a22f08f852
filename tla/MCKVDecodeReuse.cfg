CONSTANTS
  IntBits = 64
  Wide = Wide
  Nil = Nil
  Reads <- MCReads
  MaxReads = 3
  MaxRetains = 2
SPECIFICATION Spec
CHECK_DEADLOCK FALSE
INVARIANT KeptStable
