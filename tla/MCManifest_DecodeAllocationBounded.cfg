CONSTANTS
  IntBits = 64
  Wide = Wide
  Nil = Nil
  CorruptBytes = {0, 33}
  MaxTamper = 1
  MaxDecodes = 2
SPECIFICATION Spec
INVARIANT DecodeAllocationBounded
