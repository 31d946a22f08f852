CONSTANTS
  IntBits = 32
  Wide = Wide
  Nil = Nil
  CorruptBytes = {255}
  MaxTamper = 1
  MaxDecodes = 1
SPECIFICATION Spec
INVARIANT NoPanic
