CONSTANTS
  IntBits = 64
  Wide = Wide
  CorruptBytes = {0, 33}
  MaxTamper = 1
  MaxDecodes = 2
SPECIFICATION Spec
INVARIANT TypeOK
INVARIANT RoundTrip
INVARIANT TruncationSafety
INVARIANT NoPanic
