---------------------------- MODULE MCChecksum ----------------------------
(***************************************************************************)
(* Model-checks the Checksum codec through a caller (CodecClient).        *)
(***************************************************************************)
EXTENDS ChecksumCodec

CONSTANTS CorruptBytes, MaxTamper, MaxDecodes
VARIABLES orig, buf, recv, recvValid, last, tampers, decodes

\* An XXHash64 checksum whose Sum has all 64 bits set.
FullChecksum == [Algo |-> XXHash64, Sum |-> W64(-1)]

MCRecords == {EmptyChecksum, FullChecksum}

ChecksumMarshalError(r) == ChecksumMarshal(r).err
ChecksumDecode(receiver, data) ==
  LET d == ChecksumUnmarshal(receiver, data)
  IN [rec |-> d.rec, err |-> d.err, slots |-> 0]

Client == INSTANCE CodecClient WITH
  Records <- MCRecords, EmptyRecord <- EmptyChecksum,
  Marshal <- ChecksumMarshal, MarshalError <- ChecksumMarshalError,
  Unmarshal <- ChecksumDecode

vars == Client!vars
Spec == Client!Spec
RoundTrip == Client!RoundTrip
TruncationSafety == Client!TruncationSafety
NoPanic == Client!NoPanic
=============================================================================
