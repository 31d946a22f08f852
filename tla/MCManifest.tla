----------------------------- MODULE MCManifest -----------------------------
(***************************************************************************)
(* Model-checks the ManifestChangeSet codec (and, nested in it, the        *)
(* ManifestChange codec) through a caller (CodecClient).                   *)
(***************************************************************************)
EXTENDS ManifestCodec

CONSTANTS CorruptBytes, MaxTamper, MaxDecodes
VARIABLES orig, buf, recv, recvValid, last, tampers, decodes

\* A named change, and one with enum values outside the named sets (a
\* negative Op, EncryptionAlgo 7) and the largest-but-one u64 Id.
Delete == [Id |-> W64(5), Op |-> DELETE, Level |-> 3, KeyId |-> W64(9),
           EncryptionAlgo |-> AES, Compression |-> 2]
Unknown == [Id |-> W64(-2), Op |-> -1, Level |-> 0, KeyId |-> W64(0),
            EncryptionAlgo |-> 7, Compression |-> 0]

MCRecords == {EmptyManifestChangeSet, [Changes |-> <<Delete, Unknown>>]}

ManifestChangeSetMarshalError(s) == ManifestChangeSetMarshal(s).err

Client == INSTANCE CodecClient WITH
  Records <- MCRecords, EmptyRecord <- EmptyManifestChangeSet,
  Marshal <- ManifestChangeSetMarshal,
  MarshalError <- ManifestChangeSetMarshalError,
  Unmarshal <- ManifestChangeSetUnmarshal

vars == Client!vars
Spec == Client!Spec
TypeOK == Client!TypeOK
RoundTrip == Client!RoundTrip
TruncationSafety == Client!TruncationSafety
NoPanic == Client!NoPanic
DecodeAllocationBounded == Client!DecodeAllocationBounded
=============================================================================
