------------------------------ MODULE MCKVList ------------------------------
(***************************************************************************)
(* Model-checks the KVList codec through a caller (CodecClient).           *)
(***************************************************************************)
EXTENDS KVListCodec

CONSTANTS CorruptBytes, MaxTamper, MaxDecodes
VARIABLES orig, buf, recv, recvValid, last, tampers, decodes

\* A batch of one KV with an allocation reference, and the empty batch.
KVFullEntry ==
  [Key |-> <<1>>, Value |-> <<>>, UserMeta |-> <<>>, Version |-> W64(300),
   ExpiresAt |-> W64(0), Meta |-> <<>>, StreamId |-> 0, StreamDone |-> TRUE]

OneKV == [Kv |-> <<KVFullEntry>>, AllocRef |-> W64(999)]

MCRecords == {EmptyKVList, OneKV}

KVListMarshalError(l) == KVListMarshal(l).err

Client == INSTANCE CodecClient WITH
  Records <- MCRecords, EmptyRecord <- EmptyKVList, Marshal <- KVListMarshal,
  MarshalError <- KVListMarshalError, Unmarshal <- KVListUnmarshal

vars == Client!vars
Spec == Client!Spec
TypeOK == Client!TypeOK
RoundTrip == Client!RoundTrip
TruncationSafety == Client!TruncationSafety
NoPanic == Client!NoPanic
DecodeAllocationBounded == Client!DecodeAllocationBounded
=============================================================================
