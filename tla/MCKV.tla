-------------------------------- MODULE MCKV --------------------------------
(***************************************************************************)
(* Model-checks the KV codec through a caller (CodecClient).               *)
(***************************************************************************)
EXTENDS KVCodec

CONSTANTS CorruptBytes, MaxTamper, MaxDecodes
VARIABLES orig, buf, recv, recvValid, last, tampers, decodes

\* A KV with every byte field non-empty, large-ish integers and the stream
\* flag set: it differs from KV{} in every field.
KVFull ==
  [Key |-> <<1>>, Value |-> <<2, 3>>, UserMeta |-> <<4>>, Version |-> W64(300),
   ExpiresAt |-> W64(7), Meta |-> <<5>>, StreamId |-> 42, StreamDone |-> TRUE]

MCRecords == {EmptyKV, KVFull}

\* KV's Unmarshal allocates no slice of nested records.
KVDecode(receiver, data) ==
  LET u == KVUnmarshal(receiver, data) IN [rec |-> u.rec, err |-> u.err, slots |-> 0]

KVMarshalError(k) == KVMarshal(k).err

Client == INSTANCE CodecClient WITH
  Records <- MCRecords, EmptyRecord <- EmptyKV, Marshal <- KVMarshal,
  MarshalError <- KVMarshalError, Unmarshal <- KVDecode

vars == Client!vars
Spec == Client!Spec
TypeOK == Client!TypeOK
RoundTrip == Client!RoundTrip
TruncationSafety == Client!TruncationSafety
NoPanic == Client!NoPanic
=============================================================================
