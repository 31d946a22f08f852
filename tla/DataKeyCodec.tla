---------------------------- MODULE DataKeyCodec ----------------------------
(***************************************************************************)
(* The native layout of pb.DataKey (src/pb/types_zap.go, DataKey):         *)
(*   u64 KeyId | u32 len(Data) | Data | u32 len(Iv) | Iv | i64 CreatedAt   *)
(***************************************************************************)
EXTENDS WireFormat

\* Variants for validating RoundTrip and TruncationSafety: Iv read where
\* Data is; the check before CreatedAt left out.
DataKeyFieldsSwapped ==
  << [name |-> "KeyId",     kind |-> "u64",   guarded |-> FALSE],
     [name |-> "Iv",        kind |-> "bytes", guarded |-> FALSE],
     [name |-> "Data",      kind |-> "bytes", guarded |-> TRUE],
     [name |-> "CreatedAt", kind |-> "i64",   guarded |-> TRUE] >>
DataKeyFieldsUnguardedCreatedAt ==
  << [name |-> "KeyId",     kind |-> "u64",   guarded |-> FALSE],
     [name |-> "Data",      kind |-> "bytes", guarded |-> FALSE],
     [name |-> "Iv",        kind |-> "bytes", guarded |-> TRUE],
     [name |-> "CreatedAt", kind |-> "i64",   guarded |-> FALSE] >>

\* KeyId and Data's length are read on the strength of the minimum check;
\* Iv's length and CreatedAt are checked first.
DataKeyFields ==
  << [name |-> "KeyId",     kind |-> "u64",   guarded |-> FALSE],
     [name |-> "Data",      kind |-> "bytes", guarded |-> FALSE],
     [name |-> "Iv",        kind |-> "bytes", guarded |-> TRUE],
     [name |-> "CreatedAt", kind |-> "i64",   guarded |-> TRUE] >>

EmptyDataKey == [KeyId |-> W64(0), Data |-> <<>>, Iv |-> <<>>, CreatedAt |-> W64(0)]

\* Variant for validating NoPanic: a minimum covering KeyId only.
DataKeyMinLenKeyIdOnly == 8

\* keyId(8) + dataLen(4) + ivLen(4) + createdAt(8)
DataKeyMinLen == 24

\* (*DataKey).Marshal: Size() bytes, the fields written in order; never
\* an error.
DataKeyMarshal(d) == [bytes |-> Encoding(DataKeyFields, d), err |-> "none"]

DataKeyUnmarshalSwapped(recv, data) ==
  DecodeFields(DataKeyFieldsSwapped, DataKeyMinLen, recv, data)

\* (*DataKey).Unmarshal(data) into recv.
DataKeyUnmarshal(recv, data) ==
  DecodeFields(DataKeyFields, DataKeyMinLen, recv, data)

=============================================================================
