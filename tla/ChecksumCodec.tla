---------------------------- MODULE ChecksumCodec ---------------------------
(***************************************************************************)
(* The native layout of pb.Checksum (src/pb/types_zap.go, Checksum):       *)
(*   u32 Algo | u64 Sum   (12 bytes; Algo an int32 enum)                   *)
(***************************************************************************)
EXTENDS WireFormat

\* Checksum_CRC32C, Checksum_XXHash64
CRC32C   == 0
XXHash64 == 1

\* Variant for validating RoundTrip: Sum read from offset 0 (data[0:]).
ChecksumFieldsSumFirst ==
  << [name |-> "Sum",  kind |-> "u64", guarded |-> FALSE],
     [name |-> "Algo", kind |-> "i32", guarded |-> FALSE] >>

\* Both reads rely on the minimum check.
ChecksumFields ==
  << [name |-> "Algo", kind |-> "i32", guarded |-> FALSE],
     [name |-> "Sum",  kind |-> "u64", guarded |-> FALSE] >>

EmptyChecksum == [Algo |-> CRC32C, Sum |-> W64(0)]

\* Variants for validating TruncationSafety and NoPanic: the check one byte
\* short; a check sized for two 4-byte fields.
ChecksumMinLenOffByOne == 11
ChecksumMinLenTwoWords == 8

\* (*Checksum).Size: 4 + 8.
ChecksumMinLen == 12

\* (*Checksum).Marshal: Algo at 0, Sum at 4; never an error.
ChecksumMarshal(c) == [bytes |-> Encoding(ChecksumFields, c), err |-> "none"]

ChecksumUnmarshalSumFirst(recv, data) ==
  DecodeFields(ChecksumFieldsSumFirst, ChecksumMinLen, recv, data)

\* (*Checksum).Unmarshal(data) into recv.
ChecksumUnmarshal(recv, data) ==
  DecodeFields(ChecksumFields, ChecksumMinLen, recv, data)

=============================================================================
