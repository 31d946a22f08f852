------------------------------ MODULE KVCodec ------------------------------
(***************************************************************************)
(* The native layout of pb.KV (src/pb/types_zap.go, KV):                   *)
(*   u32 len(Key) | Key | u32 len(Value) | Value | u32 len(UserMeta) |     *)
(*   UserMeta | u64 Version | u64 ExpiresAt | u32 len(Meta) | Meta |       *)
(*   u32 StreamId | u8 StreamDone                                          *)
(* A KV value is a record with those eight fields; byte slices are         *)
(* sequences of bytes (a nil slice and an empty one both encode as length  *)
(* 0, and Unmarshal always produces a non-nil slice).                      *)
(***************************************************************************)
EXTENDS WireFormat

\* Variants for validating NoPanic and TruncationSafety: the check before
\* Value's length prefix, or before the StreamDone byte, left out.
KVFieldsUnguardedValue ==
  << [name |-> "Key",        kind |-> "bytes", guarded |-> FALSE],
     [name |-> "Value",      kind |-> "bytes", guarded |-> FALSE],
     [name |-> "UserMeta",   kind |-> "bytes", guarded |-> TRUE],
     [name |-> "Version",    kind |-> "u64",   guarded |-> TRUE],
     [name |-> "ExpiresAt",  kind |-> "u64",   guarded |-> TRUE],
     [name |-> "Meta",       kind |-> "bytes", guarded |-> TRUE],
     [name |-> "StreamId",   kind |-> "u32",   guarded |-> TRUE],
     [name |-> "StreamDone", kind |-> "bool",  guarded |-> TRUE] >>
KVFieldsUnguardedDone ==
  [KVFieldsUnguardedValue EXCEPT ![2].guarded = TRUE, ![8].guarded = FALSE]

\* The fields in wire order.  Key's header is read without a check of its
\* own: the 37-byte minimum covers it.  Every later header is checked.
KVFields ==
  << [name |-> "Key",        kind |-> "bytes", guarded |-> FALSE],
     [name |-> "Value",      kind |-> "bytes", guarded |-> TRUE],
     [name |-> "UserMeta",   kind |-> "bytes", guarded |-> TRUE],
     [name |-> "Version",    kind |-> "u64",   guarded |-> TRUE],
     [name |-> "ExpiresAt",  kind |-> "u64",   guarded |-> TRUE],
     [name |-> "Meta",       kind |-> "bytes", guarded |-> TRUE],
     [name |-> "StreamId",   kind |-> "u32",   guarded |-> TRUE],
     [name |-> "StreamDone", kind |-> "bool",  guarded |-> TRUE] >>

\* KV{} (and the state Reset() leaves).
EmptyKV ==
  [Key |-> <<>>, Value |-> <<>>, UserMeta |-> <<>>, Version |-> W64(0),
   ExpiresAt |-> W64(0), Meta |-> <<>>, StreamId |-> 0, StreamDone |-> FALSE]

\* Unmarshal's minimum: 4+0+4+0+4+0+8+8+4+0+4+1.
KVMinLen == 37

\* (*KV).Size
KVSize(k) == EncodedSize(KVFields, k)

\* (*KV).MarshalToSizedBuffer(buf): io.ErrShortBuffer when buf is shorter
\* than Size(); otherwise the fields are written from offset 0 and the
\* bytes of buf past the encoding are left alone.  The last write is the
\* indexed store of StreamDone, so an encoding longer than buf panics.
KVMarshalToSizedBuffer(k, buf) ==
  LET enc == Encoding(KVFields, k)
  IN CASE Len(buf) < KVSize(k) -> [n |-> 0, buf |-> buf, err |-> "ShortBuffer"]
       [] Len(enc) > Len(buf)  -> [n |-> 0, buf |-> buf, err |-> "Panic"]
       [] OTHER -> [n   |-> Len(enc),
                    buf |-> enc \o SubSeq(buf, Len(enc) + 1, Len(buf)),
                    err |-> "none"]

\* (*KV).Marshal: a zeroed buffer of Size() bytes, filled in place.
KVMarshal(k) ==
  LET r == KVMarshalToSizedBuffer(k, Zeros(KVSize(k)))
  IN [bytes |-> r.buf, err |-> r.err]

\* Variants for validating TypeOK and RoundTrip: the minimum-length check
\* returning errInvalidData; StreamDone only ever set, never cleared
\* (`if data[offset] != 0 { k.StreamDone = true }`).
KVUnmarshalInvalidData(recv, data) ==
  IF Len(data) < KVMinLen THEN [rec |-> recv, err |-> "InvalidData"]
                          ELSE DecodeFields(KVFields, KVMinLen, recv, data)
KVUnmarshalStickyDone(recv, data) ==
  LET d == DecodeFields(KVFields, KVMinLen, recv, data)
  IN IF d.err = "none" /\ recv.StreamDone THEN [d EXCEPT !.rec.StreamDone = TRUE]
                                          ELSE d

\* (*KV).Unmarshal(data) into the receiver recv.
KVUnmarshal(recv, data) == DecodeFields(KVFields, KVMinLen, recv, data)

=============================================================================
