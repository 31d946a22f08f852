----------------------------- MODULE WireFormat -----------------------------
(***************************************************************************)
(* The byte-level building blocks shared by every record layout of         *)
(* src/pb/types_zap.go: little-endian fixed-width integers                 *)
(* (encoding/binary.LittleEndian), the 4-byte length prefix in front of    *)
(* every variable-length byte field, and the single field read that each   *)
(* Unmarshal repeats: an optional bounds check on the header, the header   *)
(* read, a bounds check on the content, and the copy into a fresh slice.   *)
(*                                                                         *)
(* A record layout is a sequence of field descriptors                      *)
(*   [name |-> field, kind |-> kind, guarded |-> BOOLEAN]                  *)
(* where guarded says whether the code checks offset+width > len(data)     *)
(* before reading the field's header (the first fields of each type rely   *)
(* on the minimum-length check instead).                                   *)
(*                                                                         *)
(* Buffers are sequences of integers in 0..255.  TLC's integers are 32-bit *)
(* signed, so a decoded u32 that is at least 2^31 is the model value Wide: *)
(* as a length or count it is only compared with buffer lengths, which it  *)
(* exceeds; as a field it differs from every value a caller constructs.    *)
(***************************************************************************)
EXTENDS Integers, Sequences, SequencesExt

CONSTANTS
  IntBits,  \* width of Go's int in the build: 64 (amd64, arm64) or 32 (386, arm)
  Wide      \* an integer value of at least 2^31 (model value)

ASSUME IntBits \in {32, 64}

MaxInt32 == 2147483647

\* Outcomes of an encode or decode call.  TooSmall is errBufferTooSmall,
\* ShortBuffer is io.ErrShortBuffer, Panic a Go runtime panic (index out
\* of range, makeslice with a negative length, nil pointer dereference).
Errors == {"none", "TooSmall", "ShortBuffer", "Panic"}

-----------------------------------------------------------------------------
(* encoding/binary.LittleEndian.PutUintN: the w low-order bytes of n,      *)
(* least significant first.  Floor division makes a negative n come out    *)
(* in two's complement, as uint32(int32) and uint64(int64) do.             *)
RECURSIVE PutLE(_, _)
PutLE(n, w) == IF w = 0 THEN <<>> ELSE <<n % 256>> \o PutLE(n \div 256, w - 1)

\* The unsigned value of a little-endian byte sequence (callers make sure
\* it is below 2^31).
RECURSIVE UintLE(_)
UintLE(bs) == IF bs = <<>> THEN 0 ELSE bs[1] + 256 * UintLE(Tail(bs))

\* binary.LittleEndian.Uint32
Uint32(raw) == IF raw[4] >= 128 THEN Wide ELSE UintLE(raw)

\* int32(binary.LittleEndian.Uint32(raw)): the enum conversions.
Int32(raw) ==
  IF raw[4] >= 128 THEN -1 - UintLE([i \in 1..4 |-> 255 - raw[i]])
                   ELSE UintLE(raw)

\* int(binary.LittleEndian.Uint32(raw)): a length or count as Go's int.
\* On a 32-bit build a prefix of 2^31 or more becomes negative.
GoInt(raw) == IF IntBits = 64 THEN Uint32(raw) ELSE Int32(raw)

\* A 64-bit field is held as the pair <<lo, hi>> of its 32-bit halves, each
\* as the int32 with the same bits, so that every decoded value is exact
\* in TLC: the value is (lo mod 2^32) + 2^32 * hi.  W64(n) is the pair
\* of an n with |n| < 2^31: its low word, and the sign extension.
W64(n) == <<n, IF n < 0 THEN -1 ELSE 0>>

\* binary.LittleEndian.PutUint64 and uint64(int64).
PutW64(v) == PutLE(v[1], 4) \o PutLE(v[2], 4)

\* binary.LittleEndian.Uint64 and int64(uint64): the same bits.
Word64(raw) == <<Int32(SubSeq(raw, 1, 4)), Int32(SubSeq(raw, 5, 8))>>

\* Variant for validating TruncationSafety: the bound checked with the
\* offset from before the length prefix was skipped.
ExceedsBeforeAdvance(pos, n, len) ==
  IF n = Wide THEN TRUE ELSE n > len - (pos - 4)

\* Go's `pos + n > len(data)` on int of width IntBits: on a 32-bit build
\* the sum wraps around when n is close to 2^31.
Exceeds(pos, n, len) ==
  CASE n = Wide                            -> TRUE
    [] IntBits = 32 /\ n > MaxInt32 - pos  ->
         (pos - MaxInt32 - 1) + (n - MaxInt32 - 1) > len
    [] OTHER                               -> n > len - pos

-----------------------------------------------------------------------------
(* Field kinds and their fixed-width headers.                              *)
Kinds == {"bytes", "u32", "i32", "u64", "i64", "bool"}

HeadWidth(kind) ==
  CASE kind \in {"bytes", "u32", "i32"} -> 4
    [] kind \in {"u64", "i64"}          -> 8
    [] kind = "bool"                    -> 1

\* Encoded size of one field: 4 + len(b) for a byte field.
FieldSize(kind, v) == IF kind = "bytes" THEN 4 + Len(v) ELSE HeadWidth(kind)

\* The bytes one field contributes: a length prefix and the raw bytes,
\* a fixed-width integer, or 0/1 for a bool.
WriteField(kind, v) ==
  CASE kind = "bytes"            -> PutLE(Len(v), 4) \o v
    [] kind \in {"u32", "i32"}   -> PutLE(v, 4)
    [] kind \in {"u64", "i64"}   -> PutW64(v)
    [] kind = "bool"             -> <<IF v THEN 1 ELSE 0>>

DecodeFixed(kind, raw) ==
  CASE kind = "u32"  -> Uint32(raw)
    [] kind = "i32"  -> Int32(raw)
    [] kind \in {"u64", "i64"} -> Word64(raw)
    [] kind = "bool" -> raw[1] # 0

-----------------------------------------------------------------------------
(* One field read at offset off, into record r.  The field is assigned     *)
(* only once its bytes have been checked, so a failure leaves the fields   *)
(* read so far assigned and the rest as they were.                         *)
Step(r, e, off) == [rec |-> r, err |-> e, off |-> off]

ReadField(f, r, data, off) ==
  LET head == HeadWidth(f.kind)
      raw  == SubSeq(data, off + 1, off + head)
      n    == GoInt(raw)
      pos  == off + head
  IN CASE Len(data) - off < head /\ f.guarded -> Step(r, "TooSmall", off)
       [] Len(data) - off < head              -> Step(r, "Panic", off)
       [] f.kind # "bytes" ->
            Step([r EXCEPT ![f.name] = DecodeFixed(f.kind, raw)], "none", pos)
       [] Exceeds(pos, n, Len(data))          -> Step(r, "TooSmall", off)
       \* make([]byte, n) with n < 0, or data[pos:pos+n] past the end
       [] n < 0 \/ n > Len(data) - pos        -> Step(r, "Panic", off)
       [] OTHER ->
            Step([r EXCEPT ![f.name] = SubSeq(data, pos + 1, pos + n)],
                 "none", pos + n)

\* Size(): the sum of the fields' encoded sizes.
EncodedSize(fields, r) ==
  FoldSeq(LAMBDA a, b : a + b, 0,
          [i \in DOMAIN fields |-> FieldSize(fields[i].kind, r[fields[i].name])])

\* The bytes written by the sequence of Put/copy calls of a Marshal.
Encoding(fields, r) ==
  FlattenSeq([i \in DOMAIN fields |-> WriteField(fields[i].kind, r[fields[i].name])])

\* Unmarshal: the minimum-length check, then the fields in order, stopping
\* at the first failure.
DecodeFields(fields, minLen, recv, data) ==
  LET RECURSIVE Walk(_, _, _)
      Walk(i, r, off) ==
        IF i > Len(fields) THEN [rec |-> r, err |-> "none"]
        ELSE LET s == ReadField(fields[i], r, data, off)
             IN IF s.err # "none" THEN [rec |-> s.rec, err |-> s.err]
                                  ELSE Walk(i + 1, s.rec, s.off)
  IN IF Len(data) < minLen THEN [rec |-> recv, err |-> "TooSmall"]
                           ELSE Walk(1, recv, 0)

Zeros(n) == [i \in 1..n |-> 0]

=============================================================================
