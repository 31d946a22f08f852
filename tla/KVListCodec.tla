---------------------------- MODULE KVListCodec ----------------------------
(***************************************************************************)
(* The native layout of pb.KVList (src/pb/types_zap.go, KVList):           *)
(*   u32 count | count x ( u32 len(encodedKV) | encodedKV ) | u64 AllocRef *)
(* A KVList is a record [Kv |-> sequence, AllocRef |-> 64-bit pair].  The  *)
(* elements of Kv are KV records or Nil, a nil *KV.  A run of nil slots at *)
(* the end of Kv (what a failed Unmarshal leaves after make([]*KV, count)) *)
(* is represented by a single Nil: every operation treats one nil slot and *)
(* many alike, and count may be far larger than the model can enumerate.   *)
(***************************************************************************)
EXTENDS KVCodec

CONSTANT Nil  \* a nil *KV (model value)

EmptyKVList == [Kv |-> <<>>, AllocRef |-> W64(0)]

\* count(4) + allocRef(8)
KVListMinLen == 12

HasNil(l) == \E i \in DOMAIN l.Kv : l.Kv[i] = Nil

\* (*KVList).Size: 4 + 8 plus 4 + kv.Size() per entry (kv.Size() on a nil
\* entry dereferences nil).
KVListSize(l) ==
  12 + FoldSeq(LAMBDA a, b : a + b, 0, [i \in DOMAIN l.Kv |-> 4 + KVSize(l.Kv[i])])

\* Variant for validating RoundTrip: AllocRef written before the entries.
KVListMarshalAllocFirst(l) ==
  [bytes |-> PutLE(Len(l.Kv), 4) \o PutW64(l.AllocRef)
               \o FlattenSeq([i \in DOMAIN l.Kv |->
                     PutLE(KVSize(l.Kv[i]), 4) \o Encoding(KVFields, l.Kv[i])]),
   err   |-> "none"]

\* (*KVList).Marshal: count, then for each entry its size and the entry
\* marshalled into buf[offset : offset+kvSize] (the error
\* MarshalToSizedBuffer returns is ignored, so a failed entry would leave
\* its bytes zero), then AllocRef.  The returned error is always nil; a
\* nil entry panics in Size().
KVListMarshal(l) ==
  LET entry(kv) ==
        LET sz == KVSize(kv)
        IN PutLE(sz, 4) \o KVMarshalToSizedBuffer(kv, Zeros(sz)).buf
      child(i) == KVMarshalToSizedBuffer(l.Kv[i], Zeros(KVSize(l.Kv[i]))).err
  IN CASE HasNil(l) -> [bytes |-> <<>>, err |-> "Panic"]
       [] \E i \in DOMAIN l.Kv : child(i) = "Panic" -> [bytes |-> <<>>, err |-> "Panic"]
       [] OTHER ->
            [bytes |-> PutLE(Len(l.Kv), 4)
                         \o FlattenSeq([i \in DOMAIN l.Kv |-> entry(l.Kv[i])])
                         \o PutW64(l.AllocRef),
             err   |-> "none"]

\* (*KVList).Unmarshal(data) into recv.  After the 12-byte check it reads
\* count and allocates l.Kv = make([]*KV, count) before looking at any
\* entry; then for each entry it checks and reads the length prefix,
\* checks the entry fits, sets l.Kv[i] = &KV{} and unmarshals into it,
\* returning the child's error as its own; AllocRef is read last.  slots
\* is the length of the slice allocated.
KVListUnmarshal(recv, data) ==
  LET count == GoInt(SubSeq(data, 1, 4))
      NilTail(n) == IF count = Wide \/ count > n THEN <<Nil>> ELSE <<>>
      Fail(entries, e) ==
        [rec   |-> [recv EXCEPT !.Kv = entries \o NilTail(Len(entries))],
         err   |-> e,
         slots |-> count]
      RECURSIVE Loop(_, _, _)
      Loop(i, off, entries) ==
        IF i = count
        THEN IF Len(data) - off < 8 THEN Fail(entries, "TooSmall")
             ELSE [rec   |-> [recv EXCEPT !.Kv = entries,
                                          !.AllocRef = Word64(SubSeq(data, off + 1, off + 8))],
                   err   |-> "none",
                   slots |-> count]
        ELSE IF Len(data) - off < 4 THEN Fail(entries, "TooSmall")
        ELSE LET kvSize == GoInt(SubSeq(data, off + 1, off + 4))
                 start  == off + 4
                 inner  == KVUnmarshal(EmptyKV, SubSeq(data, start + 1, start + kvSize))
             IN CASE Exceeds(start, kvSize, Len(data)) -> Fail(entries, "TooSmall")
                  [] kvSize < 0 \/ kvSize > Len(data) - start -> Fail(entries, "Panic")
                  [] inner.err # "none"                -> Fail(Append(entries, inner.rec), inner.err)
                  [] OTHER -> Loop(i + 1, start + kvSize, Append(entries, inner.rec))
  IN CASE Len(data) < KVListMinLen     -> [rec |-> recv, err |-> "TooSmall", slots |-> 0]
       [] count # Wide /\ count < 0    -> [rec |-> recv, err |-> "Panic", slots |-> 0]
       [] OTHER                        -> Loop(0, 4, <<>>)

=============================================================================
