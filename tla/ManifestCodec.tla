--------------------------- MODULE ManifestCodec ---------------------------
(***************************************************************************)
(* The native layouts of pb.ManifestChange and pb.ManifestChangeSet        *)
(* (src/pb/types_zap.go):                                                  *)
(*   ManifestChange:    u64 Id | u32 Op | u32 Level | u64 KeyId |          *)
(*                      u32 EncryptionAlgo | u32 Compression   (32 bytes) *)
(*   ManifestChangeSet: u32 count | count x ( u32 len | ManifestChange )   *)
(* Op and EncryptionAlgo are int32 enums written as uint32(x) and read     *)
(* back as int32(uint32): any value, named or not, is stored as is.        *)
(* Changes holds ManifestChange records or Nil (a nil *ManifestChange);    *)
(* a run of nil slots is one Nil, as for KVList.                          *)
(***************************************************************************)
EXTENDS WireFormat

CONSTANT Nil

\* ManifestChange_CREATE, ManifestChange_DELETE; EncryptionAlgo_aes.
CREATE == 0
DELETE == 1
AES    == 0

\* Variant for validating RoundTrip: Level read from Op's offset and Op
\* from Level's.
ManifestChangeFieldsSwapped ==
  << [name |-> "Id",             kind |-> "u64", guarded |-> FALSE],
     [name |-> "Level",          kind |-> "u32", guarded |-> FALSE],
     [name |-> "Op",             kind |-> "i32", guarded |-> FALSE],
     [name |-> "KeyId",          kind |-> "u64", guarded |-> FALSE],
     [name |-> "EncryptionAlgo", kind |-> "i32", guarded |-> FALSE],
     [name |-> "Compression",    kind |-> "u32", guarded |-> FALSE] >>

ManifestChangeFields ==
  << [name |-> "Id",             kind |-> "u64", guarded |-> FALSE],
     [name |-> "Op",             kind |-> "i32", guarded |-> FALSE],
     [name |-> "Level",          kind |-> "u32", guarded |-> FALSE],
     [name |-> "KeyId",          kind |-> "u64", guarded |-> FALSE],
     [name |-> "EncryptionAlgo", kind |-> "i32", guarded |-> FALSE],
     [name |-> "Compression",    kind |-> "u32", guarded |-> FALSE] >>

EmptyManifestChange ==
  [Id |-> W64(0), Op |-> CREATE, Level |-> 0, KeyId |-> W64(0),
   EncryptionAlgo |-> AES, Compression |-> 0]

\* (*ManifestChange).Size: 8 + 4 + 4 + 8 + 4 + 4.
ManifestChangeSize == 32

\* (*ManifestChange).Marshal: Size() zeroed bytes, then six fixed-width
\* stores; a store past the end would panic.
ManifestChangeMarshal(m) ==
  LET enc == Encoding(ManifestChangeFields, m)
  IN IF Len(enc) > ManifestChangeSize THEN [bytes |-> <<>>, err |-> "Panic"]
     ELSE [bytes |-> enc \o Zeros(ManifestChangeSize - Len(enc)), err |-> "none"]

\* Variants for validating TypeOK and RoundTrip: errInvalidData for a short
\* buffer; the fields read at each other's offsets.
ManifestChangeUnmarshalInvalidData(recv, data) ==
  IF Len(data) < 32 THEN [rec |-> recv, err |-> "InvalidData"]
                    ELSE DecodeFields(ManifestChangeFields, 32, recv, data)
ManifestChangeUnmarshalSwapped(recv, data) ==
  DecodeFields(ManifestChangeFieldsSwapped, 32, recv, data)

\* (*ManifestChange).Unmarshal: one 32-byte check, then six unchecked reads.
ManifestChangeUnmarshal(recv, data) ==
  DecodeFields(ManifestChangeFields, 32, recv, data)

-----------------------------------------------------------------------------
EmptyManifestChangeSet == [Changes |-> <<>>]

\* Variant for validating NoPanic: the length check before count left out.
ManifestChangeSetNoMinLen == 0

\* The check before count is read.
ManifestChangeSetMinLen == 4

\* (*ManifestChangeSet).Size: 4, plus 4 + 32 per change (the constant 32,
\* not change.Size()).
ManifestChangeSetSize(s) == 4 + 36 * Len(s.Changes)

\* (*ManifestChangeSet).Marshal: count, then for each change its own
\* Marshal() (an error is returned as the set's error; a nil change
\* panics), its length and its bytes copied in.
ManifestChangeSetMarshal(s) ==
  LET child(i) == IF s.Changes[i] = Nil THEN [bytes |-> <<>>, err |-> "Panic"]
                  ELSE ManifestChangeMarshal(s.Changes[i])
      failed   == {i \in DOMAIN s.Changes : child(i).err # "none"}
      first    == CHOOSE i \in failed : \A j \in failed : i <= j
  IN IF failed # {} THEN [bytes |-> <<>>, err |-> child(first).err]
     ELSE [bytes |-> PutLE(Len(s.Changes), 4)
                       \o FlattenSeq([i \in DOMAIN s.Changes |->
                             PutLE(Len(child(i).bytes), 4) \o child(i).bytes]),
           err   |-> "none"]

\* (*ManifestChangeSet).Unmarshal: the 4-byte check, count, Changes =
\* make([]*ManifestChange, count), then per change: check and read the
\* length, check the change fits, Changes[i] = &ManifestChange{} and
\* unmarshal into it, returning its error.  slots is the slice length.
ManifestChangeSetUnmarshal(recv, data) ==
  LET count == GoInt(SubSeq(data, 1, 4))
      NilTail(n) == IF count = Wide \/ count > n THEN <<Nil>> ELSE <<>>
      Result(changes, e) ==
        [rec |-> [recv EXCEPT !.Changes = changes \o NilTail(Len(changes))],
         err |-> e, slots |-> count]
      RECURSIVE Loop(_, _, _)
      Loop(i, off, changes) ==
        IF i = count THEN Result(changes, "none")
        ELSE IF Len(data) - off < 4 THEN Result(changes, "TooSmall")
        ELSE LET size  == GoInt(SubSeq(data, off + 1, off + 4))
                 start == off + 4
                 inner == ManifestChangeUnmarshal(EmptyManifestChange,
                                                  SubSeq(data, start + 1, start + size))
             IN CASE Exceeds(start, size, Len(data))         -> Result(changes, "TooSmall")
                  [] size < 0 \/ size > Len(data) - start     -> Result(changes, "Panic")
                  [] inner.err # "none" -> Result(Append(changes, inner.rec), inner.err)
                  [] OTHER -> Loop(i + 1, start + size, Append(changes, inner.rec))
  IN CASE Len(data) < ManifestChangeSetMinLen -> [rec |-> recv, err |-> "TooSmall", slots |-> 0]
       [] Len(data) < 4                 -> [rec |-> recv, err |-> "Panic", slots |-> 0]
       [] count # Wide /\ count < 0     -> [rec |-> recv, err |-> "Panic", slots |-> 0]
       [] OTHER                         -> Loop(0, 4, <<>>)

=============================================================================
