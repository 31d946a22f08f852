----------------------------- MODULE KVHandoff -----------------------------
(***************************************************************************)
(* A caller hands a KV to a writer goroutine that encodes it as the single *)
(* entry of a KVList (src/pb/types_zap.go, KVList.Marshal with             *)
(* KV.MarshalToSizedBuffer inlined), while the caller goes on changing the *)
(* original.  §5: encoding a record another goroutine mutates is a data    *)
(* race; callers must hand over kv.Clone() (KV.Clone) to sever aliasing.   *)
(*                                                                         *)
(* Go's pointers and slices are explicit here: kvs is the heap of KV       *)
(* structs (a byte field holds an array address or Nil, a nil slice) and   *)
(* heap the heap of byte arrays.  The writer reads the shared struct once  *)
(* per statement group of the code: l.Size(), kv.Size() with the header,   *)
(* the Size() check inside MarshalToSizedBuffer, and each field write.     *)
(* The race between a field's length prefix and its copy is not split.     *)
(***************************************************************************)
EXTENDS KVListCodec

CONSTANTS
  UseClone,      \* the caller hands over kv.Clone() (TRUE) or kv itself
  MutFields,     \* byte fields the caller changes after the hand-off
  NewContents,   \* contents the caller may assign to a byte field
  NewByte,       \* the value the caller may store into a byte in place
  MaxMutations   \* bound on the caller's changes

ASSUME UseClone \in BOOLEAN /\ MaxMutations \in Nat

VARIABLES
  heap,      \* address -> byte array
  kvs,       \* address -> KV struct whose byte fields are addresses or Nil
  mutations, \* changes the caller has made
  handed,    \* the KV value at hand-off (the record the caller meant), or Nil
  wkv,       \* the KV pointer the writer holds, or Nil before the hand-off
  wpc,       \* the writer's position in KVList.Marshal
  out,       \* buf of KVList.Marshal
  woff,      \* KVList.Marshal's offset
  wsize,     \* kvSize of the entry
  wfield,    \* the next field MarshalToSizedBuffer writes
  wo,        \* MarshalToSizedBuffer's offset within buf[offset:offset+kvSize]
  werr       \* the error MarshalToSizedBuffer returned (ignored by the code)

vars == <<heap, kvs, mutations, handed, wkv, wpc, out, woff, wsize, wfield, wo, werr>>

CallerKV == 1                      \* the caller's own *KV
ByteFields == {KVFields[i].name : i \in {j \in DOMAIN KVFields : KVFields[j].kind = "bytes"}}
CloneOrder == <<"Key", "Value", "UserMeta", "Meta">>
AllocRef == W64(5)                 \* the writer's KVList.AllocRef

\* The KV value a pointer denotes: a nil slice reads as empty.
View(h, ks, p) ==
  [f \in DOMAIN ks[p] |-> IF f \in ByteFields
                          THEN IF ks[p][f] = Nil THEN <<>> ELSE h[ks[p][f]]
                          ELSE ks[p][f]]

\* buf with bs stored from offset pos on.
Store(b, pos, bs) ==
  [j \in DOMAIN b |-> IF j > pos /\ j <= pos + Len(bs) THEN bs[j - pos] ELSE b[j]]

-----------------------------------------------------------------------------
(* KV.Clone: nil for a nil receiver; otherwise a new struct with the       *)
(* scalar fields copied and each non-nil byte field copied into a fresh    *)
(* array (a nil field stays nil).  Returns the new heaps and the pointer.  *)
CloneWith(h, ks, p, shared) ==
  LET RECURSIVE Copy(_, _, _)
      Copy(i, hh, c) ==
        IF i > Len(CloneOrder) THEN [heap |-> hh, kvs |-> Append(ks, c), ptr |-> Len(ks) + 1]
        ELSE LET f == CloneOrder[i]
             IN CASE ks[p][f] = Nil  -> Copy(i + 1, hh, c)
                  [] f \in shared    -> Copy(i + 1, hh, [c EXCEPT ![f] = ks[p][f]])
                  [] OTHER -> Copy(i + 1, Append(hh, hh[ks[p][f]]), [c EXCEPT ![f] = Len(hh) + 1])
  IN IF p = Nil THEN [heap |-> h, kvs |-> ks, ptr |-> Nil]
     ELSE Copy(1, h, [ks[p] EXCEPT !.Key = Nil, !.Value = Nil, !.UserMeta = Nil, !.Meta = Nil])

\* Variants for validating the properties: `return k`; clone.Value = k.Value;
\* the Meta copy left out.
CloneShallow(h, ks, p) == [heap |-> h, kvs |-> ks, ptr |-> p]
CloneSharesValue(h, ks, p) == CloneWith(h, ks, p, {"Value"})
CloneDropsMeta(h, ks, p) ==
  LET c == CloneWith(h, ks, p, {})
  IN IF p = Nil THEN c ELSE [c EXCEPT !.kvs[c.ptr].Meta = Nil]

Clone(h, ks, p) == CloneWith(h, ks, p, {})

-----------------------------------------------------------------------------
Init ==
  /\ heap = <<<<1>>, <<1>>, <<1>>>>
  /\ kvs = <<[Key |-> 1, Value |-> 2, UserMeta |-> Nil, Meta |-> 3, Version |-> W64(1),
              ExpiresAt |-> W64(0), StreamId |-> 0, StreamDone |-> FALSE]>>
  /\ mutations = 0
  /\ handed = Nil
  /\ wkv = Nil
  /\ wpc = "idle"
  /\ out = <<>>
  /\ woff = 0 /\ wsize = 0 /\ wfield = 0 /\ wo = 0
  /\ werr = "none"

\* The caller passes kv.Clone(), or kv, to the writer goroutine.
Handoff ==
  LET c == IF UseClone THEN Clone(heap, kvs, CallerKV)
           ELSE [heap |-> heap, kvs |-> kvs, ptr |-> CallerKV]
  IN /\ wpc = "idle"
     /\ heap' = c.heap /\ kvs' = c.kvs /\ wkv' = c.ptr
     /\ handed' = View(heap, kvs, CallerKV)
     /\ wpc' = "size"
     /\ UNCHANGED <<mutations, out, woff, wsize, wfield, wo, werr>>

\* kv.Value[i] = b: a store into the array the field refers to.
MutateByte(f, i) ==
  /\ mutations < MaxMutations
  /\ kvs[CallerKV][f] # Nil
  /\ heap' = [heap EXCEPT ![kvs[CallerKV][f]][i] = NewByte]
  /\ mutations' = mutations + 1
  /\ UNCHANGED <<kvs, handed, wkv, wpc, out, woff, wsize, wfield, wo, werr>>

\* kv.Value = bs: the field now refers to a new array.
Reassign(f, bs) ==
  /\ mutations < MaxMutations
  /\ heap' = Append(heap, bs)
  /\ kvs' = [kvs EXCEPT ![CallerKV][f] = Len(heap) + 1]
  /\ mutations' = mutations + 1
  /\ UNCHANGED <<handed, wkv, wpc, out, woff, wsize, wfield, wo, werr>>

\* kv.Version = v
SetVersion ==
  /\ mutations < MaxMutations
  /\ kvs' = [kvs EXCEPT ![CallerKV].Version = W64(2)]
  /\ mutations' = mutations + 1
  /\ UNCHANGED <<heap, handed, wkv, wpc, out, woff, wsize, wfield, wo, werr>>

CallerStep ==
  \/ Handoff
  \/ \E f \in MutFields, i \in 1..2 :
       kvs[CallerKV][f] # Nil /\ i \in DOMAIN heap[kvs[CallerKV][f]] /\ MutateByte(f, i)
  \/ \E f \in MutFields, bs \in NewContents : Reassign(f, bs)
  \/ SetVersion
-----------------------------------------------------------------------------
(* The writer: KVList.Marshal of KVList{Kv: []*KV{wkv}, AllocRef}.         *)

\* buf := make([]byte, l.Size()) (l.Size() reads kv.Size()); count written.
WSize ==
  /\ wpc = "size"
  /\ out' = Store(Zeros(12 + 4 + KVSize(View(heap, kvs, wkv))), 0, PutLE(1, 4))
  /\ woff' = 4
  /\ wpc' = "entry"
  /\ UNCHANGED <<heap, kvs, mutations, handed, wkv, wsize, wfield, wo, werr>>

\* kvSize := kv.Size(); its header; then buf[offset : offset+kvSize], which
\* panics when it runs past the end of buf.
WEntry ==
  LET sz == KVSize(View(heap, kvs, wkv))
  IN /\ wpc = "entry"
     /\ wsize' = sz
     /\ woff' = woff + 4
     /\ out' = Store(out, woff, PutLE(sz, 4))
     /\ wpc' = IF woff + 4 + sz > Len(out) THEN "panicked" ELSE "check"
     /\ UNCHANGED <<heap, kvs, mutations, handed, wkv, wfield, wo, werr>>

\* MarshalToSizedBuffer: io.ErrShortBuffer when the slice is shorter than
\* the Size() it computes now; the error is dropped and Marshal goes on.
WCheck ==
  /\ wpc = "check"
  /\ IF wsize < KVSize(View(heap, kvs, wkv))
     THEN werr' = "ShortBuffer" /\ wpc' = "alloc" /\ UNCHANGED <<wfield, wo>>
     ELSE wpc' = "field" /\ wfield' = 1 /\ wo' = 0 /\ UNCHANGED werr
  /\ UNCHANGED <<heap, kvs, mutations, handed, wkv, out, woff, wsize>>

\* One field of MarshalToSizedBuffer, read from the struct now: Put* on a
\* slice shorter than the header, or buf[offset] past the end, panics;
\* copy() stops at the end of the slice while offset advances by len.
WField ==
  LET f    == KVFields[wfield]
      v    == View(heap, kvs, wkv)[f.name]
      head == HeadWidth(f.kind)
      fits == wo + head <= wsize
      room == wsize - wo - head
      body == IF f.kind = "bytes" THEN SubSeq(v, 1, Min({Len(v), room})) ELSE <<>>
      bs   == IF f.kind = "bytes" THEN PutLE(Len(v), 4) \o body ELSE WriteField(f.kind, v)
  IN /\ wpc = "field"
     /\ out' = IF fits THEN Store(out, woff + wo, bs) ELSE out
     /\ wo' = wo + FieldSize(f.kind, v)
     /\ wfield' = wfield + 1
     /\ wpc' = CASE ~fits                     -> "panicked"
                 [] wfield = Len(KVFields)     -> "alloc"
                 [] OTHER                      -> "field"
     /\ UNCHANGED <<heap, kvs, mutations, handed, wkv, woff, wsize, werr>>

\* offset += kvSize; PutUint64(buf[offset:], l.AllocRef); return buf, nil.
WAlloc ==
  /\ wpc = "alloc"
  /\ woff' = woff + wsize
  /\ IF woff + wsize + 8 > Len(out)
     THEN wpc' = "panicked" /\ UNCHANGED out
     ELSE wpc' = "done" /\ out' = Store(out, woff + wsize, PutW64(AllocRef))
  /\ UNCHANGED <<heap, kvs, mutations, handed, wkv, wsize, wfield, wo, werr>>

WriterStep == WSize \/ WEntry \/ WCheck \/ WField \/ WAlloc

Next == CallerStep \/ WriterStep

\* The writer goroutine, once runnable, is scheduled (Go's scheduler is
\* preemptive); the caller is not required to do anything.
Spec == Init /\ [][Next]_vars /\ WF_vars(WriterStep)

-----------------------------------------------------------------------------
TypeOK ==
  /\ mutations \in 0..MaxMutations
  /\ wpc \in {"idle", "size", "entry", "check", "field", "alloc", "done", "panicked"}
  /\ out \in Seq(0..255)
  /\ werr \in Errors

\* No step of the caller changes the record the writer is encoding: what
\* the writer's pointer denotes stays as it was at the hand-off.
HandoffIsolated ==
  [][wkv # Nil => View(heap, kvs, wkv)' = View(heap, kvs, wkv)]_vars

\* The step-by-step KVList.Marshal of the writer, racing the caller's
\* changes, implements the atomic encoding of AtomicEncode (§8, deep-copy
\* independence): once the writer is done its buffer is exactly the
\* encoding of the KV as the caller held it at the hand-off, and a writer
\* that has a KV always gets done (no panic in Marshal).
Atomic == INSTANCE AtomicEncode
  WITH pending <- handed, sent <- IF wpc = "done" THEN out ELSE Nil, ListRef <- AllocRef

ImplementsAtomicEncode == Atomic!Spec

\* A child's encode failure is the parent's failure (§4.1, §7): KVList.Marshal
\* returns nil only when MarshalToSizedBuffer of every entry succeeded.
ChildErrorPropagates == wpc = "done" => werr = "none"
=============================================================================
