--------------------------- MODULE KVDecodeReuse ---------------------------
(***************************************************************************)
(* A reader that reuses both its read buffer and its *KV receiver: it      *)
(* reads the next stored record into the same buffer, calls               *)
(* recv.Unmarshal(buf), and keeps slices (kv.Key, kv.Value, ...) of the    *)
(* decoded KV beyond the next read and decode.  KV.Unmarshal assigns each  *)
(* byte field it reads a new array (make + copy, src/pb/types_zap.go), so  *)
(* a kept slice never sees later reads or decodes.                          *)
(*                                                                         *)
(* heap is address -> byte array; the read buffer is address RBuf; a byte  *)
(* field of recv holds an address or Nil (a nil slice).                    *)
(***************************************************************************)
EXTENDS KVCodec

CONSTANTS
  Nil,
  Reads,        \* the byte strings storage may return
  MaxReads,     \* bound on reads into the buffer
  MaxRetains    \* bound on slices the reader keeps

VARIABLES
  heap,     \* address -> byte array
  recv,     \* the reused receiver
  unread,   \* buf holds bytes not decoded yet
  valid,    \* the last Unmarshal succeeded
  kept,     \* slices kept: [addr, val] with val their contents when kept
  reads

vars == <<heap, recv, unread, valid, kept, reads>>

RBuf == 1
ByteOrder == <<"Key", "Value", "UserMeta", "Meta">>
ByteNames == {ByteOrder[i] : i \in 1..4}

\* The KV value the receiver denotes; a nil slice reads as empty.
RecvValue ==
  [f \in DOMAIN recv |-> IF f \notin ByteNames THEN recv[f]
                         ELSE IF recv[f] = Nil THEN <<>> ELSE heap[recv[f]]]

\* The byte fields Unmarshal(data) assigns before it returns: those whose
\* value a receiver holding an impossible byte string does not keep.
Assigned(data) ==
  LET marked == [f \in DOMAIN EmptyKV |-> IF f \in ByteNames THEN <<-1>> ELSE EmptyKV[f]]
  IN {f \in ByteNames : KVUnmarshal(marked, data).rec[f] # <<-1>>}

\* recv.Unmarshal(buf): scalars as decoded; each byte field assigned gets
\* a fresh array holding its copy (k.Key = make(...); copy(...)).  With
\* reuse, the variant for validating KeptStable: an assigned field whose
\* receiver already has an array is decoded into that array,
\* append(k.Key[:0], ...) style.
DecodeWith(reuse) ==
  LET inPlace(r, f) == reuse /\ r[f] # Nil
      d     == KVUnmarshal(RecvValue, heap[RBuf])
      A     == Assigned(heap[RBuf])
      new   == SelectSeq(ByteOrder, LAMBDA f : f \in A /\ ~inPlace(recv, f))
      at(f) == Len(heap) + CHOOSE i \in 1..Len(new) : new[i] = f
      old   == {recv[f] : f \in {g \in A : inPlace(recv, g)}}
  IN /\ unread
     /\ unread' = FALSE
     /\ valid' = (d.err = "none")
     /\ heap' = [a \in 1..Len(heap) + Len(new) |->
                   IF a > Len(heap) THEN d.rec[new[a - Len(heap)]]
                   ELSE IF a \in old THEN d.rec[CHOOSE f \in A : recv[f] = a]
                   ELSE heap[a]]
     /\ recv' = [f \in DOMAIN recv |-> CASE f \notin ByteNames -> d.rec[f]
                                         [] f \in A /\ ~inPlace(recv, f) -> at(f)
                                         [] OTHER -> recv[f]]
     /\ UNCHANGED <<kept, reads>>

DecodeReusing == DecodeWith(TRUE)
Decode == DecodeWith(FALSE)

Init ==
  /\ heap = <<<<>>>>
  /\ recv = [f \in DOMAIN EmptyKV |-> IF f \in ByteNames THEN Nil ELSE EmptyKV[f]]
  /\ unread = FALSE
  /\ valid = FALSE
  /\ kept = {}
  /\ reads = 0

\* The next stored record is read into the same buffer.
Read(bs) ==
  /\ reads < MaxReads
  /\ heap' = [heap EXCEPT ![RBuf] = bs]
  /\ unread' = TRUE
  /\ reads' = reads + 1
  /\ UNCHANGED <<recv, valid, kept>>

\* After a successful decode the reader keeps a byte field's slice.
Retain(f) ==
  /\ valid
  /\ recv[f] # Nil
  /\ Cardinality(kept) < MaxRetains
  /\ kept' = kept \cup {[addr |-> recv[f], val |-> heap[recv[f]]]}
  /\ UNCHANGED <<heap, recv, unread, valid, reads>>

Next ==
  \/ \E bs \in Reads : Read(bs)
  \/ Decode
  \/ \E f \in ByteNames : Retain(f)

Spec == Init /\ [][Next]_vars

-----------------------------------------------------------------------------
\* A slice taken from a decoded KV keeps its contents however the reader
\* goes on: reading the next record into the same buffer and decoding it,
\* successfully or not, into the same receiver (KV.Unmarshal's make+copy;
\* §8: decoded records are independent of the buffer and of each other).
KeptStable == \A k \in kept : heap[k.addr] = k.val
=============================================================================
