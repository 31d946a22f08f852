---------------------------- MODULE AtomicEncode ----------------------------
(***************************************************************************)
(* What handing a KV to a writer goroutine promises (spec §5, §8: a record *)
(* is encoded from a snapshot; kv.Clone() gives one "safe to mutate        *)
(* independently"): the caller hands over a KV, and the writer later       *)
(* produces, in one step as far as anyone can tell, the KVList encoding of *)
(* the KV as it was at the hand-off.  The writer does not fail.            *)
(***************************************************************************)
EXTENDS KVListCodec

CONSTANT ListRef   \* the AllocRef of the KVList the writer encodes

VARIABLES
  pending,  \* the KV value handed over, or Nil
  sent      \* the bytes the writer produced, or Nil

avars == <<pending, sent>>

Init == pending = Nil /\ sent = Nil

Hand ==
  /\ pending = Nil
  /\ pending' # Nil
  /\ UNCHANGED sent

Emit ==
  /\ pending # Nil
  /\ sent = Nil
  /\ sent' = KVListMarshal([Kv |-> <<pending>>, AllocRef |-> ListRef]).bytes
  /\ UNCHANGED pending

Spec == Init /\ [][Hand \/ Emit]_avars /\ WF_avars(Emit)
=============================================================================
