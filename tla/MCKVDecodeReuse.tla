-------------------------- MODULE MCKVDecodeReuse --------------------------
(***************************************************************************)
(* Constants for KVDecodeReuse: two stored KVs whose Key and Value have    *)
(* the same lengths but different bytes, and a read cut short in the       *)
(* second one's StreamId, so a failed decode has assigned Key to Meta.     *)
(***************************************************************************)
EXTENDS KVDecodeReuse

KVA == [EmptyKV EXCEPT !.Key = <<1>>, !.Value = <<2>>]
KVB == [EmptyKV EXCEPT !.Key = <<3>>, !.Value = <<4>>, !.Meta = <<5>>]

MCReads == {KVMarshal(KVA).bytes, KVMarshal(KVB).bytes,
            SubSeq(KVMarshal(KVB).bytes, 1, 38)}
=============================================================================
