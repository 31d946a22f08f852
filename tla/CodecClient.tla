---------------------------- MODULE CodecClient ----------------------------
(***************************************************************************)
(* A caller of one record type's codec, as the storage engine uses it: it  *)
(* builds a record, marshals it, hands the bytes to storage or the wire    *)
(* (where they may come back truncated or with a byte changed), unmarshals *)
(* whatever comes back into a receiver it reuses across calls, resets the  *)
(* receiver, and re-marshals a receiver that decoded successfully.         *)
(*                                                                         *)
(* The record type is a parameter: Marshal, Unmarshal and MarshalError are *)
(* the type's codec operators, supplied by an MC module through            *)
(* INSTANCE ... WITH or by definition override.                            *)
(***************************************************************************)
EXTENDS Integers, Sequences, SequencesExt

CONSTANTS
  Records,          \* the records the caller builds
  EmptyRecord,      \* the zero value, also the state Reset() leaves
  Marshal(_),       \* record -> [bytes, err]
  MarshalError(_),  \* record -> the err of Marshal(record)
  Unmarshal(_, _),  \* (receiver, data) -> [rec, err, slots]
  CorruptBytes,     \* byte values a damaged buffer may hold
  MaxTamper,        \* bound on truncations and corruptions of one buffer
  MaxDecodes,       \* bound on Unmarshal calls into the receiver
  Wide              \* see WireFormat

ASSUME MaxTamper \in Nat /\ MaxDecodes \in Nat /\ CorruptBytes \subseteq 0..255

VARIABLES
  orig,       \* the record the caller built last
  buf,        \* the byte buffer the caller holds
  recv,       \* the receiver Unmarshal decodes into
  recvValid,  \* recv is fresh, reset, or from a successful Unmarshal
  last,       \* the call made last, its input bytes and its outcome
  tampers,    \* damage done to buf since it was marshalled
  decodes     \* Unmarshal calls made so far

vars == <<orig, buf, recv, recvValid, last, tampers, decodes>>

NoCall == [op |-> "none", err |-> "none", slots |-> 0, data |-> <<>>]

-----------------------------------------------------------------------------
Init ==
  /\ orig \in Records
  /\ buf = <<>>
  /\ recv = EmptyRecord
  /\ recvValid = TRUE
  /\ last = NoCall
  /\ tampers = 0
  /\ decodes = 0

\* The caller builds a new record.
Construct(r) ==
  /\ r # orig
  /\ orig' = r
  /\ UNCHANGED <<buf, recv, recvValid, last, tampers, decodes>>

\* Marshal(orig): the buffer now holds its encoding.
MarshalRecord ==
  LET m == Marshal(orig)
  IN /\ buf' = m.bytes
     /\ last' = [op |-> "Marshal", err |-> m.err, slots |-> 0, data |-> m.bytes]
     /\ tampers' = 0
     /\ UNCHANGED <<orig, recv, recvValid, decodes>>

\* The stored or transmitted bytes come back cut short.
Truncate(k) ==
  /\ tampers < MaxTamper
  /\ buf' = SubSeq(buf, 1, k)
  /\ tampers' = tampers + 1
  /\ UNCHANGED <<orig, recv, recvValid, last, decodes>>

\* ... or with one byte changed.
Corrupt(i, v) ==
  /\ tampers < MaxTamper
  /\ buf[i] # v
  /\ buf' = [buf EXCEPT ![i] = v]
  /\ tampers' = tampers + 1
  /\ UNCHANGED <<orig, recv, recvValid, last, decodes>>

\* Unmarshal(buf) into the reused receiver; the caller then releases buf.
UnmarshalBuffer ==
  LET d == Unmarshal(recv, buf)
  IN /\ buf # <<>>
     /\ decodes < MaxDecodes
     /\ decodes' = decodes + 1
     /\ buf' = <<>>
     /\ recv' = d.rec
     /\ recvValid' = (d.err = "none")
     /\ last' = [op |-> "Unmarshal", err |-> d.err, slots |-> d.slots, data |-> buf]
     /\ UNCHANGED <<orig, tampers>>

\* Reset(): the receiver goes back to the zero value.
ResetReceiver ==
  /\ recv # EmptyRecord
  /\ recv' = EmptyRecord
  /\ recvValid' = TRUE
  /\ last' = [NoCall EXCEPT !.op = "Reset"]
  /\ UNCHANGED <<orig, buf, tampers, decodes>>

\* A successfully decoded receiver is marshalled again (§7: a receiver
\* whose Unmarshal failed is discarded, not re-used).
MarshalReceiver ==
  /\ recvValid
  /\ last' = [op |-> "MarshalRecv", err |-> MarshalError(recv), slots |-> 0,
               data |-> <<>>]
  /\ UNCHANGED <<orig, buf, recv, recvValid, tampers, decodes>>

Next ==
  \/ \E r \in Records : Construct(r)
  \/ MarshalRecord
  \/ \E k \in 0..(Len(buf) - 1) : Truncate(k)
  \/ \E i \in DOMAIN buf, v \in CorruptBytes : Corrupt(i, v)
  \/ UnmarshalBuffer
  \/ ResetReceiver
  \/ MarshalReceiver

Spec == Init /\ [][Next]_vars

-----------------------------------------------------------------------------
TypeOK ==
  /\ orig \in Records
  /\ buf \in Seq(0..255)
  /\ recvValid \in BOOLEAN
  /\ last.op \in {"none", "Marshal", "Unmarshal", "Reset", "MarshalRecv"}
  /\ last.err \in {"none", "TooSmall", "ShortBuffer", "Panic"}
  /\ tampers \in 0..MaxTamper
  /\ decodes \in 0..MaxDecodes

Decoded == last.op = "Unmarshal"

\* Round trip (§8): unmarshalling the exact encoding of the caller's
\* record succeeds and leaves the receiver equal to that record, field by
\* field, whatever an earlier (possibly failed) Unmarshal left in the
\* reused receiver.
RoundTrip ==
  Decoded /\ last.data = Marshal(orig).bytes => last.err = "none" /\ recv = orig

\* Truncation safety (§8): every strict prefix of an encoding is rejected
\* with errBufferTooSmall, never accepted and never a panic.
TruncationSafety ==
  Decoded /\ IsStrictPrefix(last.data, Marshal(orig).bytes) => last.err = "TooSmall"

\* Decoding untrusted bytes is safe (§1, §9): no buffer, however damaged,
\* makes Unmarshal (or re-marshalling what it accepted) panic.
NoPanic == last.err # "Panic"

\* Decoding allocates in proportion to the input (§5: every operation is
\* bounded by input size): each slice slot Unmarshal allocates for a
\* nested record stands for at least its 4-byte length prefix.
DecodeAllocationBounded ==
  Decoded => last.slots # Wide /\ 4 * last.slots <= Len(last.data)

=============================================================================
