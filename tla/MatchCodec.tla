----------------------------- MODULE MatchCodec -----------------------------
(***************************************************************************)
(* The native layout of pb.Match (src/pb/types_zap.go, Match):             *)
(*   u32 len(Prefix) | Prefix | u32 len(IgnoreBytes) | IgnoreBytes         *)
(* IgnoreBytes is a Go string; string(data[a:b]) copies the bytes, so it   *)
(* is a byte sequence here like Prefix.                                    *)
(***************************************************************************)
EXTENDS WireFormat

\* Variant for validating TruncationSafety: the check before IgnoreBytes'
\* length left out.
MatchFieldsUnguardedIgnore ==
  << [name |-> "Prefix",      kind |-> "bytes", guarded |-> FALSE],
     [name |-> "IgnoreBytes", kind |-> "bytes", guarded |-> FALSE] >>

MatchFields ==
  << [name |-> "Prefix",      kind |-> "bytes", guarded |-> FALSE],
     [name |-> "IgnoreBytes", kind |-> "bytes", guarded |-> TRUE] >>

EmptyMatch == [Prefix |-> <<>>, IgnoreBytes |-> <<>>]

\* Variant for validating NoPanic: no minimum check.
MatchMinLenNone == 0

\* prefixLen(4) + ignoreBytesLen(4)
MatchMinLen == 8

\* (*Match).Marshal; never an error.
MatchMarshal(m) == [bytes |-> Encoding(MatchFields, m), err |-> "none"]

\* Variant for validating RoundTrip: Prefix only assigned when non-empty
\* (`if prefixLen > 0 { m.Prefix = ... }`), so a reused receiver keeps
\* the previous prefix.
MatchUnmarshalSkipEmpty(recv, data) ==
  LET d == DecodeFields(MatchFields, MatchMinLen, recv, data)
  IN IF d.rec.Prefix = <<>> THEN [d EXCEPT !.rec.Prefix = recv.Prefix] ELSE d

\* (*Match).Unmarshal(data) into recv.
MatchUnmarshal(recv, data) == DecodeFields(MatchFields, MatchMinLen, recv, data)

=============================================================================
