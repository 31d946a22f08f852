---------------------------- MODULE MCMatch ----------------------------
(***************************************************************************)
(* Model-checks the Match codec through a caller (CodecClient).           *)
(***************************************************************************)
EXTENDS MatchCodec

CONSTANTS CorruptBytes, MaxTamper, MaxDecodes
VARIABLES orig, buf, recv, recvValid, last, tampers, decodes

\* A pattern with both fields non-empty.
FullMatch == [Prefix |-> <<1>>, IgnoreBytes |-> <<2>>]

MCRecords == {EmptyMatch, FullMatch}

MatchMarshalError(r) == MatchMarshal(r).err
MatchDecode(receiver, data) ==
  LET d == MatchUnmarshal(receiver, data)
  IN [rec |-> d.rec, err |-> d.err, slots |-> 0]

Client == INSTANCE CodecClient WITH
  Records <- MCRecords, EmptyRecord <- EmptyMatch,
  Marshal <- MatchMarshal, MarshalError <- MatchMarshalError,
  Unmarshal <- MatchDecode

vars == Client!vars
Spec == Client!Spec
RoundTrip == Client!RoundTrip
TruncationSafety == Client!TruncationSafety
NoPanic == Client!NoPanic
=============================================================================
