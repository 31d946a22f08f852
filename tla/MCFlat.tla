------------------------------ MODULE MCFlat ------------------------------
(***************************************************************************)
(* Model-checks the three flat codecs (DataKey, Checksum, Match) in one    *)
(* run: a caller of one of the three types, chosen initially.  Each type's *)
(* CodecClient runs over the same variables, and the record the caller    *)
(* holds tells which client is acting, so the state space is the disjoint *)
(* union of the three clients' state spaces.                              *)
(***************************************************************************)
EXTENDS DataKeyCodec, ChecksumCodec, MatchCodec

CONSTANTS CorruptBytes, MaxTamper, MaxDecodes
VARIABLES orig, buf, recv, recvValid, last, tampers, decodes

\* A key with every field set, Data and Iv of different lengths, and
\* negative CreatedAt.
FullDataKey == [KeyId |-> W64(-1), Data |-> <<1>>, Iv |-> <<2, 3>>,
                CreatedAt |-> W64(-5)]
\* An XXHash64 checksum whose Sum has all 64 bits set.
FullChecksum == [Algo |-> XXHash64, Sum |-> W64(-1)]
\* A pattern with both fields non-empty.
FullMatch == [Prefix |-> <<1>>, IgnoreBytes |-> <<2>>]

DataKeyRecords == {EmptyDataKey, FullDataKey}
ChecksumRecords == {EmptyChecksum, FullChecksum}
MatchRecords == {EmptyMatch, FullMatch}

DataKeyMarshalError(r) == DataKeyMarshal(r).err
DataKeyDecode(receiver, data) ==
  LET d == DataKeyUnmarshal(receiver, data)
  IN [rec |-> d.rec, err |-> d.err, slots |-> 0]
ChecksumMarshalError(r) == ChecksumMarshal(r).err
ChecksumDecode(receiver, data) ==
  LET d == ChecksumUnmarshal(receiver, data)
  IN [rec |-> d.rec, err |-> d.err, slots |-> 0]
MatchMarshalError(r) == MatchMarshal(r).err
MatchDecode(receiver, data) ==
  LET d == MatchUnmarshal(receiver, data)
  IN [rec |-> d.rec, err |-> d.err, slots |-> 0]

DK == INSTANCE CodecClient WITH
  Records <- DataKeyRecords, EmptyRecord <- EmptyDataKey,
  Marshal <- DataKeyMarshal, MarshalError <- DataKeyMarshalError,
  Unmarshal <- DataKeyDecode
CS == INSTANCE CodecClient WITH
  Records <- ChecksumRecords, EmptyRecord <- EmptyChecksum,
  Marshal <- ChecksumMarshal, MarshalError <- ChecksumMarshalError,
  Unmarshal <- ChecksumDecode
MT == INSTANCE CodecClient WITH
  Records <- MatchRecords, EmptyRecord <- EmptyMatch,
  Marshal <- MatchMarshal, MarshalError <- MatchMarshalError,
  Unmarshal <- MatchDecode

vars == DK!vars

IsDataKey == orig \in DataKeyRecords
IsChecksum == orig \in ChecksumRecords
IsMatch == orig \in MatchRecords

Init == DK!Init \/ CS!Init \/ MT!Init
Next == (IsDataKey /\ DK!Next) \/ (IsChecksum /\ CS!Next) \/ (IsMatch /\ MT!Next)
Spec == Init /\ [][Next]_vars

\* RoundTrip, TruncationSafety and NoPanic of CodecClient, for whichever
\* type the caller uses (see CodecClient for their statements).
RoundTrip ==
  /\ IsDataKey => DK!RoundTrip
  /\ IsChecksum => CS!RoundTrip
  /\ IsMatch => MT!RoundTrip
TruncationSafety ==
  /\ IsDataKey => DK!TruncationSafety
  /\ IsChecksum => CS!TruncationSafety
  /\ IsMatch => MT!TruncationSafety
NoPanic == last.err # "Panic"
=============================================================================
