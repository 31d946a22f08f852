---------------------------- MODULE MCDataKey ----------------------------
(***************************************************************************)
(* Model-checks the DataKey codec through a caller (CodecClient).         *)
(***************************************************************************)
EXTENDS DataKeyCodec

CONSTANTS CorruptBytes, MaxTamper, MaxDecodes
VARIABLES orig, buf, recv, recvValid, last, tampers, decodes

\* A key with every field set, Data and Iv of different lengths, and
\* negative CreatedAt.
FullDataKey == [KeyId |-> W64(-1), Data |-> <<1>>, Iv |-> <<2, 3>>,
                CreatedAt |-> W64(-5)]

MCRecords == {EmptyDataKey, FullDataKey}

DataKeyMarshalError(r) == DataKeyMarshal(r).err
DataKeyDecode(receiver, data) ==
  LET d == DataKeyUnmarshal(receiver, data)
  IN [rec |-> d.rec, err |-> d.err, slots |-> 0]

Client == INSTANCE CodecClient WITH
  Records <- MCRecords, EmptyRecord <- EmptyDataKey,
  Marshal <- DataKeyMarshal, MarshalError <- DataKeyMarshalError,
  Unmarshal <- DataKeyDecode

vars == Client!vars
Spec == Client!Spec
RoundTrip == Client!RoundTrip
TruncationSafety == Client!TruncationSafety
NoPanic == Client!NoPanic
=============================================================================
