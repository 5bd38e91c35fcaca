------------------------------ MODULE PTPWire -------------------------------
(***************************************************************************)
(* src/ptp/protocol: how PTP packets become bytes and bytes packets.  Byte *)
(* k of field f of message m is <<m, j, f, k>>, with j = 0 in the packet   *)
(* itself and the number of the TLV within it otherwise.  A layout is a    *)
(* set of rows <<field, offset, width>>.  The packets of ptp4u are written *)
(* into a buffer that holds the one before.                                *)
(***************************************************************************)
EXTENDS Integers, Sequences

headerSize == 34
tlvHeadSize == 4

Types == {"Sync", "DelayReq", "FollowUp", "DelayResp", "Announce", "Signaling"}
TLVTypes == {"Request", "Grant", "Cancel", "AcknowledgeCancel"}

ZeroByte == <<0, 0, "", 0>>
NoField == <<0, 0, "">>

\* The sum of the first n of a sequence of numbers.
SumTo(s, n) ==
  LET sum[i \in 0 .. Len(s)] == IF i = 0 THEN 0 ELSE sum[i - 1] + s[i]
  IN  sum[n]

(***************************************************************************)
(* Marshalling.                                                            *)
(***************************************************************************)
\* Mutant of HeaderRows: a field that is always zero is not written.
HeaderRowsUsed ==
  {<<"SdoIDAndMsgType", 0, 1>>, <<"Version", 1, 1>>, <<"MessageLength", 2, 2>>,
   <<"DomainNumber", 4, 1>>, <<"MinorSdoID", 5, 1>>, <<"FlagField", 6, 2>>,
   <<"CorrectionField", 8, 8>>, <<"SourceClock", 20, 8>>, <<"SourcePort", 28, 2>>,
   <<"SequenceID", 30, 2>>, <<"ControlField", 32, 1>>, <<"LogMessageInterval", 33, 1>>}

\* headerMarshalBinaryTo.
HeaderRows ==
  {<<"SdoIDAndMsgType", 0, 1>>, <<"Version", 1, 1>>, <<"MessageLength", 2, 2>>,
   <<"DomainNumber", 4, 1>>, <<"MinorSdoID", 5, 1>>, <<"FlagField", 6, 2>>,
   <<"CorrectionField", 8, 8>>, <<"MessageTypeSpecific", 16, 4>>,
   <<"SourceClock", 20, 8>>, <<"SourcePort", 28, 2>>, <<"SequenceID", 30, 2>>,
   <<"ControlField", 32, 1>>, <<"LogMessageInterval", 33, 1>>}

AnnounceRows ==
  {<<"Seconds", 0, 6>>, <<"Nanoseconds", 6, 4>>, <<"CurrentUTCOffset", 10, 2>>,
   <<"Reserved", 12, 1>>, <<"GrandmasterPriority1", 13, 1>>, <<"ClockClass", 14, 1>>,
   <<"ClockAccuracy", 15, 1>>, <<"OffsetScaledLogVariance", 16, 2>>,
   <<"GrandmasterPriority2", 18, 1>>, <<"GrandmasterIdentity", 19, 8>>,
   <<"StepsRemoved", 27, 2>>, <<"TimeSource", 29, 1>>}

SyncDelayReqRows == {<<"Seconds", 0, 6>>, <<"Nanoseconds", 6, 4>>}

FollowUpRows == {<<"Seconds", 0, 6>>, <<"Nanoseconds", 6, 4>>}

DelayRespRows ==
  {<<"Seconds", 0, 6>>, <<"Nanoseconds", 6, 4>>, <<"RequestingClock", 10, 8>>,
   <<"RequestingPort", 18, 2>>}

SignalingRows == {<<"TargetClock", 0, 8>>, <<"TargetPort", 8, 2>>}

BodyRows(type) ==
  CASE type \in {"Sync", "DelayReq"} -> SyncDelayReqRows
    [] type = "FollowUp" -> FollowUpRows
    [] type = "DelayResp" -> DelayRespRows
    [] type = "Announce" -> AnnounceRows
    [] type = "Signaling" -> SignalingRows

\* What MarshalBinaryTo returns, without the TLVs.
BodyEnd(type) ==
  headerSize + CASE type = "Announce" -> 30
                 [] type = "DelayResp" -> 20
                 [] OTHER -> 10

RequestRows ==
  {<<"TLVType", 0, 2>>, <<"LengthField", 2, 2>>, <<"MsgTypeAndReserved", 4, 1>>,
   <<"LogInterMessagePeriod", 5, 1>>, <<"DurationField", 6, 4>>}

GrantRows == RequestRows \cup {<<"Reserved", 10, 1>>, <<"Renewal", 11, 1>>}

CancelRows ==
  {<<"TLVType", 0, 2>>, <<"LengthField", 2, 2>>, <<"MsgTypeAndFlags", 4, 1>>,
   <<"Reserved", 5, 1>>}

TLVRows(t) ==
  CASE t = "Request" -> RequestRows
    [] t = "Grant" -> GrantRows
    [] t \in {"Cancel", "AcknowledgeCancel"} -> CancelRows

TLVEnd(t) ==
  tlvHeadSize + CASE t = "Request" -> 6
                  [] t = "Grant" -> 8
                  [] OTHER -> 2

\* Each TLV is written where the one before it ends.
TLVStart(p, j) ==
  BodyEnd("Signaling") + SumTo([i \in DOMAIN p.tlvs |-> TLVEnd(p.tlvs[i])], j - 1)

MarshalEnd(p) ==
  IF p.type = "Signaling" THEN TLVStart(p, Len(p.tlvs) + 1) ELSE BodyEnd(p.type)

\* All that is written of a packet: <<TLV, field, offset, width>>.
Layout(p) ==
  {<<0, r[1], r[2], r[3]>> : r \in HeaderRows}
    \cup {<<0, r[1], headerSize + r[2], r[3]>> : r \in BodyRows(p.type)}
    \cup UNION {{<<j, r[1], TLVStart(p, j) + r[2], r[3]>> : r \in TLVRows(p.tlvs[j])} :
                  j \in DOMAIN p.tlvs}

\* The rest of the buffer stays as it was.
MarshalBinaryTo(p, buf) ==
  [i \in DOMAIN buf |->
     LET over == {r \in Layout(p) : i - r[3] \in 1 .. r[4]}
     IN  IF over = {} THEN buf[i]
         ELSE LET r == CHOOSE r \in over : TRUE IN <<p.id, r[1], r[2], i - r[3]>>]

\* The packet, then two bytes of zero for UDP's checksum.
BytesTo(p, buf) ==
  LET n == MarshalEnd(p)
  IN  [MarshalBinaryTo(p, buf) EXCEPT ![n + 1] = ZeroByte, ![n + 2] = ZeroByte]

(***************************************************************************)
(* Unmarshalling.                                                          *)
(***************************************************************************)
\* The field whose w bytes follow position pos, if they are one.
FieldAt(b, pos, w) ==
  LET x == b[pos + 1]
  IN  IF \A k \in 1 .. w : b[pos + k] = <<x[1], x[2], x[3], k>>
        THEN <<x[1], x[2], x[3]>> ELSE NoField

Get(b, rows, base) ==
  [f \in {r[1] : r \in rows} |->
     LET r == CHOOSE r \in rows : r[1] = f IN FieldAt(b, base + r[2], r[3])]

\* unmarshalHeader.
HeaderFields ==
  {<<"SdoIDAndMsgType", 0, 1>>, <<"Version", 1, 1>>, <<"MessageLength", 2, 2>>,
   <<"DomainNumber", 4, 1>>, <<"MinorSdoID", 5, 1>>, <<"FlagField", 6, 2>>,
   <<"CorrectionField", 8, 8>>, <<"MessageTypeSpecific", 16, 4>>,
   <<"SourceClock", 20, 8>>, <<"SourcePort", 28, 2>>, <<"SequenceID", 30, 2>>,
   <<"ControlField", 32, 1>>, <<"LogMessageInterval", 33, 1>>}

SyncDelayReqFields == {<<"Seconds", 0, 6>>, <<"Nanoseconds", 6, 4>>}

FollowUpFields == {<<"Seconds", 0, 6>>, <<"Nanoseconds", 6, 4>>}

DelayRespFields ==
  {<<"Seconds", 0, 6>>, <<"Nanoseconds", 6, 4>>, <<"RequestingClock", 10, 8>>,
   <<"RequestingPort", 18, 2>>}

SignalingFields == {<<"TargetClock", 0, 8>>, <<"TargetPort", 8, 2>>}

\* Announce has no UnmarshalBinary: binary.Read fills the struct in order.
HeaderStruct ==
  << <<"SdoIDAndMsgType", 1>>, <<"Version", 1>>, <<"MessageLength", 2>>,
     <<"DomainNumber", 1>>, <<"MinorSdoID", 1>>, <<"FlagField", 2>>,
     <<"CorrectionField", 8>>, <<"MessageTypeSpecific", 4>>, <<"SourceClock", 8>>,
     <<"SourcePort", 2>>, <<"SequenceID", 2>>, <<"ControlField", 1>>,
     <<"LogMessageInterval", 1>> >>

AnnounceStruct ==
  << <<"Seconds", 6>>, <<"Nanoseconds", 4>>, <<"CurrentUTCOffset", 2>>,
     <<"Reserved", 1>>, <<"GrandmasterPriority1", 1>>, <<"ClockClass", 1>>,
     <<"ClockAccuracy", 1>>, <<"OffsetScaledLogVariance", 2>>,
     <<"GrandmasterPriority2", 1>>, <<"GrandmasterIdentity", 8>>,
     <<"StepsRemoved", 2>>, <<"TimeSource", 1>> >>

\* binary.Size of a struct, and the layout binary.Read gives it.
Widths(s) == [i \in DOMAIN s |-> s[i][2]]
StructSize(s) == SumTo(Widths(s), Len(s))

StructRows(s) == {<<s[i][1], SumTo(Widths(s), i - 1), s[i][2]>> : i \in DOMAIN s}

\* The header and the body of a packet of the given type, by FromBytes.
UnmarshalBinary(type, b) ==
  IF type = "Announce" THEN Get(b, StructRows(HeaderStruct \o AnnounceStruct), 0)
  ELSE LET body == CASE type \in {"Sync", "DelayReq"} -> SyncDelayReqFields
                     [] type = "FollowUp" -> FollowUpFields
                     [] type = "DelayResp" -> DelayRespFields
                     [] type = "Signaling" -> SignalingFields
       IN  Get(b, HeaderFields
                    \cup {<<r[1], headerSize + r[2], r[3]>> : r \in body}, 0)

TLVFields(t) ==
  CASE t = "Request" ->
         {<<"TLVType", 0, 2>>, <<"LengthField", 2, 2>>, <<"MsgTypeAndReserved", 4, 1>>,
          <<"LogInterMessagePeriod", 5, 1>>, <<"DurationField", 6, 4>>}
    [] t = "Grant" ->
         {<<"TLVType", 0, 2>>, <<"LengthField", 2, 2>>, <<"MsgTypeAndReserved", 4, 1>>,
          <<"LogInterMessagePeriod", 5, 1>>, <<"DurationField", 6, 4>>,
          <<"Reserved", 10, 1>>, <<"Renewal", 11, 1>>}
    [] OTHER ->
         {<<"TLVType", 0, 2>>, <<"LengthField", 2, 2>>, <<"MsgTypeAndFlags", 4, 1>>,
          <<"Reserved", 5, 1>>}

\* binary.Size of the TLVs, as the builders use it for both lengths.
TLVSize(t) == CASE t = "Request" -> 10 [] t = "Grant" -> 12 [] OTHER -> 6

\* MessageLength as the builders set it.
MessageLength(p) ==
  CASE p.type = "Announce" -> StructSize(HeaderStruct \o AnnounceStruct)
    [] p.type = "DelayResp" -> StructSize(HeaderStruct) + 10 + 10
    [] p.type = "Signaling" ->
         StructSize(HeaderStruct) + 10
           + SumTo([i \in DOMAIN p.tlvs |-> TLVSize(p.tlvs[i])], Len(p.tlvs))
    [] OTHER -> StructSize(HeaderStruct) + 10

LengthField(t) == TLVSize(t) - tlvHeadSize

\* One turn of Signaling.UnmarshalBinary's loop; p is the message the numbers
\* of the bytes belong to.
Turn(b, p, s) ==
  LET x == FieldAt(b, s.pos, 2)
      t == p.tlvs[x[2]]
  IN  IF ~s.more \/ s.pos + tlvHeadSize > MessageLength(p) THEN [s EXCEPT !.more = FALSE]
      ELSE IF x[1] # p.id \/ x[2] = 0 \/ x[3] # "TLVType"
        THEN [s EXCEPT !.tlvs = Append(@, [type |-> "unknown", fields |-> << >>]),
                       !.more = FALSE]
        ELSE [s EXCEPT !.tlvs = Append(@, [type |-> t, fields |-> Get(b, TLVFields(t), s.pos)]),
                       !.pos = @ + tlvHeadSize + LengthField(t)]

\* The loop; every turn but the last takes a TLV's head at least.
unmarshalTLVs(b, p) ==
  LET turns == Len(b) \div tlvHeadSize
      after[n \in 0 .. turns] ==
        IF n = 0 THEN [pos |-> BodyEnd("Signaling"), tlvs |-> <<>>, more |-> TRUE]
        ELSE Turn(b, p, after[n - 1])
  IN  after[turns].tlvs

=============================================================================
