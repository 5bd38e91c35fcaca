---------------------------- MODULE WireFormats -----------------------------
(***************************************************************************)
(* The formats of the libraries at work: PTP packets written into a used   *)
(* buffer and read from a used one, the time stamps of an NTP exchange on  *)
(* their way to ntpdate's offset, the packed words of NTP's control        *)
(* messages, and a leap second file that ntpcheck utils fakeseconds        *)
(* rewrites again and again.  One of the four happens in a behaviour.      *)
(***************************************************************************)
EXTENDS NTPTime, ControlWords, LeapSecondFile, PTPWire

CONSTANTS
  MaxPackets, MaxTLVs,    \* bounds: packets, TLVs of a packet
  Exchanges,              \* [t, theta, d1, proc, d2, lag] of an NTP exchange
  Words,                  \* 16-bit words
  History,                \* times of the leap seconds that a file has already
  MaxAdds, MaxMonth       \* bounds: fake leap seconds, months that pass

PayloadSizeBytes == 128

ASSUME FormatsAssumption ==
  /\ MaxPackets \in Nat /\ MaxTLVs \in Nat /\ MaxAdds \in Nat /\ MaxMonth \in Nat
  /\ \A w \in Words : w \in Nat /\ w < 2 ^ 16
  \* Neither clock of an exchange is before NTP's epoch.
  /\ Exchanges \subseteq [t : Int, theta : Int, d1 : Nat, proc : Nat, d2 : Nat, lag : Int]
  /\ \A x \in Exchanges : x.t + x.theta + Gap * TPS >= 0
  /\ Width32 \in Nat \ {0} /\ NameLen \in Nat \ {0}
  \* What the receiver's buffer has room for.
  /\ BodyEnd("Signaling") + MaxTLVs * TLVEnd("Grant") + 2 <= PayloadSizeBytes
  \* What a file of the first version has room for.
  /\ History \subseteq Seq(Nat)
  /\ \A h \in History : \A i \in DOMAIN h : h[i] + i - 1 < Width32

VARIABLES
  part,
  \* PTP
  sbuf, rbuf,      \* the worker's and the receiver's buffer
  packet, wire,    \* the packet being sent, and its datagram
  sent, received,
  got, signaling,  \* its fields; TLVs of the receiver's Signaling
  \* NTP
  exchange, stamps, offset, word, back,
  \* leap seconds
  file, asked, month

ptpVars == <<sbuf, rbuf, packet, wire, sent, received, got, signaling>>
ntpVars == <<exchange, stamps, offset>>
wordVars == <<word, back>>
zoneVars == <<file, asked, month>>
vars == <<part, ptpVars, ntpVars, wordVars, zoneVars>>

Zeros(n) == [i \in 1 .. n |-> ZeroByte]
Packet(type, id, tlvs) == [type |-> type, id |-> id, tlvs |-> tlvs]

\* Leap seconds that a file may hold already, given their times.
Known(times) == [i \in DOMAIN times |-> [Tleap |-> times[i] + i - 1, Nleap |-> i]]

Init ==
  /\ part \in {"ptp", "ntp", "words", "zone"}
  /\ sbuf = Zeros(IF part = "ptp" THEN PayloadSizeBytes ELSE 0) /\ rbuf = sbuf
  /\ packet = Packet("none", 0, <<>>) /\ wire = <<>> /\ sent = 0 /\ received = 0
  /\ got = << >> /\ signaling = <<>>
  /\ exchange \in IF part = "ntp" THEN {{x} : x \in Exchanges} ELSE {{}}
  /\ stamps = {} /\ offset = {}
  /\ word \in IF part = "words"
                THEN ({"system", "peer"} \X Words)
                       \cup ({"head"} \X {w \in Words : w < 2 ^ 14})   \* "a 00, then"
                ELSE {<<"none", 0>>}
  /\ back = -1
  /\ asked \in IF part = "zone" THEN History ELSE {<<>>}
  /\ file \in IF part = "zone" THEN {Write(v, Known(asked)) : v \in {0, Version2}}
              ELSE {<<>>}
  /\ month = 1

(***************************************************************************)
(* PTP.                                                                    *)
(***************************************************************************)
\* Signaling is written by Bytes into a buffer of its own.
Transmit(type, tlvs) ==
  /\ part = "ptp" /\ sent = received /\ sent < MaxPackets
  /\ type = "Signaling" <=> tlvs # <<>>
  /\ LET p == Packet(type, sent + 1, tlvs)
         b == BytesTo(p, IF type = "Signaling" THEN Zeros(200) ELSE sbuf)
     IN  /\ packet' = p /\ sent' = sent + 1
         /\ sbuf' = IF type = "Signaling" THEN sbuf ELSE b
         /\ wire' = SubSeq(b, 1, MarshalEnd(p) + 2)
  /\ UNCHANGED <<part, rbuf, received, got, signaling, ntpVars, wordVars, zoneVars>>

\* Mutant of zerotlv: the TLVs of the message before stay.
zerotlvKept == signaling

\* handleGeneralMessages empties its Signaling, which UnmarshalBinary appends to.
zerotlv == <<>>

Receive ==
  /\ part = "ptp" /\ received < sent
  /\ received' = sent
  /\ rbuf' = [i \in DOMAIN rbuf |-> IF i \in DOMAIN wire THEN wire[i] ELSE rbuf[i]]
  /\ LET b == SubSeq(rbuf', 1, Len(wire))
     IN  /\ got' = UnmarshalBinary(packet.type, b)
         /\ signaling' = IF packet.type # "Signaling" THEN signaling
                         ELSE zerotlv \o unmarshalTLVs(b, packet)
  /\ UNCHANGED <<part, sbuf, packet, wire, sent, ntpVars, wordVars, zoneVars>>

(***************************************************************************)
(* NTP.                                                                    *)
(***************************************************************************)
ServerRx(x) == x.t + x.theta + x.d1
ServerTx(x) == ServerRx(x) + x.proc
ClientRx(x) == x.t + x.d1 + x.proc + x.d2

Respond ==
  /\ part = "ntp" /\ stamps = {}
  /\ \E x \in exchange :
       stamps' = {[rx |-> Time(ServerRx(x)), tx |-> Time(ServerTx(x))]}
  /\ UNCHANGED <<part, ptpVars, exchange, offset, wordVars, zoneVars>>

Compute ==
  /\ part = "ntp" /\ offset = {}
  /\ \E x \in exchange, s \in stamps :
       offset' = {ntpDate(x.t, s.rx, s.tx, ClientRx(x), ClientRx(x) + x.lag)}
  /\ UNCHANGED <<part, ptpVars, exchange, stamps, wordVars, zoneVars>>

Encode(kind, w) ==
  CASE kind = "system" -> SystemWord(ReadSystemStatusWord(w))
    [] kind = "peer" -> PeerWord(ReadPeerStatusWord(w))
    [] kind = "head" ->
         LET h == ReadHead(w)
         IN  MakeVnMode(h.version, h.mode) * 2 ^ 8
               + MakeREMOp(h.response, h.err, h.more, h.op)

Reencode ==
  /\ part = "words" /\ back = -1
  /\ back' = Encode(word[1], word[2])
  /\ UNCHANGED <<part, ptpVars, ntpVars, word, zoneVars>>

(***************************************************************************)
(* Leap seconds.                                                           *)
(***************************************************************************)
MonthStart(m) == 100 * m

addFakeSecondZoneInfo(offsetMonth) ==
  /\ part = "zone" /\ Len(asked) < MaxAdds
  /\ LET r == parseVx(file)
         t == MonthStart(month + offsetMonth)
     IN  /\ r.ok
         /\ file' = Write(Version2, Append(r.ls, FakeLeap(r.ls, t)))
         /\ asked' = Append(asked, t)
  /\ UNCHANGED <<part, month, ptpVars, ntpVars, wordVars>>

MonthPasses ==
  /\ part = "zone" /\ month < MaxMonth
  /\ month' = month + 1
  /\ UNCHANGED <<part, file, asked, ptpVars, ntpVars, wordVars>>

TLVLists == UNION {[1 .. n -> TLVTypes] : n \in 0 .. MaxTLVs}

Next ==
  \/ \E type \in Types, tlvs \in TLVLists : Transmit(type, tlvs)
  \/ Receive \/ Respond \/ Compute \/ Reencode
  \/ \E m \in 0 .. 2 : addFakeSecondZoneInfo(m)
  \/ MonthPasses

Spec == Init /\ [][Next]_vars

(***************************************************************************)
(* Properties.                                                             *)
(***************************************************************************)
\* Every field that was sent is read, from its own bytes, and every TLV once
\* and in order: MarshalBinaryTo and UnmarshalBinary (or binary.Read) agree
\* on the place of each field, LengthField and MessageLength lead from TLV to
\* TLV and stop before the two trailing bytes, and nothing of an earlier
\* message remains in the receiver's Signaling.
DecodedIsSent ==
  (sent > 0 /\ received = sent) =>
    /\ DOMAIN got = {r[1] : r \in HeaderRows \cup BodyRows(packet.type)}
    /\ \A f \in DOMAIN got : got[f] = <<packet.id, 0, f>>
    /\ packet.type = "Signaling" =>
         /\ Len(signaling) = Len(packet.tlvs)
         /\ \A j \in DOMAIN signaling :
              /\ signaling[j].type = packet.tlvs[j]
              /\ DOMAIN signaling[j].fields = {r[1] : r \in TLVRows(packet.tlvs[j])}
              /\ \A f \in DOMAIN signaling[j].fields :
                   signaling[j].fields[f] = <<packet.id, j, f>>

\* The worker's buffer still holds the packet sent before: none of its bytes
\* goes out again, and MessageLength, which the builders compute from the
\* structs, is what was written.
NothingStale ==
  received < sent =>
    /\ MessageLength(packet) = Len(wire) - 2
    /\ \A i \in 1 .. Len(wire) - 2 : wire[i][1] = packet.id

\* Rounding costs a time stamp at most one tick on its way through NTP's
\* format, and the seconds' wrap-around whole eras.
StampsExact(x, s) ==
  /\ ServerRx(x) - Unix(s.rx) - Era(ServerRx(x)) * 2 ^ SecBits * TPS \in {0, 1}
  /\ ServerTx(x) - Unix(s.tx) - Era(ServerTx(x)) * 2 ^ SecBits * TPS \in {0, 1}

\* The time stamps of an exchange arrive as exactly as their format allows,
\* and within the first era ntpdate's offset is wrong by no more than half
\* the difference between the ways there and back, the time it lost after the
\* answer arrived, and a tick and a half of rounding.
OffsetBound ==
  \A x \in exchange :
    /\ \A s \in stamps : StampsExact(x, s)
    /\ \A o \in offset :
         Era(ServerTx(x)) = 0 => 2 * Abs(o - x.theta + x.lag) <= Abs(x.d1 - x.d2) + 3

\* The structs hold all that the words say: writing back what was read gives
\* the same word.
WordsKept == back # -1 => back = word[2]

\* A leap second file, in either version and however often it was rewritten,
\* shows every leap second at the time it was asked for, in the order they
\* were added, although the times in the file count the leap seconds before.
\* If they are asked for in the order of time, even several for the same
\* moment, their times in the file ascend, as readers of the format expect.
LeapsShown ==
  part = "zone" =>
    LET ls == parseVx(file).ls
    IN  /\ parseVx(file).ok
        /\ [i \in DOMAIN ls |-> LeapTime(ls[i])] = asked
        /\ (\A i, j \in DOMAIN asked : i < j => asked[i] <= asked[j]) =>
             \A i, j \in DOMAIN ls : i < j => ls[i].Tleap < ls[j].Tleap

=============================================================================
