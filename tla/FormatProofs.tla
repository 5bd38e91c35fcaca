--------------------------- MODULE FormatProofs ----------------------------
(***************************************************************************)
(* Proofs about three of WireFormats' formats, for every value of the      *)
(* constants: each packed word, time stamp and leap second file is read as *)
(* it was written.                                                         *)
(***************************************************************************)
EXTENDS WireFormats, TLAPS

\* What is known of a sequence.
LEMMA SeqFacts ==
  ASSUME NEW S, NEW s \in Seq(S)
  PROVE  Len(s) \in Nat /\ DOMAIN s = 1 .. Len(s) /\ \A i \in 1 .. Len(s) : s[i] \in S
  OBVIOUS

\* And what makes one.
LEMMA FunSeq ==
  ASSUME NEW S, NEW n \in Nat, NEW s \in [1 .. n -> S]
  PROVE  s \in Seq(S) /\ Len(s) = n
  OBVIOUS

-----------------------------------------------------------------------------
(* The packed words                                                        *)
-----------------------------------------------------------------------------
\* The system status word.
LEMMA SystemKept ==
  ASSUME NEW w \in Nat, w < 65536
  PROVE  SystemWord(ReadSystemStatusWord(w)) = w
<1> DEFINE li == (w \div 16384) % 4
           source == (w \div 256) % 64
           counter == (w \div 16) % 16
<1>1. /\ Bits(w, 14, 2) = li /\ Bits(w, 8, 6) = source /\ Bits(w, 4, 4) = counter
      /\ Bits(w, 0, 4) = w % 16
  BY DEF Bits
<1>2. counter * 16 + (w % 16) = w % 256
  OBVIOUS
<1>3. source * 256 + (w % 256) = w % 16384
  OBVIOUS
<1>4. li * 16384 + (w % 16384) = w
  OBVIOUS
<1>5. li \in Int /\ source \in Int /\ counter \in Int /\ w % 16 \in Int /\ w % 256 \in Int
  OBVIOUS
<1> HIDE DEF li, source, counter
<1>6. SystemWord(ReadSystemStatusWord(w)) = li * 16384 + source * 256 + counter * 16 + (w % 16)
  BY <1>1 DEF SystemWord, ReadSystemStatusWord
<1>7. QED
  BY <1>2, <1>3, <1>4, <1>5, <1>6

\* The status byte of a peer.
LEMMA PeerByteKept ==
  ASSUME NEW b \in Nat, b < 32
  PROVE  PeerByte(ReadPeerStatus(b)) = b
<1> DEFINE b4 == (b \div 16) % 2
           b3 == (b \div 8) % 2
           b2 == (b \div 4) % 2
           b1 == (b \div 2) % 2
           b0 == b % 2
<1>1. /\ Bits(b, 4, 1) = b4 /\ Bits(b, 3, 1) = b3 /\ Bits(b, 2, 1) = b2
      /\ Bits(b, 1, 1) = b1 /\ Bits(b, 0, 1) = b0
  BY DEF Bits
<1>2. b1 * 2 + b0 = b % 4
  OBVIOUS
<1>3. b2 * 4 + (b % 4) = b % 8
  OBVIOUS
<1>4. b3 * 8 + (b % 8) = b % 16
  OBVIOUS
<1>5. b4 * 16 + (b % 16) = b
  OBVIOUS
<1>6. /\ b4 \in {0, 1} /\ b3 \in {0, 1} /\ b2 \in {0, 1} /\ b1 \in {0, 1} /\ b0 \in {0, 1}
      /\ b % 4 \in Int /\ b % 8 \in Int /\ b % 16 \in Int
  OBVIOUS
<1> HIDE DEF b4, b3, b2, b1, b0
<1>7. PeerByte(ReadPeerStatus(b)) =
        Bit(b4 # 0, 4) + Bit(b3 # 0, 3) + Bit(b2 # 0, 2) + Bit(b1 # 0, 1) + Bit(b0 # 0, 0)
  BY <1>1 DEF PeerByte, ReadPeerStatus
<1>8. /\ Bit(b4 # 0, 4) = b4 * 16 /\ Bit(b3 # 0, 3) = b3 * 8 /\ Bit(b2 # 0, 2) = b2 * 4
      /\ Bit(b1 # 0, 1) = b1 * 2 /\ Bit(b0 # 0, 0) = b0
  BY <1>6 DEF Bit
<1>9. QED
  BY <1>2, <1>3, <1>4, <1>5, <1>6, <1>7, <1>8

\* The peer status word.
LEMMA PeerKept ==
  ASSUME NEW w \in Nat, w < 65536
  PROVE  PeerWord(ReadPeerStatusWord(w)) = w
<1> DEFINE status == (w \div 2048) % 32
           selection == (w \div 256) % 8
           counter == (w \div 16) % 16
<1>1. /\ Bits(w, 11, 5) = status /\ Bits(w, 8, 3) = selection /\ Bits(w, 4, 4) = counter
      /\ Bits(w, 0, 4) = w % 16
  BY DEF Bits
<1>2. counter * 16 + (w % 16) = w % 256
  OBVIOUS
<1>3. selection * 256 + (w % 256) = w % 2048
  OBVIOUS
<1>4. status * 2048 + (w % 2048) = w
  OBVIOUS
<1>5. /\ status \in Nat /\ status < 32 /\ selection \in Int /\ counter \in Int
      /\ w % 16 \in Int /\ w % 256 \in Int /\ w % 2048 \in Int
  OBVIOUS
<1> HIDE DEF status, selection, counter
<1>6. PeerWord(ReadPeerStatusWord(w)) =
        PeerByte(ReadPeerStatus(status)) * 2048 + selection * 256 + counter * 16 + (w % 16)
  BY <1>1 DEF PeerWord, ReadPeerStatusWord
<1>7. QED
  BY <1>2, <1>3, <1>4, <1>5, <1>6, PeerByteKept

\* The two first bytes of a control message, whose first two bits are 0.
LEMMA HeadKept ==
  ASSUME NEW w \in Nat, w < 16384, NEW h, h = ReadHead(w)
  PROVE  MakeVnMode(h.version, h.mode) * 2 ^ 8 + MakeREMOp(h.response, h.err, h.more, h.op) = w
<1> DEFINE version == (w \div 2048) % 8
           mode == (w \div 256) % 8
           b7 == (w \div 128) % 2
           b6 == (w \div 64) % 2
           b5 == (w \div 32) % 2
<1>1. /\ Bits(w, 11, 3) = version /\ Bits(w, 8, 3) = mode /\ Bits(w, 7, 1) = b7
      /\ Bits(w, 6, 1) = b6 /\ Bits(w, 5, 1) = b5 /\ Bits(w, 0, 5) = w % 32
  BY DEF Bits
<1>2. b5 * 32 + (w % 32) = w % 64
  OBVIOUS
<1>3. b6 * 64 + (w % 64) = w % 128
  OBVIOUS
<1>4. b7 * 128 + (w % 128) = w % 256
  OBVIOUS
<1>5. mode * 256 + (w % 256) = w % 2048
  OBVIOUS
<1>6. version * 2048 + (w % 2048) = w
  OBVIOUS
<1>7. /\ version \in Int /\ mode \in Int /\ b7 \in {0, 1} /\ b6 \in {0, 1} /\ b5 \in {0, 1}
      /\ w % 32 \in Int /\ w % 64 \in Int /\ w % 128 \in Int /\ w % 256 \in Int
      /\ w % 2048 \in Int
  OBVIOUS
<1> HIDE DEF version, mode, b7, b6, b5
<1>8. MakeVnMode(h.version, h.mode) = version * 8 + mode
  BY <1>1 DEF ReadHead, MakeVnMode
<1>9. MakeREMOp(h.response, h.err, h.more, h.op) =
        Bit(b7 # 0, 7) + Bit(b6 # 0, 6) + Bit(b5 # 0, 5) + (w % 32)
  BY <1>1 DEF ReadHead, MakeREMOp
<1>10. /\ Bit(b7 # 0, 7) = b7 * 128 /\ Bit(b6 # 0, 6) = b6 * 64 /\ Bit(b5 # 0, 5) = b5 * 32
  BY <1>7 DEF Bit
<1>11. QED
  BY <1>2, <1>3, <1>4, <1>5, <1>6, <1>7, <1>8, <1>9, <1>10

-----------------------------------------------------------------------------
(* Time stamps                                                             *)
-----------------------------------------------------------------------------
\* What dividing means.
LEMMA Division ==
  ASSUME NEW a \in Int, NEW d \in Nat \ {0}
  PROVE  /\ a \div d \in Int /\ a % d \in Nat /\ a % d < d
         /\ a = d * (a \div d) + (a % d)
  OBVIOUS

\* Of numbers of the same multiplier, the greater has the greater product.
LEMMA Products ==
  ASSUME NEW d \in Nat \ {0}, NEW x \in Int, NEW y \in Int
  PROVE  /\ d * x < d * y => x < y
         /\ d * x <= d * y => x <= y
         /\ x <= y => d * x <= d * y
  OBVIOUS

\* A time stamp is as exact as its format allows.
LEMMA StampExact ==
  ASSUME NEW t \in Int
  PROVE  /\ Unix(Time(t)) \in Int
         /\ t - Unix(Time(t)) - Era(t) * 2 ^ SecBits * TPS \in {0, 1}
<1> DEFINE F == 2 ^ FracBits
           S == 2 ^ SecBits
           nsec == t + Gap * TPS
           sec == nsec \div TPS
           r == nsec - sec * TPS
           q == (r * F) \div TPS
           u == (q * TPS) \div F
           era == sec \div S
           low == sec % S
<1>1. /\ TPS \in Nat \ {0} /\ F \in Nat \ {0} /\ S \in Nat \ {0} /\ TPS <= F /\ Gap \in Nat
  BY TimeAssumption
<1>a. nsec \in Int
  BY <1>1
<1>2. sec \in Int /\ r \in Nat /\ r < TPS /\ nsec = TPS * sec + r
  <2> HIDE DEF nsec
  <2>1. QED
    BY <1>1, <1>a, Division
<1>3. r * F \in Int
  BY <1>1, <1>2
<1> HIDE DEF F, S, nsec, sec, r
<1>4. q \in Int /\ TPS * q <= r * F /\ r * F < TPS * q + TPS
  <2> DEFINE a == r * F
  <2>1. a \in Int
    BY <1>3
  <2> HIDE DEF a
  <2>2. a \div TPS \in Int /\ TPS * (a \div TPS) <= a /\ a < TPS * (a \div TPS) + TPS
    BY <1>1, <2>1, Division
  <2>3. QED
    BY <2>2 DEF a
<1> HIDE DEF q
<1>5. q >= 0 /\ q < F
  <2>1. TPS * q < TPS * F
    <3>1. r * F < TPS * F
      BY <1>1, <1>2
    <3>2. QED
      BY <1>1, <1>3, <1>4, <3>1
  <2>2. TPS * q + TPS > TPS * 0
    <3>1. r * F >= 0
      BY <1>1, <1>2
    <3>2. QED
      BY <1>1, <1>3, <1>4, <3>1
  <2>3. TPS * 0 < TPS * (q + 1)
    BY <1>1, <1>4, <2>2
  <2>4. QED
    BY <1>1, <1>4, <2>1, <2>3, Products
<1>6. q % F = q
  BY <1>1, <1>4, <1>5
<1>7. u \in Int /\ F * u <= q * TPS /\ q * TPS < F * u + F
  <2> DEFINE a == q * TPS
  <2>1. a \in Int
    BY <1>1, <1>4
  <2> HIDE DEF a
  <2>2. a \div F \in Int /\ F * (a \div F) <= a /\ a < F * (a \div F) + F
    BY <1>1, <2>1, Division
  <2>3. QED
    BY <2>2 DEF a
<1> HIDE DEF u
<1>8. u <= r
  <2>1. F * u <= F * r
    BY <1>1, <1>2, <1>4, <1>7
  <2>2. QED
    BY <1>1, <1>2, <1>7, <2>1, Products
<1>9. r < u + 2
  <2>1. F * r < F * (u + 2)
    BY <1>1, <1>2, <1>4, <1>7
  <2>2. QED
    BY <1>1, <1>2, <1>7, <2>1, Products
<1>10. era \in Int /\ low \in Int /\ sec = S * era + low
  BY <1>1, <1>2, Division
<1> HIDE DEF era, low
<1>11. Time(t) = [sec |-> low, frac |-> q]
  BY <1>6 DEF Time, F, S, nsec, sec, r, q, low
<1>12. Unix(Time(t)) = (low - Gap) * TPS + u
  BY <1>11 DEF Unix, u, F
<1>13. Era(t) = era
  BY DEF Era, era, sec, nsec, S
<1>14. t = TPS * sec + r - Gap * TPS
  <2>1. nsec = t + Gap * TPS
    BY DEF nsec
  <2>2. QED
    BY <1>1, <1>2, <2>1
<1>15. t - ((low - Gap) * TPS + u) - era * S * TPS = r - u
  BY <1>1, <1>2, <1>7, <1>10, <1>14
<1>16. (low - Gap) * TPS + u \in Int
  BY <1>1, <1>7, <1>10
<1>17. r - u \in {0, 1}
  BY <1>2, <1>7, <1>8, <1>9
<1>18. QED
  BY <1>12, <1>13, <1>15, <1>16, <1>17 DEF S

\* Four time stamps of an exchange, of which the server's two are late by e1
\* and e2.
Stamped(c1, theta, d1, proc, d2, e1, e2, rx, tx, c4) ==
  /\ e1 \in Nat /\ e1 <= 1 /\ e2 \in Nat /\ e2 <= 1
  /\ Unix(rx) = c1 + theta + d1 - e1 /\ Unix(tx) = c1 + theta + d1 + proc - e2
  /\ c4 = c1 + d1 + proc + d2

\* What ntpdate computes, from time stamps of which each is late by at most
\* a tick.
LEMMA OffsetExact ==
  ASSUME NEW c1 \in Int, NEW theta \in Int, NEW d1 \in Nat, NEW proc \in Nat, NEW d2 \in Nat,
         NEW lag \in Int, NEW e1, NEW e2,
         NEW rx, NEW tx, NEW c4, Stamped(c1, theta, d1, proc, d2, e1, e2, rx, tx, c4)
  PROVE  2 * Abs(ntpDate(c1, rx, tx, c4, c4 + lag) - theta + lag) <= Abs(d1 - d2) + 3
<1> DEFINE D == d1 + d2 + e2 - e1
           h == Abs(D) \div 2
           o == ntpDate(c1, rx, tx, c4, c4 + lag)
<1>1. /\ D \in Int /\ D >= -1 /\ e1 \in Int /\ e2 \in Int
      /\ 0 <= e1 /\ e1 <= 1 /\ 0 <= e2 /\ e2 <= 1
  BY DEF Stamped
<1>s. /\ Unix(rx) = c1 + theta + d1 - e1 /\ Unix(tx) = c1 + theta + d1 + proc - e2
      /\ c4 = c1 + d1 + proc + d2
  BY DEF Stamped
<1>2. (Unix(rx) - c1) + (c4 - Unix(tx)) = D
  BY <1>1, <1>s
<1>3. o = (Unix(tx) + h) - (c4 + lag)
  <2> HIDE DEF D
  <2>1. QED
    BY <1>2, Zenon DEF ntpDate, CalculateOffset, CurrentRealTime, AvgNetworkDelay
<1>4. h \in Int /\ 2 * h <= Abs(D) /\ Abs(D) <= 2 * h + 1
  <2>1. Abs(D) \in Nat
    BY <1>1 DEF Abs
  <2> HIDE DEF D
  <2>2. QED
    BY <2>1
<1> HIDE DEF h, o
<1>5. o - theta + lag = h - e2 - d2
  BY <1>1, <1>3, <1>4, <1>s
<1>6. Abs(D) = D \/ (D = -1 /\ Abs(D) = 1)
  BY <1>1 DEF Abs
<1>7. 2 * Abs(h - e2 - d2) <= Abs(d1 - d2) + 3
  <2>1. \/ 2 * h <= D /\ D <= 2 * h + 1
        \/ D = -1 /\ 2 * h <= 1 /\ 1 <= 2 * h + 1
    BY <1>4, <1>6
  <2>2. QED
    BY <1>1, <1>4, <2>1 DEF Abs
<1>8. QED
  BY <1>5, <1>7 DEF o

-----------------------------------------------------------------------------
(* Leap second files                                                       *)
-----------------------------------------------------------------------------
\* Bytes of a file.
FileByte == Int \X Nat \X Nat

\* The w bytes after position pos are the field v.
Holds(f, pos, v, w) ==
  pos + w <= Len(f) /\ \A k \in 1 .. w : f[pos + k] = <<v, k, w>>

\* What Field writes.
LEMMA FieldFacts ==
  ASSUME NEW v \in Int, NEW w \in Nat
  PROVE  Field(v, w) \in Seq(FileByte) /\ Len(Field(v, w)) = w /\ Holds(Field(v, w), 0, v, w)
<1>1. Field(v, w) \in [1 .. w -> FileByte]
  BY DEF Field, FileByte
<1>2. Field(v, w) \in Seq(FileByte) /\ Len(Field(v, w)) = w
  BY <1>1
<1>3. \A k \in 1 .. w : Field(v, w)[0 + k] = <<v, k, w>>
  BY DEF Field
<1>4. QED
  BY <1>2, <1>3 DEF Holds

\* ReadAt reads what is there.
LEMMA ReadFacts ==
  ASSUME NEW f \in Seq(FileByte), NEW pos \in Nat, NEW v \in Int, NEW w \in Nat \ {0},
         Holds(f, pos, v, w)
  PROVE  ReadAt(f, pos, w) = v
<1>1. pos + w <= Len(f) /\ \A k \in 1 .. w : f[pos + k] = <<v, k, w>>
  BY Zenon DEF Holds
<1>2. f[pos + 1][1] = v
  BY <1>1
<1>3. SubSeq(f, pos + 1, pos + w) = Field(v, w)
  <2> DEFINE s == SubSeq(f, pos + 1, pos + w)
  <2>1. s = [i \in 1 .. w |-> f[pos + i]]
    BY <1>1
  <2>2. QED
    BY <1>1, <2>1, Zenon DEF Field
<1>4. QED
  BY <1>1, <1>2, <1>3 DEF ReadAt

\* What is put before or after a file leaves its fields as they are.
LEMMA ConcatFacts ==
  ASSUME NEW f \in Seq(FileByte), NEW g \in Seq(FileByte)
  PROVE  /\ f \o g \in Seq(FileByte) /\ Len(f \o g) = Len(f) + Len(g)
         /\ \A pos \in Nat, v \in Int, w \in Nat : Holds(f, pos, v, w) => Holds(f \o g, pos, v, w)
         /\ \A pos \in Nat, v \in Int, w \in Nat :
              Holds(g, pos, v, w) => Holds(f \o g, Len(f) + pos, v, w)
<1>1. f \o g \in Seq(FileByte) /\ Len(f \o g) = Len(f) + Len(g)
  OBVIOUS
<1>2. ASSUME NEW pos \in Nat, NEW v \in Int, NEW w \in Nat, Holds(f, pos, v, w)
      PROVE  Holds(f \o g, pos, v, w)
  <2>0. pos + w <= Len(f) /\ \A k \in 1 .. w : f[pos + k] = <<v, k, w>>
    BY <1>2, Zenon DEF Holds
  <2>l. Len(f) \in Nat
    OBVIOUS
  <2>1. \A k \in 1 .. w : pos + k \in 1 .. Len(f) /\ f[pos + k] = <<v, k, w>>
    <3>1. \A k \in 1 .. w : pos + k \in 1 .. Len(f)
      BY <2>0, <2>l
    <3>2. QED
      BY <2>0, <3>1, Zenon
  <2>2. \A k \in 1 .. w : (f \o g)[pos + k] = f[pos + k]
    BY <2>1
  <2>3. pos + w <= Len(f \o g)
    BY <1>1, <1>2 DEF Holds
  <2>4. QED
    BY <2>1, <2>2, <2>3, Zenon DEF Holds
<1>3. ASSUME NEW pos \in Nat, NEW v \in Int, NEW w \in Nat, Holds(g, pos, v, w)
      PROVE  Holds(f \o g, Len(f) + pos, v, w)
  <2>0. pos + w <= Len(g) /\ \A k \in 1 .. w : g[pos + k] = <<v, k, w>>
    BY <1>3, Zenon DEF Holds
  <2>l. Len(g) \in Nat
    OBVIOUS
  <2>1. \A k \in 1 .. w : pos + k \in 1 .. Len(g) /\ g[pos + k] = <<v, k, w>>
    <3>1. \A k \in 1 .. w : pos + k \in 1 .. Len(g)
      BY <2>0, <2>l
    <3>2. QED
      BY <2>0, <3>1, Zenon
  <2>2. \A k \in 1 .. w : (f \o g)[(Len(f) + pos) + k] = g[pos + k]
    BY <2>1
  <2>3. (Len(f) + pos) + w <= Len(f \o g)
    BY <1>1, <1>3 DEF Holds
  <2>4. QED
    BY <2>1, <2>2, <2>3, Zenon DEF Holds
<1>4. QED
  BY <1>1, <1>2, <1>3

\* What g has of f: all its fields, at their places.
Keeps(f, g) ==
  \A pos \in Nat, v \in Int, w \in Nat : Holds(f, pos, v, w) => Holds(g, pos, v, w)

\* g is a file of n bytes with a field v in its last w bytes.
EndsWith(g, n, v, w) == g \in Seq(FileByte) /\ Len(g) = n /\ Holds(g, n - w, v, w)

\* One more field at the end of a file.
LEMMA FieldAfter ==
  ASSUME NEW f \in Seq(FileByte), NEW n \in Nat, NEW v \in Int, NEW w \in Nat, Len(f) = n - w
  PROVE  EndsWith(f \o Field(v, w), n, v, w) /\ Keeps(f, f \o Field(v, w))
<1>1. /\ Field(v, w) \in Seq(FileByte) /\ Len(Field(v, w)) = w /\ Holds(Field(v, w), 0, v, w)
  BY FieldFacts
<1> DEFINE g == f \o Field(v, w)
<1>2. /\ g \in Seq(FileByte) /\ Len(g) = Len(f) + w /\ Holds(g, Len(f) + 0, v, w)
      /\ \A pos \in Nat, v0 \in Int, w0 \in Nat : Holds(f, pos, v0, w0) => Holds(g, pos, v0, w0)
  BY <1>1, ConcatFacts
<1>3. Len(f) + 0 = n - w /\ Len(f) + w = n
  OBVIOUS
<1>4. QED
  BY <1>2, <1>3, Zenon DEF EndsWith, Keeps

\* The fields of a header at position pos.
HeaderAt(f, pos, ver, cnt) ==
  /\ Holds(f, pos, Magic, 4) /\ Holds(f, pos + 4, ver, 1)
  /\ Holds(f, pos + 20, 1, 4) /\ Holds(f, pos + 24, 1, 4) /\ Holds(f, pos + 28, cnt, 4)
  /\ Holds(f, pos + 32, 0, 4) /\ Holds(f, pos + 36, 1, 4) /\ Holds(f, pos + 40, NameLen, 4)

\* What prepareHeader writes.
LEMMA HeaderWritten ==
  ASSUME NEW ver \in Int, NEW cnt \in Nat, NameLen \in Nat
  PROVE  LET h == prepareHeader(ver, cnt)
         IN  h \in Seq(FileByte) /\ Len(h) = HeaderSize /\ HeaderAt(h, 0, ver, cnt)
<1> DEFINE h1 == Field(Magic, 4)
           h2 == h1 \o Field(ver, 1)
           h3 == h2 \o Field(0, 15)
           h4 == h3 \o Field(1, 4)
           h5 == h4 \o Field(1, 4)
           h6 == h5 \o Field(cnt, 4)
           h7 == h6 \o Field(0, 4)
           h8 == h7 \o Field(1, 4)
           h9 == h8 \o Field(NameLen, 4)
<1>0. prepareHeader(ver, cnt) = h9
  BY DEF prepareHeader
<1>a. Magic \in Int
  BY DEF Magic
<1>n. /\ Magic \in Int /\ 0 \in Int /\ 1 \in Int /\ 0 \in Nat /\ 1 \in Nat /\ 4 \in Nat
      /\ 20 \in Nat /\ 24 \in Nat /\ 28 \in Nat /\ 32 \in Nat /\ 36 \in Nat
      /\ cnt \in Int /\ NameLen \in Int
  BY <1>a
<1>1. h1 \in Seq(FileByte) /\ Len(h1) = 4 /\ Holds(h1, 0, Magic, 4)
  BY <1>a, FieldFacts, Zenon
<1> HIDE DEF h1
<1>2. /\ h2 \in Seq(FileByte) /\ Len(h2) = 5
      /\ Holds(h2, 0, Magic, 4) /\ Holds(h2, 4, ver, 1)
  <2>0. 5 \in Nat /\ 1 \in Nat /\ ver \in Int
    OBVIOUS
  <2>1. 4 = 5 - 1
    OBVIOUS
  <2>2. EndsWith(h2, 5, ver, 1) /\ Keeps(h1, h2)
    BY <1>1, <2>0, <2>1, FieldAfter, Zenon
  <2>3. h2 \in Seq(FileByte) /\ Len(h2) = 5 /\ Holds(h2, 4, ver, 1)
    BY <2>1, <2>2 DEF EndsWith
  <2>4. QED
    BY <1>n, <1>1, <2>2, <2>3, Zenon DEF Keeps
<1> HIDE DEF h2
<1>3. /\ h3 \in Seq(FileByte) /\ Len(h3) = 20
      /\ Holds(h3, 0, Magic, 4) /\ Holds(h3, 4, ver, 1)
  <2>0. 20 \in Nat /\ 15 \in Nat /\ 0 \in Int
    OBVIOUS
  <2>1. 5 = 20 - 15
    OBVIOUS
  <2>2. EndsWith(h3, 20, 0, 15) /\ Keeps(h2, h3)
    BY <1>2, <2>0, <2>1, FieldAfter, Zenon
  <2>3. h3 \in Seq(FileByte) /\ Len(h3) = 20 /\ Holds(h3, 5, 0, 15)
    BY <2>1, <2>2 DEF EndsWith
  <2>4. QED
    BY <1>n, <1>2, <2>2, <2>3, Zenon DEF Keeps
<1> HIDE DEF h3
<1>4. /\ h4 \in Seq(FileByte) /\ Len(h4) = 24
      /\ Holds(h4, 0, Magic, 4) /\ Holds(h4, 4, ver, 1) /\ Holds(h4, 20, 1, 4)
  <2>0. 24 \in Nat /\ 4 \in Nat /\ 1 \in Int
    OBVIOUS
  <2>1. 20 = 24 - 4
    OBVIOUS
  <2>2. EndsWith(h4, 24, 1, 4) /\ Keeps(h3, h4)
    BY <1>3, <2>0, <2>1, FieldAfter, Zenon
  <2>3. h4 \in Seq(FileByte) /\ Len(h4) = 24 /\ Holds(h4, 20, 1, 4)
    BY <2>1, <2>2 DEF EndsWith
  <2>4. QED
    BY <1>n, <1>3, <2>2, <2>3, Zenon DEF Keeps
<1> HIDE DEF h4
<1>5. /\ h5 \in Seq(FileByte) /\ Len(h5) = 28
      /\ Holds(h5, 0, Magic, 4) /\ Holds(h5, 4, ver, 1) /\ Holds(h5, 20, 1, 4)
      /\ Holds(h5, 24, 1, 4)
  <2>0. 28 \in Nat /\ 4 \in Nat /\ 1 \in Int
    OBVIOUS
  <2>1. 24 = 28 - 4
    OBVIOUS
  <2>2. EndsWith(h5, 28, 1, 4) /\ Keeps(h4, h5)
    BY <1>4, <2>0, <2>1, FieldAfter, Zenon
  <2>3. h5 \in Seq(FileByte) /\ Len(h5) = 28 /\ Holds(h5, 24, 1, 4)
    BY <2>1, <2>2 DEF EndsWith
  <2>4. QED
    BY <1>n, <1>4, <2>2, <2>3, Zenon DEF Keeps
<1> HIDE DEF h5
<1>6. /\ h6 \in Seq(FileByte) /\ Len(h6) = 32
      /\ Holds(h6, 0, Magic, 4) /\ Holds(h6, 4, ver, 1) /\ Holds(h6, 20, 1, 4)
      /\ Holds(h6, 24, 1, 4) /\ Holds(h6, 28, cnt, 4)
  <2>0. 32 \in Nat /\ 4 \in Nat /\ cnt \in Int
    OBVIOUS
  <2>1. 28 = 32 - 4
    OBVIOUS
  <2>2. EndsWith(h6, 32, cnt, 4) /\ Keeps(h5, h6)
    BY <1>5, <2>0, <2>1, FieldAfter, Zenon
  <2>3. h6 \in Seq(FileByte) /\ Len(h6) = 32 /\ Holds(h6, 28, cnt, 4)
    BY <2>1, <2>2 DEF EndsWith
  <2>4. QED
    BY <1>n, <1>5, <2>2, <2>3, Zenon DEF Keeps
<1> HIDE DEF h6
<1>7. /\ h7 \in Seq(FileByte) /\ Len(h7) = 36
      /\ Holds(h7, 0, Magic, 4) /\ Holds(h7, 4, ver, 1) /\ Holds(h7, 20, 1, 4)
      /\ Holds(h7, 24, 1, 4) /\ Holds(h7, 28, cnt, 4) /\ Holds(h7, 32, 0, 4)
  <2>0. 36 \in Nat /\ 4 \in Nat /\ 0 \in Int
    OBVIOUS
  <2>1. 32 = 36 - 4
    OBVIOUS
  <2>2. EndsWith(h7, 36, 0, 4) /\ Keeps(h6, h7)
    BY <1>6, <2>0, <2>1, FieldAfter, Zenon
  <2>3. h7 \in Seq(FileByte) /\ Len(h7) = 36 /\ Holds(h7, 32, 0, 4)
    BY <2>1, <2>2 DEF EndsWith
  <2>4. QED
    BY <1>n, <1>6, <2>2, <2>3, Zenon DEF Keeps
<1> HIDE DEF h7
<1>8. /\ h8 \in Seq(FileByte) /\ Len(h8) = 40
      /\ Holds(h8, 0, Magic, 4) /\ Holds(h8, 4, ver, 1) /\ Holds(h8, 20, 1, 4)
      /\ Holds(h8, 24, 1, 4) /\ Holds(h8, 28, cnt, 4) /\ Holds(h8, 32, 0, 4)
      /\ Holds(h8, 36, 1, 4)
  <2>0. 40 \in Nat /\ 4 \in Nat /\ 1 \in Int
    OBVIOUS
  <2>1. 36 = 40 - 4
    OBVIOUS
  <2>2. EndsWith(h8, 40, 1, 4) /\ Keeps(h7, h8)
    BY <1>7, <2>0, <2>1, FieldAfter, Zenon
  <2>3. h8 \in Seq(FileByte) /\ Len(h8) = 40 /\ Holds(h8, 36, 1, 4)
    BY <2>1, <2>2 DEF EndsWith
  <2>4. QED
    BY <1>n, <1>7, <2>2, <2>3, ZenonT(30) DEF Keeps
<1> HIDE DEF h8
<1>9. /\ h9 \in Seq(FileByte) /\ Len(h9) = 44
      /\ Holds(h9, 0, Magic, 4) /\ Holds(h9, 4, ver, 1) /\ Holds(h9, 20, 1, 4)
      /\ Holds(h9, 24, 1, 4) /\ Holds(h9, 28, cnt, 4) /\ Holds(h9, 32, 0, 4)
      /\ Holds(h9, 36, 1, 4) /\ Holds(h9, 40, NameLen, 4)
  <2>0. 44 \in Nat /\ 4 \in Nat /\ NameLen \in Int
    OBVIOUS
  <2>1. 40 = 44 - 4
    OBVIOUS
  <2>2. EndsWith(h9, 44, NameLen, 4) /\ Keeps(h8, h9)
    BY <1>8, <2>0, <2>1, FieldAfter, Zenon
  <2>3. h9 \in Seq(FileByte) /\ Len(h9) = 44 /\ Holds(h9, 40, NameLen, 4)
    BY <2>1, <2>2 DEF EndsWith
  <2>4. QED
    BY <1>n, <1>8, <2>2, <2>3, ZenonT(30) DEF Keeps
<1> HIDE DEF h9
<1>12. HeaderAt(h9, 0, ver, cnt)
  BY <1>9 DEF HeaderAt
<1>13. QED
  BY <1>0, <1>9, <1>12 DEF HeaderSize

\* Leap seconds as a file has them.
LeapSeconds == Seq([Tleap : Int, Nleap : Int])

\* The time of a leap second in a field of w bytes.
Stored(t, w) == IF w = 4 THEN t % Width32 ELSE t

\* The leap seconds of a part whose list begins after position pos.
LeapsAt(f, pos, ls, w) ==
  \A i \in DOMAIN ls :
    /\ Holds(f, pos + (i - 1) * (w + 4), Stored(ls[i].Tleap, w), w)
    /\ Holds(f, (pos + (i - 1) * (w + 4)) + w, ls[i].Nleap, 4)

\* Byte k of cell i, in cells of eight bytes and of twelve.
LEMMA Cells ==
  ASSUME NEW L \in Nat, NEW i \in Nat, 1 <= i, i <= L, NEW k \in Nat, 1 <= k
  PROVE  /\ k <= 8 => /\ (i - 1) * 8 + k \in 1 .. L * 8
                      /\ (((i - 1) * 8 + k) - 1) \div 8 = i - 1
                      /\ (((i - 1) * 8 + k) - 1) % 8 = k - 1
         /\ k <= 12 => /\ (i - 1) * 12 + k \in 1 .. L * 12
                       /\ (((i - 1) * 12 + k) - 1) \div 12 = i - 1
                       /\ (((i - 1) * 12 + k) - 1) % 12 = k - 1
<1>1. k <= 8 => (i - 1) * 8 + k \in 1 .. L * 8
  OBVIOUS
<1>2. k <= 8 => (((i - 1) * 8 + k) - 1) \div 8 = i - 1
  OBVIOUS
<1>3. k <= 8 => (((i - 1) * 8 + k) - 1) % 8 = k - 1
  OBVIOUS
<1>4. k <= 12 => (i - 1) * 12 + k \in 1 .. L * 12
  OBVIOUS
<1>5. k <= 12 => (((i - 1) * 12 + k) - 1) \div 12 = i - 1
  OBVIOUS
<1>6. k <= 12 => (((i - 1) * 12 + k) - 1) % 12 = k - 1
  OBVIOUS
<1>7. QED
  BY <1>1, <1>2, <1>3, <1>4, <1>5, <1>6

\* What Leaps writes.
LEMMA LeapsWritten ==
  ASSUME NEW ls \in LeapSeconds, NEW w \in {4, 8}, Width32 \in Nat \ {0}
  PROVE  LET f == Leaps(ls, w)
         IN  f \in Seq(FileByte) /\ Len(f) = Len(ls) * (w + 4) /\ LeapsAt(f, 0, ls, w)
<1> DEFINE f == Leaps(ls, w)
           m == w + 4
           n == Len(ls) * m
           Byte(l, k) == IF k <= w THEN <<Stored(l.Tleap, w), k, w>> ELSE <<l.Nleap, k - w, 4>>
<1>1. /\ m \in {8, 12} /\ n \in Nat /\ w \in Nat /\ Len(ls) \in Nat /\ DOMAIN ls = 1 .. Len(ls)
      /\ \A i \in 1 .. Len(ls) : ls[i].Tleap \in Int /\ ls[i].Nleap \in Int
  <2>1. ls \in Seq([Tleap : Int, Nleap : Int])
    BY DEF LeapSeconds
  <2> DEFINE R == [Tleap : Int, Nleap : Int]
  <2>2. /\ Len(ls) \in Nat /\ DOMAIN ls = 1 .. Len(ls)
        /\ \A i \in 1 .. Len(ls) : ls[i] \in R
    BY <2>1, SeqFacts, Zenon
  <2>3. m \in {8, 12} /\ n \in Nat /\ w \in Nat
    BY <2>2
  <2>4. QED
    BY <2>2, <2>3
<1>2. \A i \in 1 .. n : /\ 1 + ((i - 1) \div m) \in 1 .. Len(ls)
                        /\ 1 + ((i - 1) % m) \in 1 .. m
  <2>1. CASE m = 8
    BY <1>1, <2>1
  <2>2. CASE m = 12
    BY <1>1, <2>2
  <2>3. QED
    BY <1>1, <2>1, <2>2
<1>3. f = [i \in 1 .. n |-> Byte(ls[1 + ((i - 1) \div m)], 1 + ((i - 1) % m))]
  BY DEF Leaps, Stored
<1>4. \A i \in 1 .. Len(ls), k \in 1 .. m : Byte(ls[i], k) \in FileByte
  <2> TAKE i \in 1 .. Len(ls), k \in 1 .. m
  <2>1. Stored(ls[i].Tleap, w) \in Int
    BY <1>1 DEF Stored
  <2>2. k \in Nat /\ (~ (k <= w) => k - w \in Nat) /\ w \in Nat /\ 4 \in Nat
    BY <1>1
  <2>3. ls[i].Nleap \in Int
    BY <1>1, Zenon
  <2>4. CASE k <= w
    BY <2>1, <2>2, <2>4, Zenon DEF FileByte
  <2>5. CASE ~ (k <= w)
    BY <2>2, <2>3, <2>5, Zenon DEF FileByte
  <2>6. QED
    BY <2>4, <2>5, Zenon
<1> HIDE DEF f, Byte
<1>5. f \in [1 .. n -> FileByte]
  BY <1>2, <1>3, <1>4, Zenon
<1>6. f \in Seq(FileByte) /\ Len(f) = n
  BY <1>1, <1>5
<1>7. \A i \in 1 .. Len(ls), k \in 1 .. m :
        /\ (i - 1) * m + k \in 1 .. n
        /\ f[(i - 1) * m + k] = Byte(ls[i], k)
  <2> TAKE i \in 1 .. Len(ls), k \in 1 .. m
  <2> DEFINE x == (i - 1) * m + k
  <2>1. x \in 1 .. n /\ (x - 1) \div m = i - 1 /\ (x - 1) % m = k - 1
    <3>0. i \in Nat /\ 1 <= i /\ i <= Len(ls) /\ k \in Nat /\ 1 <= k /\ k <= m
      BY <1>1
    <3> HIDE DEF m
    <3>1. CASE m = 8
      <4>1. /\ (i - 1) * 8 + k \in 1 .. Len(ls) * 8
            /\ (((i - 1) * 8 + k) - 1) \div 8 = i - 1
            /\ (((i - 1) * 8 + k) - 1) % 8 = k - 1
        BY <1>1, <3>0, <3>1, Cells
      <4>2. QED
        BY <3>1, <4>1
    <3>2. CASE m = 12
      <4>1. /\ (i - 1) * 12 + k \in 1 .. Len(ls) * 12
            /\ (((i - 1) * 12 + k) - 1) \div 12 = i - 1
            /\ (((i - 1) * 12 + k) - 1) % 12 = k - 1
        BY <1>1, <3>0, <3>2, Cells
      <4>2. QED
        BY <3>2, <4>1
    <3>3. QED
      BY <1>1, <3>1, <3>2
  <2>2. 1 + (i - 1) = i /\ 1 + (k - 1) = k
    BY <1>1
  <2> HIDE DEF x, m, n
  <2>3. f[x] = Byte(ls[i], k)
    BY <1>3, <2>1, <2>2
  <2>4. QED
    BY <2>1, <2>3 DEF x
<1>8. ASSUME NEW i \in DOMAIN ls
      PROVE  /\ Holds(f, 0 + (i - 1) * m, Stored(ls[i].Tleap, w), w)
             /\ Holds(f, (0 + (i - 1) * m) + w, ls[i].Nleap, 4)
  <2> DEFINE p == (i - 1) * m
  <2>1. i \in 1 .. Len(ls) /\ p \in Nat /\ p + m <= n
    BY <1>1
  <2>2. \A k \in 1 .. m : f[p + k] = Byte(ls[i], k)
    BY <1>7, <2>1, SMTT(30)
  <2> HIDE DEF p
  <2>3. \A k \in 1 .. w : f[p + k] = <<Stored(ls[i].Tleap, w), k, w>>
    <3> TAKE k \in 1 .. w
    <3>1. k \in 1 .. m /\ k <= w
      BY <1>1
    <3>2. QED
      BY <2>2, <3>1, Zenon DEF Byte
  <2>4. \A k \in 1 .. 4 : f[(p + w) + k] = <<ls[i].Nleap, k, 4>>
    <3> TAKE k \in 1 .. 4
    <3>1. w + k \in 1 .. m /\ ~ (w + k <= w) /\ (w + k) - w = k /\ (p + w) + k = p + (w + k)
      BY <1>1, <2>1
    <3>2. QED
      BY <2>2, <3>1, Zenon DEF Byte
  <2>5. p + w <= n /\ (p + w) + 4 <= n
    BY <1>1, <2>1
  <2>6. 0 + p = p
    BY <2>1
  <2>7. Holds(f, p, Stored(ls[i].Tleap, w), w) /\ Holds(f, p + w, ls[i].Nleap, 4)
    BY <1>6, <2>3, <2>4, <2>5 DEF Holds
  <2>8. QED
    BY <2>6, <2>7 DEF p
<1>9. LeapsAt(f, 0, ls, w)
  BY <1>8 DEF LeapsAt
<1>10. QED
  BY <1>6, <1>9 DEF f

\* What h has of g, from position n on: all its fields.
Shifts(n, g, h) ==
  \A pos \in Nat, v \in Int, w \in Nat : Holds(g, pos, v, w) => Holds(h, n + pos, v, w)

\* Two files after each other.
LEMMA ConcatParts ==
  ASSUME NEW f \in Seq(FileByte), NEW g \in Seq(FileByte)
  PROVE  /\ f \o g \in Seq(FileByte) /\ Len(f \o g) = Len(f) + Len(g)
         /\ Keeps(f, f \o g) /\ Shifts(Len(f), g, f \o g)
  BY ConcatFacts, Zenon DEF Keeps, Shifts

\* What is known of each leap second.
LEMMA LeapFacts ==
  ASSUME NEW ls \in LeapSeconds, Width32 \in Nat \ {0}, NEW w \in {4, 8}
  PROVE  /\ Len(ls) \in Nat /\ DOMAIN ls = 1 .. Len(ls)
         /\ \A i \in 1 .. Len(ls) : /\ ls[i] \in [Tleap : Int, Nleap : Int]
                                    /\ Stored(ls[i].Tleap, w) \in Int
<1>1. ls \in Seq([Tleap : Int, Nleap : Int])
  BY DEF LeapSeconds
<1>2. /\ Len(ls) \in Nat /\ DOMAIN ls = 1 .. Len(ls)
      /\ \A i \in 1 .. Len(ls) : ls[i] \in [Tleap : Int, Nleap : Int]
  BY <1>1, SeqFacts, Zenon
<1>3. \A t \in Int : Stored(t, w) \in Int
  BY DEF Stored
<1>4. QED
  BY <1>2, <1>3

\* A header stays where it is, or moves as a whole.
LEMMA HeaderMoves ==
  ASSUME NEW f, NEW g, NEW n \in Nat, NEW pos \in Nat, NEW ver \in Int, NEW cnt \in Nat,
         NameLen \in Nat, HeaderAt(f, pos, ver, cnt)
  PROVE  /\ Keeps(f, g) => HeaderAt(g, pos, ver, cnt)
         /\ Shifts(n, f, g) => HeaderAt(g, n + pos, ver, cnt)
<1>1. Magic \in Int
  BY DEF Magic
<1>2. /\ pos + 4 \in Nat /\ pos + 20 \in Nat /\ pos + 24 \in Nat /\ pos + 28 \in Nat
      /\ pos + 32 \in Nat /\ pos + 36 \in Nat /\ pos + 40 \in Nat
      /\ 1 \in Nat /\ 4 \in Nat /\ 0 \in Int /\ 1 \in Int /\ cnt \in Int /\ NameLen \in Int
  OBVIOUS
<1>3. ASSUME Keeps(f, g) PROVE HeaderAt(g, pos, ver, cnt)
  BY <1>1, <1>2, <1>3, Zenon DEF Keeps, HeaderAt
<1>4. ASSUME Shifts(n, f, g) PROVE HeaderAt(g, n + pos, ver, cnt)
  <2>1. /\ (n + pos) + 4 = n + (pos + 4) /\ (n + pos) + 20 = n + (pos + 20)
        /\ (n + pos) + 24 = n + (pos + 24) /\ (n + pos) + 28 = n + (pos + 28)
        /\ (n + pos) + 32 = n + (pos + 32) /\ (n + pos) + 36 = n + (pos + 36)
        /\ (n + pos) + 40 = n + (pos + 40)
    OBVIOUS
  <2>2. /\ Holds(g, n + pos, Magic, 4) /\ Holds(g, n + (pos + 4), ver, 1)
        /\ Holds(g, n + (pos + 20), 1, 4) /\ Holds(g, n + (pos + 24), 1, 4)
        /\ Holds(g, n + (pos + 28), cnt, 4) /\ Holds(g, n + (pos + 32), 0, 4)
        /\ Holds(g, n + (pos + 36), 1, 4) /\ Holds(g, n + (pos + 40), NameLen, 4)
    BY <1>1, <1>2, <1>4, Zenon DEF Shifts, HeaderAt
  <2>3. QED
    BY <2>1, <2>2 DEF HeaderAt
<1>5. QED
  BY <1>3, <1>4

\* And so does a list of leap seconds.
LEMMA LeapsMove ==
  ASSUME NEW f, NEW g, NEW n \in Nat, NEW pos \in Nat, NEW ls \in LeapSeconds, NEW w \in {4, 8},
         Width32 \in Nat \ {0}, LeapsAt(f, pos, ls, w)
  PROVE  /\ Keeps(f, g) => LeapsAt(g, pos, ls, w)
         /\ Shifts(n, f, g) => LeapsAt(g, n + pos, ls, w)
<1>0. w \in Nat /\ 4 \in Nat
  OBVIOUS
<1>1. ASSUME NEW i \in DOMAIN ls
      PROVE  /\ Keeps(f, g) => /\ Holds(g, pos + (i - 1) * (w + 4), Stored(ls[i].Tleap, w), w)
                               /\ Holds(g, (pos + (i - 1) * (w + 4)) + w, ls[i].Nleap, 4)
             /\ Shifts(n, f, g) =>
                  /\ Holds(g, (n + pos) + (i - 1) * (w + 4), Stored(ls[i].Tleap, w), w)
                  /\ Holds(g, ((n + pos) + (i - 1) * (w + 4)) + w, ls[i].Nleap, 4)
  <2> DEFINE p == pos + (i - 1) * (w + 4)
             t == Stored(ls[i].Tleap, w)
  <2>1. i \in Nat /\ i >= 1 /\ t \in Int /\ ls[i].Nleap \in Int
    <3>1. /\ Len(ls) \in Nat /\ i \in 1 .. Len(ls) /\ ls[i] \in [Tleap : Int, Nleap : Int]
          /\ t \in Int
      BY LeapFacts, Zenon
    <3>2. QED
      BY <3>1
  <2>2. Holds(f, p, t, w) /\ Holds(f, p + w, ls[i].Nleap, 4)
    BY DEF LeapsAt
  <2>3. PICK c \in Nat : c = (i - 1) * (w + 4)
    BY <2>1
  <2>4. p = pos + c /\ (n + pos) + (i - 1) * (w + 4) = n + p /\ p \in Nat /\ p + w \in Nat
    BY <1>0, <2>3
  <2>5. ((n + pos) + (i - 1) * (w + 4)) + w = n + (p + w)
    BY <1>0, <2>3, <2>4
  <2> HIDE DEF p, t
  <2>6. Keeps(f, g) => Holds(g, p, t, w) /\ Holds(g, p + w, ls[i].Nleap, 4)
    BY <1>0, <2>1, <2>2, <2>4, Zenon DEF Keeps
  <2>7. Shifts(n, f, g) => Holds(g, n + p, t, w) /\ Holds(g, n + (p + w), ls[i].Nleap, 4)
    BY <1>0, <2>1, <2>2, <2>4, Zenon DEF Shifts
  <2>8. QED
    BY <2>4, <2>5, <2>6, <2>7, Zenon DEF p, t
<1>2. QED
  BY <1>1, Zenon DEF LeapsAt

\* A part of a file as Write makes it.
IsPart(f, pos, ver, ls, w) ==
  /\ HeaderAt(f, pos, ver, Len(ls))
  /\ LeapsAt(f, pos + (50 + NameLen), ls, w)

\* What Part writes.
LEMMA PartWritten ==
  ASSUME NEW ver \in Int, NEW ls \in LeapSeconds, NEW w \in {4, 8},
         Width32 \in Nat \ {0}, NameLen \in Nat
  PROVE  LET f == Part(ver, ls, w)
         IN  /\ f \in Seq(FileByte) /\ Len(f) = 52 + NameLen + Len(ls) * (w + 4)
             /\ IsPart(f, 0, ver, ls, w)
<1> DEFINE h == prepareHeader(ver, Len(ls))
           f1 == h \o PreData
           f2 == f1 \o Leaps(ls, w)
           f == f2 \o PostData
           m == 50 + NameLen
<1>0. 0 \in Int /\ 2 \in Nat /\ 6 \in Nat
  OBVIOUS
<1>1. Len(ls) \in Nat /\ Len(ls) * (w + 4) \in Nat
  <2>1. Len(ls) \in Nat
    BY LeapFacts, Zenon
  <2>2. QED
    BY <2>1
<1>2. h \in Seq(FileByte) /\ Len(h) = 44 /\ HeaderAt(h, 0, ver, Len(ls))
  BY <1>1, HeaderWritten DEF HeaderSize
<1>3. PreData \in Seq(FileByte) /\ Len(PreData) = 6 + NameLen
  <2>1. Name \in Int
    BY DEF Name
  <2>2. /\ Field(0, 6) \in Seq(FileByte) /\ Len(Field(0, 6)) = 6
        /\ Field(Name, NameLen) \in Seq(FileByte) /\ Len(Field(Name, NameLen)) = NameLen
    BY <1>0, <2>1, FieldFacts, Zenon
  <2>3. QED
    BY <2>2, ConcatParts, Zenon DEF PreData
<1>4. LET l == Leaps(ls, w)
      IN  l \in Seq(FileByte) /\ Len(l) = Len(ls) * (w + 4) /\ LeapsAt(l, 0, ls, w)
  BY LeapsWritten
<1>5. PostData \in Seq(FileByte) /\ Len(PostData) = 2
  BY <1>0, FieldFacts, Zenon DEF PostData
<1> HIDE DEF h
<1>6. f1 \in Seq(FileByte) /\ Len(f1) = m /\ Keeps(h, f1)
  <2>1. f1 \in Seq(FileByte) /\ Len(f1) = 44 + (6 + NameLen) /\ Keeps(h, f1)
    BY <1>2, <1>3, ConcatParts, Zenon
  <2>2. QED
    BY <2>1
<1> HIDE DEF f1
<1>7. /\ f2 \in Seq(FileByte) /\ Len(f2) = m + Len(ls) * (w + 4) /\ Keeps(f1, f2)
      /\ Shifts(m, Leaps(ls, w), f2)
  BY <1>4, <1>6, ConcatParts
<1> HIDE DEF f2
<1>8. f \in Seq(FileByte) /\ Len(f) = (m + Len(ls) * (w + 4)) + 2 /\ Keeps(f2, f)
  BY <1>5, <1>7, ConcatParts, Zenon
<1> HIDE DEF f
<1>9. HeaderAt(f, 0, ver, Len(ls))
  <2>1. HeaderAt(f1, 0, ver, Len(ls))
    BY <1>1, <1>2, <1>6, HeaderMoves, Zenon
  <2>2. HeaderAt(f2, 0, ver, Len(ls))
    BY <1>1, <1>7, <2>1, HeaderMoves
  <2>3. QED
    BY <1>1, <1>8, <2>2, HeaderMoves, Zenon
<1>10. LeapsAt(f, m, ls, w)
  <2>1. m \in Nat /\ m + 0 = m
    OBVIOUS
  <2>2. LeapsAt(f2, m + 0, ls, w)
    BY <1>4, <1>7, <2>1, LeapsMove
  <2>3. QED
    <3>1. LeapsAt(f2, m, ls, w)
      BY <2>1, <2>2
    <3> HIDE DEF m
    <3>2. QED
      BY <1>8, <2>1, <3>1, LeapsMove, Zenon
<1>11. 0 + m = m /\ (m + Len(ls) * (w + 4)) + 2 = 52 + NameLen + Len(ls) * (w + 4)
  BY <1>1
<1>12. IsPart(f, 0, ver, ls, w)
  BY <1>9, <1>10, <1>11 DEF IsPart
<1>13. f = Part(ver, ls, w)
  BY DEF Part, f, f2, f1, h
<1>14. QED
  BY <1>8, <1>11, <1>12, <1>13

\* What Counts returns of a header that prepareHeader wrote.
Written(cnt) ==
  [IsUtc |-> 1, IsStd |-> 1, Leap |-> cnt, Time |-> 0, Type |-> 1, Char |-> NameLen]

\* A header is read as it was written.
LEMMA HeaderRead ==
  ASSUME NEW f \in Seq(FileByte), NEW pos \in Nat, NEW ver \in Int, NEW cnt \in Nat,
         NameLen \in Nat, HeaderAt(f, pos, ver, cnt)
  PROVE  /\ ReadAt(f, pos, 4) = Magic /\ ReadAt(f, pos + 4, 1) = ver
         /\ Counts(f, pos) = Written(cnt)
<1>1. Magic \in Int
  BY DEF Magic
<1>2. /\ pos + 4 \in Nat /\ pos + 20 \in Nat /\ pos + 24 \in Nat /\ pos + 28 \in Nat
      /\ pos + 32 \in Nat /\ pos + 36 \in Nat /\ pos + 40 \in Nat
      /\ 1 \in Nat \ {0} /\ 4 \in Nat \ {0} /\ 0 \in Int /\ 1 \in Int /\ cnt \in Int
      /\ NameLen \in Int
  OBVIOUS
<1>3. ReadAt(f, pos, 4) = Magic /\ ReadAt(f, pos + 4, 1) = ver
  BY <1>1, <1>2, ReadFacts, Zenon DEF HeaderAt
<1>4. /\ ReadAt(f, pos + 20, 4) = 1 /\ ReadAt(f, pos + 24, 4) = 1
      /\ ReadAt(f, pos + 28, 4) = cnt /\ ReadAt(f, pos + 32, 4) = 0
      /\ ReadAt(f, pos + 36, 4) = 1 /\ ReadAt(f, pos + 40, 4) = NameLen
  BY <1>2, ReadFacts, ZenonT(30) DEF HeaderAt
<1>5. QED
  BY <1>3, <1>4, Zenon DEF Counts, Written

\* Leap seconds whose times fit their fields are read as they were written.
LEMMA LeapsRead ==
  ASSUME NEW f \in Seq(FileByte), NEW pos \in Nat, NEW ls \in LeapSeconds, NEW w \in {4, 8},
         Width32 \in Nat \ {0}, LeapsAt(f, pos, ls, w),
         \A i \in DOMAIN ls : Stored(ls[i].Tleap, w) = ls[i].Tleap
  PROVE  ReadLeaps(f, pos, Len(ls), w) = ls
<1> DEFINE R == ReadLeaps(f, pos, Len(ls), w)
<1>1. /\ Len(ls) \in Nat /\ DOMAIN ls = 1 .. Len(ls)
      /\ \A i \in 1 .. Len(ls) : ls[i] \in [Tleap : Int, Nleap : Int]
  BY LeapFacts, Zenon
<1>2. ASSUME NEW i \in 1 .. Len(ls)
      PROVE  [Tleap |-> ReadAt(f, pos + (i - 1) * (w + 4), w),
              Nleap |-> ReadAt(f, pos + (i - 1) * (w + 4) + w, 4)] = ls[i]
  <2> DEFINE p == pos + (i - 1) * (w + 4)
  <2>1. Holds(f, p, ls[i].Tleap, w) /\ Holds(f, p + w, ls[i].Nleap, 4)
    BY <1>1, Zenon DEF LeapsAt
  <2>2. p \in Nat /\ p + w \in Nat /\ w \in Nat \ {0} /\ 4 \in Nat \ {0}
    BY <1>1
  <2>3. ls[i] \in [Tleap : Int, Nleap : Int]
    BY <1>1
  <2>4. ls[i].Tleap \in Int /\ ls[i].Nleap \in Int
    BY <2>3
  <2> HIDE DEF p
  <2>5. ReadAt(f, p, w) = ls[i].Tleap /\ ReadAt(f, p + w, 4) = ls[i].Nleap
    BY <2>1, <2>2, <2>4, ReadFacts, Zenon
  <2>6. [Tleap |-> ReadAt(f, p, w), Nleap |-> ReadAt(f, p + w, 4)] = ls[i]
    BY <2>3, <2>5
  <2>7. QED
    BY <2>6, Zenon DEF p
<1>3. R = [i \in 1 .. Len(ls) |-> ls[i]]
  BY <1>2, Zenon DEF ReadLeaps
<1>4. ls = [i \in 1 .. Len(ls) |-> ls[i]]
  <2>1. ls \in Seq([Tleap : Int, Nleap : Int])
    BY DEF LeapSeconds
  <2>2. QED
    BY <1>1, <2>1
<1>5. QED
  BY <1>3, <1>4, Zenon

\* Write and parseVx, in both versions: the leap seconds that were written are
\* read, if those in a file of the first version have times of 32 bits.
LEMMA Parsed ==
  ASSUME NEW ls \in LeapSeconds, NEW ver \in {0, Version2},
         Width32 \in Nat \ {0}, NameLen \in Nat,
         ver = 0 => \A i \in DOMAIN ls : ls[i].Tleap >= 0 /\ ls[i].Tleap < Width32
  PROVE  parseVx(Write(ver, ls)) = [ok |-> TRUE, ls |-> ls]
<1> DEFINE f == Write(ver, ls)
           n == Len(ls)
           c == Written(n)
           m == 50 + NameLen
           second == 52 + NameLen + n * 8
<1>1. /\ n \in Nat /\ DOMAIN ls = 1 .. n
      /\ \A i \in 1 .. n : ls[i] \in [Tleap : Int, Nleap : Int]
  BY LeapFacts, Zenon
<1>2. ver \in Int /\ 4 \in {4, 8} /\ 8 \in {4, 8} /\ 0 \in Nat /\ m \in Nat /\ second \in Nat
  BY <1>1 DEF Version2
<1>3. /\ Part(ver, ls, 4) \in Seq(FileByte)
      /\ Len(Part(ver, ls, 4)) = 52 + NameLen + n * (4 + 4)
      /\ IsPart(Part(ver, ls, 4), 0, ver, ls, 4)
  BY <1>2, PartWritten, Zenon
<1>3a. Len(Part(ver, ls, 4)) = second /\ 0 + (50 + NameLen) = m /\ 0 + 4 = 4
  BY <1>1, <1>3
<1>4. /\ c.Time = 0 /\ c.Type = 1 /\ c.Char = NameLen /\ c.Leap = n
      /\ HeaderSize + c.Time * 5 + c.Type * 6 + c.Char = m
      /\ HeaderSize + SkipPart(c) = second
  BY <1>1 DEF Written, HeaderSize, SkipPart
<1> HIDE DEF n, c, m, second
<1>5. /\ HeaderAt(Part(ver, ls, 4), 0, ver, n) /\ LeapsAt(Part(ver, ls, 4), m, ls, 4)
  BY <1>3, <1>3a, Zenon DEF IsPart, n
<1>6. CASE ver = 0
  <2>1. f = Part(ver, ls, 4)
    <3>1. ver # Version2
      BY <1>6 DEF Version2
    <3>2. f = Part(ver, ls, 4) \o <<>>
      BY <3>1, Zenon DEF Write
    <3>3. QED
      BY <1>3, <3>2
  <2> HIDE DEF f
  <2>2. f \in Seq(FileByte) /\ HeaderAt(f, 0, ver, n) /\ LeapsAt(f, m, ls, 4)
    BY <1>3, <1>5, <2>1, Zenon
  <2>3. /\ ReadAt(f, 0, 4) = Magic /\ ReadAt(f, 0 + 4, 1) = ver /\ Counts(f, 0) = c
    BY <1>1, <1>2, <2>2, HeaderRead, Zenon DEF c
  <2>4. \A i \in DOMAIN ls : Stored(ls[i].Tleap, 4) = ls[i].Tleap
    <3> SUFFICES ASSUME NEW i \in DOMAIN ls PROVE ls[i].Tleap % Width32 = ls[i].Tleap
      BY DEF Stored
    <3>1. PICK t \in Nat : t = ls[i].Tleap /\ t < Width32
      BY <1>1, <1>6
    <3>2. t % Width32 = t
      BY <3>1
    <3>3. QED
      BY <3>1, <3>2
  <2>5. ReadLeaps(f, m, n, 4) = ls
    BY <1>2, <2>2, <2>4, LeapsRead, Zenon DEF n
  <2>6. PartAt(f, 0, {0, Version2, Version3})
    BY <1>6, <2>3, <1>3a DEF PartAt
  <2>7. ReadAt(f, 4, 1) = 0
    BY <1>3a, <1>6, <2>3
  <2>8. parseVx(f) = [ok |-> TRUE, ls |-> ReadLeaps(f, HeaderSize + c.Time * 5 + c.Type * 6 + c.Char, c.Leap, 4)]
    BY <2>3, <2>6, <2>7, Zenon DEF parseVx
  <2>9. QED
    BY <1>4, <2>5, <2>8, Zenon DEF f
<1>7. CASE ver = Version2
  <2> DEFINE a == Part(ver, ls, 4)
             b == Part(ver, ls, 8)
             e == Field(0, 2)
             m2 == second + m
  <2>1. /\ b \in Seq(FileByte) /\ IsPart(b, 0, ver, ls, 8)
    BY <1>2, PartWritten, Zenon
  <2>2. HeaderAt(b, 0, ver, n) /\ LeapsAt(b, m, ls, 8)
    BY <1>3a, <2>1, Zenon DEF IsPart, n
  <2>3. e \in Seq(FileByte)
    <3>1. 0 \in Int /\ 2 \in Nat
      OBVIOUS
    <3>2. QED
      BY <3>1, FieldFacts, Zenon
  <2>4. f = a \o (b \o e)
    BY <1>7, Zenon DEF Write
  <2>5. second + 0 = second /\ m2 \in Nat
    BY <1>2
  <2>p. /\ a \in Seq(FileByte) /\ Len(a) = second /\ HeaderAt(a, 0, ver, n)
    BY <1>3, <1>3a, <1>5, Zenon
  <2> HIDE DEF a, b, e
  <2>6. b \o e \in Seq(FileByte) /\ Keeps(b, b \o e)
    BY <2>1, <2>3, ConcatParts, Zenon
  <2> DEFINE d == b \o e
  <2>7. HeaderAt(d, 0, ver, n)
    BY <1>1, <1>2, <2>2, <2>6, HeaderMoves, Zenon
  <2>8. LeapsAt(d, m, ls, 8)
    BY <1>2, <2>2, <2>6, LeapsMove, Zenon
  <2>q. d \in Seq(FileByte) /\ f = a \o d
    BY <2>4, <2>6
  <2> HIDE DEF d, f
  <2>9. f \in Seq(FileByte) /\ Keeps(a, f) /\ Shifts(second, d, f)
    BY <2>p, <2>q, ConcatParts, Zenon
  <2>10. HeaderAt(f, 0, ver, n)
    BY <1>1, <1>2, <2>9, <2>p, HeaderMoves, Zenon
  <2>11. HeaderAt(f, second, ver, n)
    <3>1. HeaderAt(f, second + 0, ver, n)
      BY <1>1, <1>2, <2>7, <2>9, HeaderMoves, Zenon
    <3>2. QED
      BY <2>5, <3>1, Zenon
  <2>12. LeapsAt(f, m2, ls, 8)
    BY <1>2, <2>8, <2>9, LeapsMove, Zenon
  <2>13. /\ ReadAt(f, 0, 4) = Magic /\ ReadAt(f, 0 + 4, 1) = ver /\ Counts(f, 0) = c
    BY <1>1, <1>2, <2>9, <2>10, HeaderRead, Zenon DEF c
  <2>14. /\ ReadAt(f, second, 4) = Magic /\ ReadAt(f, second + 4, 1) = ver
         /\ Counts(f, second) = c
    BY <1>1, <1>2, <2>9, <2>11, HeaderRead, Zenon DEF c
  <2>15. \A i \in DOMAIN ls : Stored(ls[i].Tleap, 8) = ls[i].Tleap
    BY DEF Stored
  <2>16. ReadLeaps(f, m2, n, 8) = ls
    BY <1>2, <2>5, <2>9, <2>12, <2>15, LeapsRead, Zenon DEF n
  <2>17. PartAt(f, 0, {0, Version2, Version3}) /\ PartAt(f, second, {Version2, Version3})
    BY <1>7, <1>3a, <2>13, <2>14 DEF PartAt
  <2>18. ReadAt(f, 4, 1) # 0
    BY <1>3a, <1>7, <2>13 DEF Version2
  <2>19. second + HeaderSize + c.Time * 9 + c.Type * 6 + c.Char = m2
    BY <1>2, <1>4 DEF HeaderSize, m
  <2>20. parseVx(f) = [ok |-> TRUE,
                       ls |-> ReadLeaps(f, second + HeaderSize + c.Time * 9 + c.Type * 6 + c.Char,
                                        c.Leap, 8)]
    BY <1>4, <2>13, <2>14, <2>17, <2>18, Zenon DEF parseVx
  <2>21. QED
    BY <1>4, <2>16, <2>19, <2>20, Zenon DEF f
<1>8. QED
  BY <1>6, <1>7

-----------------------------------------------------------------------------
(* The packed words                                                        *)
-----------------------------------------------------------------------------
\* The word is one that fits its kind.
WordFits ==
  /\ word[1] \in {"system", "peer", "head"} /\ word[2] \in Nat
  /\ word[2] < (IF word[1] = "head" THEN 16384 ELSE 65536)

WordInv == (part = "words" => WordFits) /\ WordsKept

\* Encode gives back the word that was read.
LEMMA Encoded ==
  ASSUME NEW w \in Nat, NEW kind \in {"system", "peer", "head"},
         w < (IF kind = "head" THEN 16384 ELSE 65536)
  PROVE  Encode(kind, w) = w
<1>1. CASE kind = "system"
  <2>1. Encode(kind, w) = SystemWord(ReadSystemStatusWord(w))
    BY <1>1 DEF Encode
  <2>2. QED
    BY <1>1, <2>1, SystemKept
<1>2. CASE kind = "peer"
  <2>1. Encode(kind, w) = PeerWord(ReadPeerStatusWord(w))
    BY <1>2 DEF Encode
  <2>2. QED
    BY <1>2, <2>1, PeerKept
<1>3. CASE kind = "head"
  <2> DEFINE h == ReadHead(w)
  <2>1. Encode(kind, w) = MakeVnMode(h.version, h.mode) * 2 ^ 8
                            + MakeREMOp(h.response, h.err, h.more, h.op)
    BY <1>3 DEF Encode
  <2>2. w < 16384
    BY <1>3
  <2> HIDE DEF h
  <2>3. MakeVnMode(h.version, h.mode) * 2 ^ 8 + MakeREMOp(h.response, h.err, h.more, h.op) = w
    BY <2>2, HeadKept DEF h
  <2>4. QED
    BY <2>1, <2>3
<1>4. QED
  BY <1>1, <1>2, <1>3

\* The structs of ntp/control hold all that the words say, for every word.
THEOREM WordsRoundTrip == Spec => []WordsKept
<1>1. Init => WordInv
  <2> SUFFICES ASSUME Init PROVE WordInv
    OBVIOUS
  <2>1. WordsKept
    BY DEF Init, WordsKept
  <2>2. ASSUME part = "words" PROVE WordFits
    <3>1. \A w \in Words : w \in Nat /\ w < 65536
      BY FormatsAssumption
    <3>2. word \in ({"system", "peer"} \X Words) \cup ({"head"} \X {w \in Words : w < 16384})
      BY <2>2 DEF Init
    <3>3. CASE word \in {"system", "peer"} \X Words
      <4>1. PICK k \in {"system", "peer"}, w \in Words : word = <<k, w>>
        BY <3>3
      <4>2. word[1] = k /\ word[2] = w /\ k # "head"
        BY <4>1
      <4>3. QED
        BY <3>1, <4>2 DEF WordFits
    <3>4. CASE word \in {"head"} \X {w \in Words : w < 16384}
      <4>1. PICK w \in {w \in Words : w < 16384} : word = <<"head", w>>
        BY <3>4
      <4>2. word[1] = "head" /\ word[2] = w /\ w \in Words /\ w < 16384
        BY <4>1, SMTT(30)
      <4>3. QED
        BY <3>1, <4>2 DEF WordFits
    <3>5. QED
      BY <3>2, <3>3, <3>4
  <2>3. QED
    BY <2>1, <2>2 DEF WordInv
<1>2. WordInv /\ [Next]_vars => WordInv'
  <2> SUFFICES ASSUME WordInv, [Next]_vars PROVE WordInv'
    OBVIOUS
  <2>1. CASE Reencode
    <3>1. WordFits
      BY <2>1 DEF Reencode, WordInv
    <3>2. back' = Encode(word[1], word[2]) /\ word' = word /\ part' = part
      BY <2>1 DEF Reencode
    <3>3. Encode(word[1], word[2]) = word[2]
      BY <3>1, Encoded DEF WordFits
    <3>4. QED
      BY <3>1, <3>2, <3>3 DEF WordInv, WordsKept, WordFits
  <2>2. CASE UNCHANGED <<part, wordVars>>
    BY <2>2 DEF WordInv, WordsKept, WordFits, wordVars
  <2>3. QED
    BY <2>1, <2>2 DEF Next, Transmit, Receive, Respond, Compute, addFakeSecondZoneInfo,
                      MonthPasses, vars
<1>3. WordInv => WordsKept
  BY DEF WordInv
<1>4. QED
  BY <1>1, <1>2, <1>3, PTL DEF Spec

-----------------------------------------------------------------------------
(* Time stamps and ntpdate's offset                                        *)
-----------------------------------------------------------------------------
\* What the answer to an exchange holds, and what ntpdate makes of it.
Answer(x) == [rx |-> Time(ServerRx(x)), tx |-> Time(ServerTx(x))]
Result(x) ==
  ntpDate(x.t, Time(ServerRx(x)), Time(ServerTx(x)), ClientRx(x), ClientRx(x) + x.lag)

NtpInv ==
  /\ exchange \subseteq Exchanges
  /\ \A x, y \in exchange : x = y
  /\ \A x \in exchange : (\A s \in stamps : s = Answer(x)) /\ (\A o \in offset : o = Result(x))

\* An exchange of which neither clock is before NTP's epoch.
LEMMA ExchangeFacts ==
  ASSUME NEW x \in Exchanges
  PROVE  /\ x.t \in Int /\ x.theta \in Int /\ x.d1 \in Nat /\ x.proc \in Nat /\ x.d2 \in Nat
         /\ x.lag \in Int /\ ServerRx(x) \in Int /\ ServerTx(x) \in Int
         /\ ServerRx(x) + Gap * TPS >= 0 /\ ServerRx(x) <= ServerTx(x)
<1>1. /\ x \in [t : Int, theta : Int, d1 : Nat, proc : Nat, d2 : Nat, lag : Int]
      /\ x.t + x.theta + Gap * TPS >= 0
  BY FormatsAssumption, Zenon
<1>2. /\ x.t \in Int /\ x.theta \in Int /\ x.d1 \in Nat /\ x.proc \in Nat /\ x.d2 \in Nat
      /\ x.lag \in Int
  BY <1>1
<1>3. Gap \in Nat /\ TPS \in Nat
  BY TimeAssumption
<1>4. PICK g \in Nat : g = Gap * TPS
  BY <1>3
<1>5. QED
  BY <1>1, <1>2, <1>4 DEF ServerRx, ServerTx

\* Time goes through the eras in order, from the first.
LEMMA ErasOrdered ==
  ASSUME NEW a \in Int, NEW c \in Int, a + Gap * TPS >= 0, a <= c, Era(c) = 0
  PROVE  Era(a) = 0
<1> DEFINE S == 2 ^ SecBits
           na == a + Gap * TPS
           nc == c + Gap * TPS
           sa == na \div TPS
           sc == nc \div TPS
           ea == sa \div S
           ec == sc \div S
<1>1. TPS \in Nat \ {0} /\ S \in Nat \ {0} /\ Gap \in Nat
  BY TimeAssumption
<1>2. na \in Int /\ nc \in Int /\ 0 <= na /\ na <= nc
  <2>1. PICK g \in Nat : g = Gap * TPS
    BY <1>1
  <2>2. QED
    BY <2>1
<1>3. Era(a) = ea /\ Era(c) = ec
  BY DEF Era
<1> HIDE DEF S, na, nc
<1>4. /\ sa \in Int /\ sc \in Int /\ TPS * sa <= na /\ na < TPS * sa + TPS
      /\ TPS * sc <= nc /\ nc < TPS * sc + TPS
  <2>1. /\ sa \in Int /\ na % TPS \in Nat /\ na % TPS < TPS /\ na = TPS * sa + (na % TPS)
        /\ sc \in Int /\ nc % TPS \in Nat /\ nc % TPS < TPS /\ nc = TPS * sc + (nc % TPS)
    BY <1>1, <1>2, Division, Zenon
  <2> HIDE DEF sa, sc
  <2>2. PICK r1 \in Nat, r2 \in Nat : r1 = na % TPS /\ r2 = nc % TPS
    BY <2>1
  <2>3. QED
    BY <1>1, <2>1, <2>2
<1> HIDE DEF sa, sc
<1>5. 0 <= sa /\ sa <= sc
  <2>1. TPS * 0 < TPS * (sa + 1) /\ TPS * sa < TPS * (sc + 1)
    BY <1>1, <1>2, <1>4
  <2>2. 0 < sa + 1 /\ sa < sc + 1
    BY <1>1, <1>4, <2>1, Products
  <2>3. QED
    BY <1>4, <2>2
<1>6. ec = 0
  BY <1>3
<1>7. sc < S
  <2>1. /\ ec \in Int /\ sc % S \in Nat /\ sc % S < S /\ sc = S * ec + (sc % S)
    BY <1>1, <1>4, Division, Zenon
  <2> HIDE DEF ec
  <2>2. S * ec = 0
    BY <1>1, <1>6
  <2>3. QED
    BY <1>1, <2>1, <2>2
<1>8. ea = 0
  <2>1. /\ ea \in Int /\ sa % S \in Nat /\ sa % S < S /\ sa = S * ea + (sa % S)
    BY <1>1, <1>4, Division, Zenon
  <2> HIDE DEF ea
  <2>2. S * ea < S * 1 /\ S * 0 < S * (ea + 1)
    BY <1>1, <1>4, <1>5, <1>7, <2>1
  <2>3. ea < 1 /\ 0 < ea + 1
    BY <1>1, <2>1, <2>2, Products
  <2>4. QED
    BY <2>1, <2>3
<1>9. QED
  BY <1>3, <1>8

\* What an exchange comes to.
LEMMA ExchangeExact ==
  ASSUME NEW x \in Exchanges
  PROVE  /\ StampsExact(x, Answer(x))
         /\ Era(ServerTx(x)) = 0 =>
              2 * Abs(Result(x) - x.theta + x.lag) <= Abs(x.d1 - x.d2) + 3
<1> DEFINE R == ServerRx(x)
           T == ServerTx(x)
           S == 2 ^ SecBits
<1>1. /\ x.t \in Int /\ x.theta \in Int /\ x.d1 \in Nat /\ x.proc \in Nat /\ x.d2 \in Nat
      /\ x.lag \in Int /\ R \in Int /\ T \in Int /\ R + Gap * TPS >= 0 /\ R <= T
  BY ExchangeFacts, Zenon
<1>2. /\ Unix(Time(R)) \in Int /\ R - Unix(Time(R)) - Era(R) * S * TPS \in {0, 1}
      /\ Unix(Time(T)) \in Int /\ T - Unix(Time(T)) - Era(T) * S * TPS \in {0, 1}
  BY <1>1, StampExact, Zenon
<1>3. StampsExact(x, Answer(x))
  BY <1>2, Zenon DEF StampsExact, Answer
<1>4. ASSUME Era(T) = 0
      PROVE  2 * Abs(Result(x) - x.theta + x.lag) <= Abs(x.d1 - x.d2) + 3
  <2>1. Era(R) = 0
    BY <1>1, <1>4, ErasOrdered
  <2>2. S \in Nat /\ TPS \in Nat
    BY TimeAssumption
  <2>3. 0 * S * TPS = 0
    BY <2>2
  <2>4. R - Unix(Time(R)) - 0 \in {0, 1} /\ T - Unix(Time(T)) - 0 \in {0, 1}
    BY <1>2, <1>4, <2>1, <2>3, Zenon
  <2> DEFINE rx == Time(R)
             tx == Time(T)
             c4 == ClientRx(x)
  <2>5. R = x.t + x.theta + x.d1 /\ T = R + x.proc /\ c4 = x.t + x.d1 + x.proc + x.d2
    BY DEF ServerRx, ServerTx, ClientRx
  <2>6. Result(x) = ntpDate(x.t, rx, tx, c4, c4 + x.lag)
    BY DEF Result
  <2> HIDE DEF R, T, rx, tx, c4
  <2>7. PICK e1 \in Nat, e2 \in Nat : e1 <= 1 /\ e2 <= 1 /\ Unix(rx) = R - e1 /\ Unix(tx) = T - e2
    <3>1. R - Unix(rx) \in {0, 1} /\ T - Unix(tx) \in {0, 1}
      BY <1>1, <1>2, <2>4 DEF rx, tx
    <3>2. Unix(rx) = R - (R - Unix(rx)) /\ Unix(tx) = T - (T - Unix(tx))
      BY <1>1, <1>2 DEF rx, tx
    <3>3. /\ R - Unix(rx) \in Nat /\ R - Unix(rx) <= 1
          /\ T - Unix(tx) \in Nat /\ T - Unix(tx) <= 1
      BY <3>1
    <3>4. QED
      BY <3>2, <3>3
  <2>8. /\ Unix(rx) = x.t + x.theta + x.d1 - e1
        /\ Unix(tx) = x.t + x.theta + x.d1 + x.proc - e2
    BY <1>1, <2>5, <2>7
  <2>9. c4 = x.t + x.d1 + x.proc + x.d2
    BY <2>5
  <2>10. 2 * Abs(ntpDate(x.t, rx, tx, c4, c4 + x.lag) - x.theta + x.lag) <= Abs(x.d1 - x.d2) + 3
    <3>1. Stamped(x.t, x.theta, x.d1, x.proc, x.d2, e1, e2, rx, tx, c4)
      BY <2>7, <2>8, <2>9 DEF Stamped
    <3>2. QED
      BY <1>1, <3>1, OffsetExact, Zenon
  <2>11. QED
    BY <2>6, <2>10
<1>5. QED
  BY <1>3, <1>4

\* ntpdate's offset is wrong by no more than half the asymmetry of the path,
\* the time lost after the answer and a tick and a half of rounding.
THEOREM OffsetsBounded == Spec => []OffsetBound
<1>1. Init => NtpInv
  <2> SUFFICES ASSUME Init PROVE NtpInv
    OBVIOUS
  <2>1. stamps = {} /\ offset = {} /\ exchange \in IF part = "ntp" THEN {{x} : x \in Exchanges} ELSE {{}}
    BY DEF Init
  <2>2. exchange \subseteq Exchanges /\ \A x, y \in exchange : x = y
    BY <2>1, SMTT(30)
  <2>3. QED
    BY <2>1, <2>2, SMTT(30) DEF NtpInv
<1>2. NtpInv /\ [Next]_vars => NtpInv'
  <2> SUFFICES ASSUME NtpInv, [Next]_vars PROVE NtpInv'
    OBVIOUS
  <2>0. \A x, y \in exchange : x = y
    BY DEF NtpInv
  <2>1. CASE Respond
    <3>1. PICK x \in exchange : stamps' = {Answer(x)}
      BY <2>1 DEF Respond, Answer
    <3>2. exchange' = exchange /\ offset' = offset
      BY <2>1 DEF Respond
    <3>3. \A y \in exchange : \A s \in stamps' : s = Answer(y)
      BY <2>0, <3>1
    <3>4. QED
      BY <3>2, <3>3 DEF NtpInv
  <2>2. CASE Compute
    <3>1. PICK x \in exchange, s \in stamps :
            offset' = {ntpDate(x.t, s.rx, s.tx, ClientRx(x), ClientRx(x) + x.lag)}
      BY <2>2 DEF Compute
    <3>2. exchange' = exchange /\ stamps' = stamps
      BY <2>2 DEF Compute
    <3>3. s = Answer(x)
      BY <3>1 DEF NtpInv
    <3>4. s.rx = Time(ServerRx(x)) /\ s.tx = Time(ServerTx(x))
      BY <3>3, SMTT(30) DEF Answer
    <3>5. offset' = {Result(x)}
      BY <3>1, <3>4 DEF Result
    <3>6. \A y \in exchange : \A o \in offset' : o = Result(y)
      BY <2>0, <3>5
    <3>7. QED
      BY <3>2, <3>6 DEF NtpInv
  <2>3. CASE UNCHANGED ntpVars
    BY <2>3 DEF NtpInv, ntpVars
  <2>4. QED
    BY <2>1, <2>2, <2>3 DEF Next, Transmit, Receive, Reencode, addFakeSecondZoneInfo,
                            MonthPasses, vars
<1>3. NtpInv => OffsetBound
  <2> SUFFICES ASSUME NtpInv, NEW x \in exchange
               PROVE  /\ \A s \in stamps : StampsExact(x, s)
                      /\ \A o \in offset : Era(ServerTx(x)) = 0 =>
                           2 * Abs(o - x.theta + x.lag) <= Abs(x.d1 - x.d2) + 3
    BY DEF OffsetBound
  <2>1. x \in Exchanges /\ (\A s \in stamps : s = Answer(x)) /\ (\A o \in offset : o = Result(x))
    BY SMTT(30) DEF NtpInv
  <2>2. QED
    BY <2>1, ExchangeExact, Zenon
<1>4. QED
  BY <1>1, <1>2, <1>3, PTL DEF Spec

-----------------------------------------------------------------------------
(* The leap second file                                                    *)
-----------------------------------------------------------------------------
\* The file shows the leap seconds that were asked for; one of the first
\* version has only those it had in the beginning.
ZoneInv ==
  part = "zone" =>
    /\ asked \in Seq(Nat) /\ month \in Nat
    /\ \E v \in {0, Version2} :
         /\ file = Write(v, Known(asked))
         /\ v = 0 => \A i \in DOMAIN asked : asked[i] + i - 1 < Width32

\* What Known makes of times.
LEMMA KnownFacts ==
  ASSUME NEW times \in Seq(Nat)
  PROVE  /\ Known(times) \in LeapSeconds /\ Len(Known(times)) = Len(times)
         /\ DOMAIN Known(times) = DOMAIN times /\ DOMAIN times = 1 .. Len(times)
         /\ Len(times) \in Nat
         /\ \A i \in DOMAIN times : /\ times[i] \in Nat
                                    /\ Known(times)[i].Tleap = times[i] + i - 1
                                    /\ Known(times)[i].Nleap = i
<1> DEFINE n == Len(times)
           R == [Tleap : Int, Nleap : Int]
           k == Known(times)
<1>1. n \in Nat /\ DOMAIN times = 1 .. n /\ \A i \in 1 .. n : times[i] \in Nat
  BY SeqFacts, Zenon
<1>2. k = [i \in 1 .. n |-> [Tleap |-> times[i] + i - 1, Nleap |-> i]]
  BY <1>1, Zenon DEF Known
<1>3. \A i \in 1 .. n : [Tleap |-> times[i] + i - 1, Nleap |-> i] \in R
  BY <1>1
<1> HIDE DEF R, k, n
<1>4. k \in [1 .. n -> R]
  BY <1>2, <1>3
<1>5. k \in Seq(R) /\ Len(k) = n
  BY <1>1, <1>4, FunSeq, Zenon
<1>6. DOMAIN k = 1 .. n
  BY <1>4
<1>7. \A i \in 1 .. n : k[i].Tleap = times[i] + i - 1 /\ k[i].Nleap = i
  BY <1>2
<1>8. QED
  BY <1>1, <1>5, <1>6, <1>7, Zenon DEF LeapSeconds, R, k, n

\* What Append makes of a sequence.
LEMMA AppendFacts ==
  ASSUME NEW S, NEW s \in Seq(S), NEW e \in S
  PROVE  Append(s, e) =
           [i \in 1 .. Len(s) + 1 |-> IF i = Len(s) + 1 THEN e ELSE s[i]]
<1> DEFINE a == Append(s, e)
           n == Len(s)
<1>1. n \in Nat /\ a \in Seq(S) /\ Len(a) = n + 1
  OBVIOUS
<1>2. \A i \in 1 .. n + 1 : a[i] = IF i = n + 1 THEN e ELSE s[i]
  OBVIOUS
<1> HIDE DEF a, n
<1>3. a = [i \in 1 .. n + 1 |-> a[i]]
  BY <1>1
<1>4. QED
  BY <1>2, <1>3, Zenon DEF a, n

\* The entry that addFakeSecondZoneInfo appends shows the time asked for.
LEMMA KnownGrows ==
  ASSUME NEW times \in Seq(Nat), NEW t \in Nat
  PROVE  /\ Append(times, t) \in Seq(Nat)
         /\ Append(Known(times), FakeLeap(Known(times), t)) = Known(Append(times, t))
<1> DEFINE n == Len(times)
           k == Known(times)
           l == FakeLeap(k, t)
           a == Append(times, t)
           Leap(i) == [Tleap |-> a[i] + i - 1, Nleap |-> i]
<1>1. a \in Seq(Nat) /\ Len(a) = n + 1 /\ n \in Nat
  OBVIOUS
<1>2. \A i \in 1 .. n : a[i] = times[i]
  OBVIOUS
<1>3. a[n + 1] = t
  OBVIOUS
<1>4. DOMAIN times = 1 .. n /\ Len(k) = n
  BY KnownFacts, Zenon
<1>5. DOMAIN a = 1 .. n + 1
  BY <1>1
<1>6. k = [i \in 1 .. n |-> [Tleap |-> times[i] + i - 1, Nleap |-> i]]
  BY <1>4, Zenon DEF Known
<1>7. l = [Tleap |-> t + n, Nleap |-> n + 1]
  BY <1>4 DEF FakeLeap
<1> HIDE DEF a, k, l, n
<1>8. k \in LeapSeconds /\ l \in [Tleap : Int, Nleap : Int]
  <2>1. k \in LeapSeconds
    BY KnownFacts, Zenon DEF k
  <2>2. QED
    BY <1>1, <1>7, <2>1
<1>9. Append(k, l) = [i \in 1 .. n + 1 |-> IF i = n + 1 THEN l ELSE k[i]]
  <2>1. k \in Seq([Tleap : Int, Nleap : Int])
    BY <1>8, Zenon DEF LeapSeconds
  <2>2. Append(k, l) = [i \in 1 .. Len(k) + 1 |-> IF i = Len(k) + 1 THEN l ELSE k[i]]
    <3> DEFINE S == [Tleap : Int, Nleap : Int]
    <3>1. k \in Seq(S) /\ l \in S
      BY <1>8, <2>1
    <3> HIDE DEF S
    <3>2. QED
      BY <3>1, AppendFacts
  <2>3. Len(k) = n
    BY <1>4
  <2>4. QED
    BY <2>2, <2>3, Zenon
<1>10. \A i \in 1 .. n + 1 : (IF i = n + 1 THEN l ELSE k[i]) = Leap(i)
  <2> TAKE i \in 1 .. n + 1
  <2>1. CASE i = n + 1
    <3>1. t + (n + 1) - 1 = t + n
      BY <1>1
    <3>2. QED
      BY <1>3, <1>7, <2>1, <3>1
  <2>2. CASE i # n + 1
    <3>1. i \in 1 .. n
      BY <1>1, <2>2
    <3>2. QED
      BY <1>2, <1>6, <2>2, <3>1
  <2>3. QED
    BY <2>1, <2>2, SMTT(30)
<1>11. Known(a) = [i \in 1 .. n + 1 |-> Leap(i)]
  BY <1>5, Zenon DEF Known
<1>12. QED
  BY <1>1, <1>9, <1>10, <1>11 DEF a, k, l

\* parseVx reads back from the file the leap seconds that were asked for.
LEMMA ZoneRead ==
  ASSUME ZoneInv, part = "zone"
  PROVE  asked \in Seq(Nat) /\ parseVx(file) = [ok |-> TRUE, ls |-> Known(asked)]
<1>1. PICK v \in {0, Version2} : /\ file = Write(v, Known(asked))
                                 /\ v = 0 => \A i \in DOMAIN asked : asked[i] + i - 1 < Width32
  BY DEF ZoneInv
<1>2. asked \in Seq(Nat)
  BY DEF ZoneInv
<1>3. Width32 \in Nat \ {0} /\ NameLen \in Nat
  BY FormatsAssumption
<1> DEFINE k == Known(asked)
<1>4. /\ k \in LeapSeconds /\ DOMAIN k = DOMAIN asked /\ DOMAIN asked = 1 .. Len(asked)
      /\ Len(asked) \in Nat
      /\ \A i \in DOMAIN asked : asked[i] \in Nat /\ k[i].Tleap = asked[i] + i - 1
  BY <1>2, KnownFacts, Zenon
<1> HIDE DEF k
<1>5. v = 0 => \A i \in DOMAIN k : k[i].Tleap >= 0 /\ k[i].Tleap < Width32
  BY <1>1, <1>4
<1>6. parseVx(Write(v, k)) = [ok |-> TRUE, ls |-> k]
  BY <1>3, <1>4, <1>5, Parsed, Zenon
<1>7. QED
  BY <1>1, <1>2, <1>6 DEF k

\* A leap second file shows every leap second at the time it was asked for.
THEOREM LeapSecondsShown == Spec => []LeapsShown
<1>1. Init => ZoneInv
  <2> SUFFICES ASSUME Init, part = "zone" PROVE ZoneInv
    BY DEF ZoneInv
  <2>1. asked \in History /\ file \in {Write(v, Known(asked)) : v \in {0, Version2}} /\ month = 1
    BY DEF Init
  <2>2. asked \in Seq(Nat) /\ \A i \in DOMAIN asked : asked[i] + i - 1 < Width32
    BY <2>1, FormatsAssumption, Zenon
  <2>3. month \in Nat
    BY <2>1, SMTT(30)
  <2>4. QED
    BY <2>1, <2>2, <2>3, Zenon DEF ZoneInv
<1>2. ZoneInv /\ [Next]_vars => ZoneInv'
  <2> SUFFICES ASSUME ZoneInv, [Next]_vars PROVE ZoneInv'
    OBVIOUS
  <2>1. ASSUME NEW m \in 0 .. 2, addFakeSecondZoneInfo(m)
        PROVE  ZoneInv'
    <3> DEFINE t == MonthStart(month + m)
    <3>1. part = "zone" /\ month \in Nat /\ month' = month
      BY <2>1 DEF addFakeSecondZoneInfo, ZoneInv
    <3>2. t \in Nat
      BY <3>1 DEF MonthStart
    <3>3. asked \in Seq(Nat) /\ parseVx(file) = [ok |-> TRUE, ls |-> Known(asked)]
      BY <3>1, ZoneRead
    <3>4. parseVx(file).ls = Known(asked)
      BY <3>3
    <3>5. /\ file' = Write(Version2, Append(parseVx(file).ls, FakeLeap(parseVx(file).ls, t)))
          /\ asked' = Append(asked, t)
      BY <2>1, Zenon DEF addFakeSecondZoneInfo
    <3> HIDE DEF t
    <3>6. /\ Append(asked, t) \in Seq(Nat)
          /\ Append(Known(asked), FakeLeap(Known(asked), t)) = Known(Append(asked, t))
      BY <3>2, <3>3, KnownGrows
    <3>7. file' = Write(Version2, Known(asked')) /\ asked' \in Seq(Nat) /\ month' \in Nat
      BY <3>1, <3>4, <3>5, <3>6
    <3>8. Version2 \in {0, Version2} /\ Version2 # 0
      BY DEF Version2
    <3>9. \E v \in {0, Version2} :
            /\ file' = Write(v, Known(asked'))
            /\ v = 0 => \A i \in DOMAIN asked' : asked'[i] + i - 1 < Width32
      BY <3>7, <3>8, Zenon
    <3>10. QED
      BY <3>7, <3>9, Zenon DEF ZoneInv
  <2>2. CASE MonthPasses
    BY <2>2 DEF MonthPasses, ZoneInv
  <2>3. CASE UNCHANGED <<part, zoneVars>>
    BY <2>3 DEF ZoneInv, zoneVars
  <2>4. QED
    BY <2>1, <2>2, <2>3 DEF Next, Transmit, Receive, Respond, Compute, Reencode, vars
<1>3. ZoneInv => LeapsShown
  <2> DEFINE ls == parseVx(file).ls
  <2> SUFFICES ASSUME ZoneInv, part = "zone"
               PROVE  /\ parseVx(file).ok
                      /\ [i \in DOMAIN ls |-> LeapTime(ls[i])] = asked
                      /\ (\A i, j \in DOMAIN asked : i < j => asked[i] <= asked[j]) =>
                           \A i, j \in DOMAIN ls : i < j => ls[i].Tleap < ls[j].Tleap
    BY Zenon DEF LeapsShown
  <2>1. asked \in Seq(Nat) /\ parseVx(file) = [ok |-> TRUE, ls |-> Known(asked)]
    BY ZoneRead
  <2>2. parseVx(file).ok
    BY <2>1
  <2>3. ls = Known(asked)
    BY <2>1, SMTT(30)
  <2> HIDE DEF ls
  <2>4. /\ DOMAIN ls = DOMAIN asked /\ DOMAIN asked = 1 .. Len(asked) /\ Len(asked) \in Nat
        /\ \A i \in DOMAIN asked : /\ asked[i] \in Nat /\ ls[i].Tleap = asked[i] + i - 1
                                   /\ ls[i].Nleap = i
    BY <2>1, <2>3, KnownFacts
  <2>5. [i \in DOMAIN ls |-> LeapTime(ls[i])] = asked
    <3>1. \A i \in DOMAIN asked : LeapTime(ls[i]) = asked[i]
      BY <2>4 DEF LeapTime
    <3>2. asked = [i \in DOMAIN asked |-> asked[i]]
      BY <2>1
    <3>3. QED
      BY <2>4, <3>1, <3>2, Zenon
  <2>6. ASSUME \A i, j \in DOMAIN asked : i < j => asked[i] <= asked[j],
               NEW i \in DOMAIN ls, NEW j \in DOMAIN ls, i < j
        PROVE  ls[i].Tleap < ls[j].Tleap
    <3>1. i \in Nat /\ j \in Nat /\ asked[i] \in Nat /\ asked[j] \in Nat /\ asked[i] <= asked[j]
      BY <2>4, <2>6
    <3>2. ls[i].Tleap = asked[i] + i - 1 /\ ls[j].Tleap = asked[j] + j - 1
      BY <2>4, SMTT(30)
    <3>3. QED
      BY <2>6, <3>1, <3>2
  <2>7. QED
    BY <2>2, <2>5, <2>6
<1>4. QED
  BY <1>1, <1>2, <1>3, PTL DEF Spec

=============================================================================
