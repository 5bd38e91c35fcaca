--------------------------- MODULE PacketProofs ----------------------------
(***************************************************************************)
(* Proofs about the fourth format of WireFormats, for every value of the   *)
(* constants: each PTP packet is read as it was written, whatever the      *)
(* buffers held before.                                                    *)
(***************************************************************************)
EXTENDS WireFormats, WellFoundedInduction, TLAPS

-----------------------------------------------------------------------------
(* Numbers, recursive functions and sequences                              *)
-----------------------------------------------------------------------------
\* Every set of numbers that is not empty has a least one.
LEMMA Least ==
  ASSUME NEW T \in SUBSET Nat, T # {}
  PROVE  \E x \in T : \A y \in T : x <= y
<1> DEFINE R == OpToRel(<, Nat)
<1>1. IsWellFoundedOn(R, Nat)
  BY NatLessThanWellFounded, Zenon
<1>2. R = {ss \in Nat \X Nat : ss[1] < ss[2]}
  BY DEF R, OpToRel
<1> HIDE DEF R
<1>3. \A x, y \in Nat : <<y, x>> \in R <=> y < x
  BY <1>2
<1>4. PICK x \in T : \A y \in T : ~ (<<y, x>> \in R)
  BY <1>1, WFMin, Zenon
<1>5. \A y \in T : ~ (y < x) /\ x \in Nat /\ y \in Nat
  BY <1>3, <1>4, Zenon
<1>6. QED
  BY <1>5

\* Induction: a set that has 0, and with each number the next one, has them all.
LEMMA Induction ==
  ASSUME NEW T, 0 \in T, \A n \in Nat : n \in T => n + 1 \in T
  PROVE  Nat \subseteq T
<1> DEFINE U == Nat \ T
<1>1. SUFFICES ASSUME U # {} PROVE FALSE
  BY Zenon
<1>2. U \in SUBSET Nat
  OBVIOUS
<1> HIDE DEF U
<1>3. PICK x \in U : \A y \in U : x <= y
  BY <1>1, <1>2, Least, Zenon
<1>4. x \in Nat /\ x \notin T /\ x # 0
  BY DEF U
<1>5. x - 1 \in Nat /\ (x - 1) + 1 = x
  BY <1>4
<1>6. x - 1 \notin T
  BY <1>4, <1>5, Zenon
<1>7. x - 1 \in U
  BY <1>5, <1>6, Zenon DEF U
<1>8. x <= x - 1
  BY <1>3, <1>7, Zenon
<1>9. QED
  BY <1>4, <1>8

(* f begins with b, and g is the way from each of its values to the next.    *)
Recursive(f, S, b, g) ==
  f \in [Nat -> S] /\ f[0] = b /\ \A n \in Nat : f[n + 1] = g[<<n, f[n]>>]

\* Recursion: a first value and a way from each value to the next one make a
\* function.
LEMMA Recursion ==
  ASSUME NEW S, NEW b \in S, NEW g \in [Nat \X S -> S]
  PROVE  \E f : Recursive(f, S, b, g)
<1> DEFINE Good(k, a) == /\ a \in [0 .. k -> S] /\ a[0] = b
                         /\ \A i \in 0 .. (k - 1) : a[i + 1] = g[<<i, a[i]>>]
           T == {k \in Nat : \E a : Good(k, a)}
<1>1. 0 \in T
  <2>1. Good(0, [i \in 0 .. 0 |-> b])
    OBVIOUS
  <2>2. QED
    BY <2>1, Zenon
<1>2. ASSUME NEW k \in Nat, k \in T
      PROVE  k + 1 \in T
  <2>1. PICK a : Good(k, a)
    BY <1>2
  <2> DEFINE c == [i \in 0 .. k + 1 |-> IF i = k + 1 THEN g[<<k, a[k]>>] ELSE a[i]]
  <2>2. a[k] \in S /\ g[<<k, a[k]>>] \in S
    BY <2>1
  <2>3. c \in [0 .. k + 1 -> S]
    BY <2>1, <2>2
  <2>4. c[0] = b
    BY <2>1
  <2>5. ASSUME NEW i \in 0 .. (k + 1) - 1
        PROVE  c[i + 1] = g[<<i, c[i]>>]
    <3>1. CASE i = k
      <4>1. c[k + 1] = g[<<k, a[k]>>] /\ c[k] = a[k]
        OBVIOUS
      <4>2. QED
        BY <3>1, <4>1, Zenon
    <3>2. CASE i # k
      <4>1. i \in 0 .. k - 1 /\ i + 1 \in 0 .. k + 1 /\ i \in 0 .. k + 1 /\ i + 1 # k + 1 /\ i # k + 1
        BY <3>2
      <4>2. c[i + 1] = a[i + 1] /\ c[i] = a[i] /\ a[i + 1] = g[<<i, a[i]>>]
        BY <2>1, <4>1
      <4>3. QED
        BY <4>2, Zenon
    <3>3. QED
      BY <3>1, <3>2
  <2> HIDE DEF c
  <2>6. Good(k + 1, c)
    BY <2>3, <2>4, <2>5
  <2>7. QED
    BY <2>6
<1>3. \A k \in Nat : \E a : Good(k, a)
  <2> HIDE DEF Good
  <2>1. Nat \subseteq T
    <3> HIDE DEF T
    <3>1. QED
      BY <1>1, <1>2, Induction
  <2>2. QED
    BY <2>1
<1> DEFINE A(k) == CHOOSE a : Good(k, a)
<1>4. \A k \in Nat : Good(k, A(k))
  <2> HIDE DEF Good
  <2>1. QED
    BY <1>3
<1> HIDE DEF A
<1>5. \A k \in Nat : A(k)[k] = A(k + 1)[k]
  <2> SUFFICES ASSUME NEW k \in Nat PROVE A(k)[k] = A(k + 1)[k]
    OBVIOUS
  <2> DEFINE V == {i \in Nat : i <= k => A(k)[i] = A(k + 1)[i]}
  <2>1. Good(k, A(k)) /\ Good(k + 1, A(k + 1))
    BY <1>4
  <2>2. 0 \in V
    BY <2>1
  <2>3. ASSUME NEW i \in Nat, i \in V
        PROVE  i + 1 \in V
    <3>1. CASE i + 1 <= k
      <4>1. A(k)[i + 1] = g[<<i, A(k)[i]>>] /\ A(k + 1)[i + 1] = g[<<i, A(k + 1)[i]>>]
        BY <2>1, <3>1
      <4>2. A(k)[i] = A(k + 1)[i]
        BY <2>3, <3>1
      <4>3. QED
        BY <4>1, <4>2
    <3>2. CASE ~(i + 1 <= k)
      BY <3>2
    <3>3. QED
      BY <3>1, <3>2
  <2>4. Nat \subseteq V
    <3> HIDE DEF V
    <3>1. QED
      BY <2>2, <2>3, Induction
  <2>5. QED
    BY <2>4
<1> DEFINE f == [n \in Nat |-> A(n)[n]]
<1>6. f \in [Nat -> S] /\ f[0] = b
  BY <1>4
<1>7. ASSUME NEW n \in Nat
      PROVE  f[n + 1] = g[<<n, f[n]>>]
  <2>1. A(n + 1)[n + 1] = g[<<n, A(n + 1)[n]>>]
    BY <1>4
  <2>2. f[n + 1] = A(n + 1)[n + 1] /\ f[n] = A(n)[n]
    OBVIOUS
  <2>3. QED
    BY <1>5, <2>1, <2>2, Zenon
<1> HIDE DEF f
<1>8. Recursive(f, S, b, g)
  BY <1>6, <1>7 DEF Recursive
<1>9. QED
  BY <1>8, Zenon

\* What is known of a sequence.
LEMMA SeqFacts ==
  ASSUME NEW S, NEW s \in Seq(S)
  PROVE  Len(s) \in Nat /\ DOMAIN s = 1 .. Len(s) /\ \A i \in 1 .. Len(s) : s[i] \in S
  OBVIOUS

\* And what makes one.
LEMMA FunSeq ==
  ASSUME NEW S, NEW n \in Nat, NEW s \in [1 .. n -> S]
  PROVE  s \in Seq(S) /\ Len(s) = n
  OBVIOUS

\* Sums begin with 0 and grow by one number after the other.
Sums(s) ==
  /\ SumTo(s, 0) = 0
  /\ \A i \in 0 .. Len(s) : SumTo(s, i) \in Nat
  /\ \A i \in 1 .. Len(s) : SumTo(s, i) = SumTo(s, i - 1) + s[i]

\* What SumTo computes.
LEMMA SumFacts ==
  ASSUME NEW s \in Seq(Nat)
  PROVE  Sums(s)
<1> DEFINE n == Len(s)
           Eqn(f) == f = [i \in 0 .. n |-> IF i = 0 THEN 0 ELSE f[i - 1] + s[i]]
           sum == CHOOSE f : Eqn(f)
           g == [x \in Nat \X Nat |-> x[2] + (IF x[1] + 1 \in 1 .. n THEN s[x[1] + 1] ELSE 0)]
<1>0. n \in Nat /\ \A i \in 1 .. n : s[i] \in Nat
  OBVIOUS
<1>1. g \in [Nat \X Nat -> Nat]
  BY <1>0
<1>1a. \A k, m \in Nat : g[<<k, m>>] = m + (IF k + 1 \in 1 .. n THEN s[k + 1] ELSE 0)
  BY <1>0, SMTT(30)
<1>2. \E f : Recursive(f, Nat, 0, g)
  <2> HIDE DEF g
  <2>1. 0 \in Nat
    OBVIOUS
  <2>2. QED
    BY <1>1, <2>1, Recursion, Zenon
<1> HIDE DEF g
<1>3. PICK h : Recursive(h, Nat, 0, g)
  BY <1>2
<1>4. h \in [Nat -> Nat] /\ h[0] = 0 /\ \A k \in Nat : h[k + 1] = g[<<k, h[k]>>]
  BY <1>3 DEF Recursive
<1>5. \A i \in 1 .. n : h[i] = h[i - 1] + s[i]
  <2> TAKE i \in 1 .. n
  <2>0. i - 1 \in Nat /\ (i - 1) + 1 = i
    BY <1>0
  <2>1. i - 1 \in Nat /\ (i - 1) + 1 = i /\ h[i - 1] \in Nat
    BY <1>4, <2>0, Zenon
  <2>2. h[i] = g[<<i - 1, h[i - 1]>>]
    BY <1>4, <2>1
  <2>3. QED
    BY <1>1a, <2>1, <2>2
<1> DEFINE w == [i \in 0 .. n |-> h[i]]
<1>6. Eqn(w)
  <2>1. \A i \in 0 .. n : w[i] = IF i = 0 THEN 0 ELSE w[i - 1] + s[i]
    <3> TAKE i \in 0 .. n
    <3>1. CASE i = 0
      BY <1>0, <1>4, <3>1
    <3>2. CASE i # 0
      <4>1. i \in 1 .. n /\ i - 1 \in 0 .. n
        BY <1>0, <3>2
      <4>2. QED
        BY <1>5, <3>2, <4>1
    <3>3. QED
      BY <3>1, <3>2
  <2>2. w = [i \in 0 .. n |-> w[i]]
    BY Zenon
  <2>3. QED
    BY <2>1, <2>2
<1>7. Eqn(sum)
  <2> HIDE DEF Eqn
  <2>1. QED
    BY <1>6, Zenon
<1>8. \A i : SumTo(s, i) = sum[i]
  BY Zenon DEF SumTo
<1> HIDE DEF sum
<1>9. sum[0] = 0 /\ \A i \in 1 .. n : sum[i] = sum[i - 1] + s[i]
  BY <1>0, <1>7, SMTT(30)
<1>10. \A i \in 0 .. n : sum[i] \in Nat
  <2> DEFINE T == {i \in Nat : i <= n => sum[i] \in Nat}
  <2>1. 0 \in T
    BY <1>9
  <2>2. ASSUME NEW i \in Nat, i \in T
        PROVE  i + 1 \in T
    <3>1. CASE i + 1 <= n
      <4>1. sum[i + 1] = sum[i] + s[i + 1] /\ s[i + 1] \in Nat /\ sum[i] \in Nat
        <5>1. i + 1 \in 1 .. n /\ (i + 1) - 1 = i /\ i <= n
          BY <1>0, <3>1
        <5>2. QED
          BY <1>0, <1>9, <2>2, <5>1
      <4>2. QED
        BY <4>1
    <3>2. QED
      BY <3>1
  <2>3. Nat \subseteq T
    <3> HIDE DEF T
    <3>1. QED
      BY <2>1, <2>2, Induction, Zenon
  <2>4. QED
    BY <1>0, <2>3
<1>11. QED
  BY <1>8, <1>9, <1>10, Zenon DEF Sums

-----------------------------------------------------------------------------
(* The layout of a packet                                                  *)
-----------------------------------------------------------------------------
\* The layout that binary.Read gives the header: what binary.Size counts is
\* what headerMarshalBinaryTo writes.
LEMMA HeaderSized == StructSize(HeaderStruct) = headerSize
<1> DEFINE s == Widths(HeaderStruct)
<1>1. s = <<1, 1, 2, 1, 1, 2, 8, 4, 8, 2, 2, 1, 1>> /\ Len(HeaderStruct) = 13
  BY DEF HeaderStruct, Widths
<1>2. s \in Seq(Nat) /\ Len(s) = 13
  BY <1>1
<1>3. Sums(s)
  BY <1>2, SumFacts, Zenon
<1>4. SumTo(s, 0) = 0 /\ \A i \in 1 .. 13 : SumTo(s, i) = SumTo(s, i - 1) + s[i]
  BY <1>2, <1>3, Zenon DEF Sums
<1>5. SumTo(s, 4) = 5
  BY <1>1, <1>4
<1>6. SumTo(s, 8) = 20
  BY <1>1, <1>4, <1>5
<1>7. SumTo(s, 13) = 34
  BY <1>1, <1>4, <1>6
<1>8. QED
  BY <1>1, <1>7 DEF StructSize, headerSize

\* The rows of a header and a body.
FullRows(type) ==
  HeaderRows \cup {<<r[1], headerSize + r[2], r[3]>> : r \in BodyRows(type)}

\* The layout that binary.Read gives an Announce is the one it was written by.
LEMMA AnnounceRead ==
  /\ StructSize(HeaderStruct \o AnnounceStruct) = BodyEnd("Announce")
  /\ StructRows(HeaderStruct \o AnnounceStruct) = FullRows("Announce")
<1> DEFINE st == HeaderStruct \o AnnounceStruct
           s == Widths(st)
           Row(i) == <<st[i][1], SumTo(s, i - 1), st[i][2]>>
<1>1. Len(st) = 25 /\ DOMAIN st = 1 .. 25
  BY DEF HeaderStruct, AnnounceStruct
<1>2. /\ st[1] = <<"SdoIDAndMsgType", 1>> /\ st[2] = <<"Version", 1>>
      /\ st[3] = <<"MessageLength", 2>> /\ st[4] = <<"DomainNumber", 1>>
      /\ st[5] = <<"MinorSdoID", 1>> /\ st[6] = <<"FlagField", 2>>
      /\ st[7] = <<"CorrectionField", 8>> /\ st[8] = <<"MessageTypeSpecific", 4>>
      /\ st[9] = <<"SourceClock", 8>> /\ st[10] = <<"SourcePort", 2>>
      /\ st[11] = <<"SequenceID", 2>> /\ st[12] = <<"ControlField", 1>>
      /\ st[13] = <<"LogMessageInterval", 1>> /\ st[14] = <<"Seconds", 6>>
      /\ st[15] = <<"Nanoseconds", 4>> /\ st[16] = <<"CurrentUTCOffset", 2>>
      /\ st[17] = <<"Reserved", 1>> /\ st[18] = <<"GrandmasterPriority1", 1>>
      /\ st[19] = <<"ClockClass", 1>> /\ st[20] = <<"ClockAccuracy", 1>>
      /\ st[21] = <<"OffsetScaledLogVariance", 2>>
      /\ st[22] = <<"GrandmasterPriority2", 1>>
      /\ st[23] = <<"GrandmasterIdentity", 8>> /\ st[24] = <<"StepsRemoved", 2>>
      /\ st[25] = <<"TimeSource", 1>>
  BY DEF HeaderStruct, AnnounceStruct
<1> HIDE DEF st
<1>3. /\ s[1] = 1 /\ s[2] = 1 /\ s[3] = 2 /\ s[4] = 1 /\ s[5] = 1 /\ s[6] = 2
      /\ s[7] = 8 /\ s[8] = 4 /\ s[9] = 8 /\ s[10] = 2 /\ s[11] = 2 /\ s[12] = 1
      /\ s[13] = 1 /\ s[14] = 6 /\ s[15] = 4 /\ s[16] = 2 /\ s[17] = 1 /\ s[18] = 1
      /\ s[19] = 1 /\ s[20] = 1 /\ s[21] = 2 /\ s[22] = 1 /\ s[23] = 8 /\ s[24] = 2
      /\ s[25] = 1
  BY <1>1, <1>2 DEF Widths
<1>4. s \in Seq(Nat) /\ Len(s) = 25
  <2>1. s = [i \in 1 .. 25 |-> s[i]]
    BY <1>1, Zenon DEF Widths
  <2>2. \A i \in 1 .. 25 : s[i] \in Nat
    BY <1>3
  <2> HIDE DEF s
  <2>3. s \in [1 .. 25 -> Nat]
    BY <2>1, <2>2
  <2>4. 25 \in Nat
    OBVIOUS
  <2>5. QED
    BY <2>3, <2>4, FunSeq, Zenon
<1> HIDE DEF s
<1>5. SumTo(s, 0) = 0 /\ \A i \in 1 .. 25 : SumTo(s, i) = SumTo(s, i - 1) + s[i]
  <2>1. Sums(s)
    BY <1>4, SumFacts, Zenon
  <2>2. QED
    BY <1>4, <2>1, Zenon DEF Sums
<1>6. /\ SumTo(s, 1) = 1 /\ SumTo(s, 2) = 2 /\ SumTo(s, 3) = 4 /\ SumTo(s, 4) = 5 /\ SumTo(s, 5) = 6
  BY <1>3, <1>5
<1>7. /\ SumTo(s, 6) = 8 /\ SumTo(s, 7) = 16 /\ SumTo(s, 8) = 20 /\ SumTo(s, 9) = 28 /\ SumTo(s, 10) = 30
  BY <1>3, <1>5, <1>6
<1>8. /\ SumTo(s, 11) = 32 /\ SumTo(s, 12) = 33 /\ SumTo(s, 13) = 34 /\ SumTo(s, 14) = 40 /\ SumTo(s, 15) = 44
  BY <1>3, <1>5, <1>7
<1>9. /\ SumTo(s, 16) = 46 /\ SumTo(s, 17) = 47 /\ SumTo(s, 18) = 48 /\ SumTo(s, 19) = 49 /\ SumTo(s, 20) = 50
  BY <1>3, <1>5, <1>8
<1>10. /\ SumTo(s, 21) = 52 /\ SumTo(s, 22) = 53 /\ SumTo(s, 23) = 61 /\ SumTo(s, 24) = 63 /\ SumTo(s, 25) = 64
  BY <1>3, <1>5, <1>9
<1>11. /\ Row(1) = <<"SdoIDAndMsgType", 0, 1>> /\ Row(2) = <<"Version", 1, 1>>
       /\ Row(3) = <<"MessageLength", 2, 2>> /\ Row(4) = <<"DomainNumber", 4, 1>>
       /\ Row(5) = <<"MinorSdoID", 5, 1>> /\ Row(6) = <<"FlagField", 6, 2>>
       /\ Row(7) = <<"CorrectionField", 8, 8>>
       /\ Row(8) = <<"MessageTypeSpecific", 16, 4>>
       /\ Row(9) = <<"SourceClock", 20, 8>> /\ Row(10) = <<"SourcePort", 28, 2>>
       /\ Row(11) = <<"SequenceID", 30, 2>> /\ Row(12) = <<"ControlField", 32, 1>>
       /\ Row(13) = <<"LogMessageInterval", 33, 1>> /\ Row(14) = <<"Seconds", 34, 6>>
       /\ Row(15) = <<"Nanoseconds", 40, 4>> /\ Row(16) = <<"CurrentUTCOffset", 44, 2>>
       /\ Row(17) = <<"Reserved", 46, 1>>
       /\ Row(18) = <<"GrandmasterPriority1", 47, 1>>
       /\ Row(19) = <<"ClockClass", 48, 1>> /\ Row(20) = <<"ClockAccuracy", 49, 1>>
       /\ Row(21) = <<"OffsetScaledLogVariance", 50, 2>>
       /\ Row(22) = <<"GrandmasterPriority2", 52, 1>>
       /\ Row(23) = <<"GrandmasterIdentity", 53, 8>>
       /\ Row(24) = <<"StepsRemoved", 61, 2>> /\ Row(25) = <<"TimeSource", 63, 1>>
  <2>1. /\ Row(1) = <<"SdoIDAndMsgType", 0, 1>>
        /\ Row(2) = <<"Version", 1, 1>>
        /\ Row(3) = <<"MessageLength", 2, 2>>
        /\ Row(4) = <<"DomainNumber", 4, 1>>
        /\ Row(5) = <<"MinorSdoID", 5, 1>>
    BY <1>2, <1>5, <1>6
  <2>2. /\ Row(6) = <<"FlagField", 6, 2>>
        /\ Row(7) = <<"CorrectionField", 8, 8>>
        /\ Row(8) = <<"MessageTypeSpecific", 16, 4>>
        /\ Row(9) = <<"SourceClock", 20, 8>>
        /\ Row(10) = <<"SourcePort", 28, 2>>
    BY <1>2, <1>5, <1>7, <1>6
  <2>3. /\ Row(11) = <<"SequenceID", 30, 2>>
        /\ Row(12) = <<"ControlField", 32, 1>>
        /\ Row(13) = <<"LogMessageInterval", 33, 1>>
        /\ Row(14) = <<"Seconds", 34, 6>>
        /\ Row(15) = <<"Nanoseconds", 40, 4>>
    BY <1>2, <1>5, <1>8, <1>7
  <2>4. /\ Row(16) = <<"CurrentUTCOffset", 44, 2>>
        /\ Row(17) = <<"Reserved", 46, 1>>
        /\ Row(18) = <<"GrandmasterPriority1", 47, 1>>
        /\ Row(19) = <<"ClockClass", 48, 1>>
        /\ Row(20) = <<"ClockAccuracy", 49, 1>>
    BY <1>2, <1>5, <1>9, <1>8
  <2>5. /\ Row(21) = <<"OffsetScaledLogVariance", 50, 2>>
        /\ Row(22) = <<"GrandmasterPriority2", 52, 1>>
        /\ Row(23) = <<"GrandmasterIdentity", 53, 8>>
        /\ Row(24) = <<"StepsRemoved", 61, 2>>
        /\ Row(25) = <<"TimeSource", 63, 1>>
    BY <1>2, <1>5, <1>10, <1>9
  <2>6. QED
    BY <2>1, <2>2, <2>3, <2>4, <2>5, Zenon
<1>12. StructRows(st) = {Row(i) : i \in 1 .. 25}
  BY <1>1, Zenon DEF StructRows, s
<1> HIDE DEF Row
<1>13. StructRows(st) = FullRows("Announce")
  <2>1. {Row(i) : i \in 1 .. 25} \subseteq FullRows("Announce")
    BY <1>11 DEF FullRows, BodyRows, AnnounceRows, HeaderRows, headerSize
  <2>2. FullRows("Announce") \subseteq {Row(i) : i \in 1 .. 25}
    <3> DEFINE A == {<<r[1], headerSize + r[2], r[3]>> : r \in AnnounceRows}
               B == {Row(i) : i \in 1 .. 25}
    <3>1. HeaderRows \subseteq B
      BY <1>11 DEF HeaderRows
    <3>2. \A r \in AnnounceRows : <<r[1], headerSize + r[2], r[3]>> \in B
      BY <1>11 DEF AnnounceRows, headerSize
    <3>3. A \subseteq B
      <4> HIDE DEF B
      <4>1. QED
        BY <3>2, Zenon
    <3>4. FullRows("Announce") = HeaderRows \cup A
      BY DEF FullRows, BodyRows
    <3> HIDE DEF A, B
    <3>5. FullRows("Announce") \subseteq B
      BY <3>1, <3>3, <3>4
    <3>6. QED
      BY <3>5 DEF B
  <2>3. QED
    BY <1>12, <2>1, <2>2
<1>14. StructSize(st) = BodyEnd("Announce")
  BY <1>1, <1>10 DEF StructSize, BodyEnd, headerSize, s
<1>15. QED
  BY <1>13, <1>14 DEF st

\* Rows lie within size bytes.
Inside(rows, size) ==
  \A r \in rows : r[2] \in Nat /\ r[3] \in Nat /\ r[3] >= 1 /\ r[2] + r[3] <= size

\* No two of them share a name or a byte.
Apart(rows) ==
  \A r, q \in rows : r = q \/ (r[1] # q[1] /\ (r[2] + r[3] <= q[2] \/ q[2] + q[3] <= r[2]))

\* They leave no byte out.
Gapless(rows, size) ==
  \A i \in Nat : (1 <= i /\ i <= size) => \E r \in rows : r[2] + 1 <= i /\ i <= r[2] + r[3]

Tiled(rows, size) == Inside(rows, size) /\ Apart(rows) /\ Gapless(rows, size)

\* The header's fields.
LEMMA HeaderTiled == Tiled(HeaderRows, 34)
<1>1. Inside(HeaderRows, 34)
  BY DEF HeaderRows, Inside
<1>2. Apart(HeaderRows)
  BY DEF HeaderRows, Apart
<1>3. Gapless(HeaderRows, 34)
  BY DEF HeaderRows, Gapless
<1>4. QED
  BY <1>1, <1>2, <1>3 DEF Tiled

\* The fields of the bodies.
LEMMA BodyTiled ==
  ASSUME NEW type \in Types
  PROVE  /\ Tiled(BodyRows(type), BodyEnd(type) - 34)
         /\ \A r \in HeaderRows, q \in BodyRows(type) : r[1] # q[1]
         /\ BodyEnd(type) \in Nat /\ BodyEnd(type) >= 44 /\ BodyEnd(type) <= 64
<1>1. CASE type \in {"Sync", "DelayReq", "FollowUp"}
  <2>1. /\ BodyRows(type) = {<<"Seconds", 0, 6>>, <<"Nanoseconds", 6, 4>>}
        /\ BodyEnd(type) = 44
    BY <1>1 DEF BodyRows, SyncDelayReqRows, FollowUpRows, BodyEnd, headerSize
  <2>2. Tiled(BodyRows(type), 10)
    BY <2>1 DEF Tiled, Inside, Apart, Gapless
  <2>3. \A r \in HeaderRows, q \in BodyRows(type) : r[1] # q[1]
    BY <2>1 DEF HeaderRows
  <2>4. QED
    BY <2>1, <2>2, <2>3
<1>2. CASE type = "DelayResp"
  <2>1. BodyRows(type) = DelayRespRows /\ BodyEnd(type) = 54
    BY <1>2 DEF BodyRows, BodyEnd, headerSize
  <2>2. Tiled(DelayRespRows, 20)
    BY DEF Tiled, Inside, Apart, Gapless, DelayRespRows
  <2>3. \A r \in HeaderRows, q \in DelayRespRows : r[1] # q[1]
    BY DEF HeaderRows, DelayRespRows
  <2>4. QED
    BY <2>1, <2>2, <2>3
<1>3. CASE type = "Announce"
  <2>1. BodyRows(type) = AnnounceRows /\ BodyEnd(type) = 64
    BY <1>3 DEF BodyRows, BodyEnd, headerSize
  <2>2. Inside(AnnounceRows, 30) /\ Gapless(AnnounceRows, 30)
    BY DEF Inside, Gapless, AnnounceRows
  <2>3. Apart(AnnounceRows)
    BY DEF Apart, AnnounceRows
  <2>4. \A r \in HeaderRows, q \in AnnounceRows : r[1] # q[1]
    BY DEF HeaderRows, AnnounceRows
  <2>5. QED
    BY <2>1, <2>2, <2>3, <2>4 DEF Tiled
<1>4. CASE type = "Signaling"
  <2>1. BodyRows(type) = SignalingRows /\ BodyEnd(type) = 44
    BY <1>4 DEF BodyRows, BodyEnd, headerSize
  <2>2. Tiled(SignalingRows, 10)
    BY DEF Tiled, Inside, Apart, Gapless, SignalingRows
  <2>3. \A r \in HeaderRows, q \in SignalingRows : r[1] # q[1]
    BY DEF HeaderRows, SignalingRows
  <2>4. QED
    BY <2>1, <2>2, <2>3
<1>5. QED
  BY <1>1, <1>2, <1>3, <1>4 DEF Types

\* A header and a body together.
LEMMA FullTiled ==
  ASSUME NEW type \in Types
  PROVE  Tiled(FullRows(type), BodyEnd(type))
<1> DEFINE H == HeaderRows
           B == BodyRows(type)
           e == BodyEnd(type)
           Sh(r) == <<r[1], 34 + r[2], r[3]>>
           F == FullRows(type)
<1>1. Inside(H, 34) /\ Apart(H) /\ Gapless(H, 34)
  BY HeaderTiled DEF Tiled
<1>2. /\ Inside(B, e - 34) /\ Apart(B) /\ Gapless(B, e - 34)
      /\ \A r \in H, q \in B : r[1] # q[1]
      /\ e \in Nat /\ e >= 44
  BY BodyTiled, Zenon DEF Tiled
<1>3. F = H \cup {Sh(r) : r \in B}
  BY DEF FullRows, headerSize
<1> HIDE DEF H, B, e, F
<1>4. Inside(F, e)
  <2> SUFFICES ASSUME NEW x \in F
               PROVE  x[2] \in Nat /\ x[3] \in Nat /\ x[3] >= 1 /\ x[2] + x[3] <= e
    BY DEF Inside
  <2>1. CASE x \in H
    BY <1>1, <1>2, <2>1 DEF Inside
  <2>2. ASSUME NEW r \in B, x = Sh(r)
        PROVE  x[2] \in Nat /\ x[3] \in Nat /\ x[3] >= 1 /\ x[2] + x[3] <= e
    BY <1>2, <2>2 DEF Inside
  <2>3. QED
    BY <1>3, <2>1, <2>2
<1>5. Apart(F)
  <2> SUFFICES ASSUME NEW x \in F, NEW y \in F, x # y
               PROVE  x[1] # y[1] /\ (x[2] + x[3] <= y[2] \/ y[2] + y[3] <= x[2])
    BY DEF Apart
  <2>1. CASE x \in H /\ y \in H
    BY <1>1, <2>1 DEF Apart
  <2>2. ASSUME NEW q \in B, y = Sh(q), x \in H
        PROVE  x[1] # y[1] /\ x[2] + x[3] <= y[2]
    BY <1>1, <1>2, <2>2 DEF Inside
  <2>3. ASSUME NEW r \in B, x = Sh(r), y \in H
        PROVE  x[1] # y[1] /\ y[2] + y[3] <= x[2]
    BY <1>1, <1>2, <2>3 DEF Inside
  <2>4. ASSUME NEW r \in B, NEW q \in B, x = Sh(r), y = Sh(q)
        PROVE  x[1] # y[1] /\ (x[2] + x[3] <= y[2] \/ y[2] + y[3] <= x[2])
    <3>1. r # q
      BY <2>4
    <3>2. r[1] # q[1] /\ (r[2] + r[3] <= q[2] \/ q[2] + q[3] <= r[2])
      BY <1>2, <3>1 DEF Apart
    <3>3. r[2] \in Nat /\ r[3] \in Nat /\ q[2] \in Nat /\ q[3] \in Nat
      BY <1>2 DEF Inside
    <3>4. QED
      BY <2>4, <3>2, <3>3
  <2>5. QED
    BY <1>3, <2>1, <2>2, <2>3, <2>4
<1>6. Gapless(F, e)
  <2> SUFFICES ASSUME NEW i \in Nat, 1 <= i, i <= e
               PROVE  \E x \in F : x[2] + 1 <= i /\ i <= x[2] + x[3]
    BY DEF Gapless
  <2>1. CASE i <= 34
    BY <1>1, <1>3, <2>1 DEF Gapless
  <2>2. CASE i > 34
    <3>1. i - 34 \in Nat /\ 1 <= i - 34 /\ i - 34 <= e - 34
      BY <1>2, <2>2
    <3>2. PICK r \in B : r[2] + 1 <= i - 34 /\ i - 34 <= r[2] + r[3]
      BY <1>2, <3>1 DEF Gapless
    <3>3. r[2] \in Nat /\ r[3] \in Nat
      BY <1>2 DEF Inside
    <3>4. Sh(r) \in F /\ Sh(r)[2] + 1 <= i /\ i <= Sh(r)[2] + Sh(r)[3]
      BY <1>3, <3>2, <3>3
    <3>5. QED
      BY <3>4
  <2>3. QED
    BY <2>1, <2>2
<1>7. QED
  BY <1>4, <1>5, <1>6 DEF Tiled, F, e

\* The fields of the TLVs; a TLV is as long as its LengthField says.
LEMMA TLVTiled ==
  ASSUME NEW t \in TLVTypes
  PROVE  /\ Tiled(TLVRows(t), TLVEnd(t))
         /\ TLVEnd(t) \in Nat /\ TLVEnd(t) >= 6 /\ TLVEnd(t) <= 12
         /\ TLVSize(t) = TLVEnd(t) /\ tlvHeadSize + LengthField(t) = TLVEnd(t)
         /\ TLVFields(t) = TLVRows(t) /\ <<"TLVType", 0, 2>> \in TLVRows(t)
<1>1. CASE t = "Request"
  <2>1. TLVRows(t) = RequestRows /\ TLVEnd(t) = 10
    BY <1>1 DEF TLVRows, TLVEnd, tlvHeadSize
  <2>2. Tiled(RequestRows, 10)
    BY DEF Tiled, Inside, Apart, Gapless, RequestRows
  <2>3. TLVSize(t) = 10 /\ tlvHeadSize + LengthField(t) = 10
    BY <1>1 DEF TLVSize, LengthField, tlvHeadSize
  <2>4. TLVFields(t) = RequestRows /\ <<"TLVType", 0, 2>> \in RequestRows
    BY <1>1 DEF TLVFields, RequestRows
  <2>5. QED
    BY <2>1, <2>2, <2>3, <2>4
<1>2. CASE t = "Grant"
  <2>1. TLVRows(t) = GrantRows /\ TLVEnd(t) = 12
    BY <1>2 DEF TLVRows, TLVEnd, tlvHeadSize
  <2>2. Tiled(GrantRows, 12)
    BY DEF Tiled, Inside, Apart, Gapless, GrantRows, RequestRows
  <2>3. TLVSize(t) = 12 /\ tlvHeadSize + LengthField(t) = 12
    BY <1>2 DEF TLVSize, LengthField, tlvHeadSize
  <2>4. TLVFields(t) = GrantRows /\ <<"TLVType", 0, 2>> \in GrantRows
    BY <1>2 DEF TLVFields, RequestRows, GrantRows
  <2>5. QED
    BY <2>1, <2>2, <2>3, <2>4
<1>3. CASE t \in {"Cancel", "AcknowledgeCancel"}
  <2>1. TLVRows(t) = CancelRows /\ TLVEnd(t) = 6
    BY <1>3 DEF TLVRows, TLVEnd, tlvHeadSize
  <2>2. Tiled(CancelRows, 6)
    BY DEF Tiled, Inside, Apart, Gapless, CancelRows
  <2>3. TLVSize(t) = 6 /\ tlvHeadSize + LengthField(t) = 6
    BY <1>3 DEF TLVSize, LengthField, tlvHeadSize
  <2>4. TLVFields(t) = CancelRows /\ <<"TLVType", 0, 2>> \in CancelRows
    BY <1>3 DEF TLVFields, CancelRows
  <2>5. QED
    BY <2>1, <2>2, <2>3, <2>4
<1>4. QED
  BY <1>1, <1>2, <1>3 DEF TLVTypes

\* Packets; only Signaling has TLVs.
IsPacket(p) ==
  /\ p \in [type : Types, id : Nat \ {0}, tlvs : Seq(TLVTypes)]
  /\ p.type # "Signaling" => p.tlvs = <<>>

\* TLVs follow each other.
Chained(p) ==
  /\ TLVStart(p, 1) = 44
  /\ \A j \in 1 .. Len(p.tlvs) : TLVStart(p, j + 1) = TLVStart(p, j) + TLVEnd(p.tlvs[j])
  /\ \A j \in 1 .. Len(p.tlvs) + 1 : TLVStart(p, j) \in Nat
  /\ TLVStart(p, Len(p.tlvs) + 1)
       = 44 + SumTo([i \in DOMAIN p.tlvs |-> TLVEnd(p.tlvs[i])], Len(p.tlvs))

\* The places of the TLVs.
LEMMA StartFacts ==
  ASSUME NEW p, IsPacket(p)
  PROVE  Chained(p)
<1> DEFINE n == Len(p.tlvs)
           s == [i \in DOMAIN p.tlvs |-> TLVEnd(p.tlvs[i])]
<1>1. n \in Nat /\ DOMAIN p.tlvs = 1 .. n /\ \A i \in 1 .. n : p.tlvs[i] \in TLVTypes
  <2>1. p.tlvs \in Seq(TLVTypes)
    BY DEF IsPacket
  <2>2. QED
    BY <2>1, SeqFacts, Zenon
<1>2. s = [i \in 1 .. n |-> TLVEnd(p.tlvs[i])] /\ \A i \in 1 .. n : TLVEnd(p.tlvs[i]) \in Nat
  BY <1>1, TLVTiled, Zenon
<1>3. s \in [1 .. n -> Nat]
  BY <1>2
<1>4. s \in Seq(Nat) /\ Len(s) = n
  <2> HIDE DEF s, n
  <2>1. QED
    BY <1>1, <1>3, FunSeq, Zenon
<1>5. \A i \in 1 .. n : s[i] = TLVEnd(p.tlvs[i])
  BY <1>2
<1>6. \A j : TLVStart(p, j) = 44 + SumTo(s, j - 1)
  BY DEF TLVStart, BodyEnd, headerSize
<1> HIDE DEF s, n
<1>7. /\ SumTo(s, 0) = 0 /\ \A i \in 0 .. n : SumTo(s, i) \in Nat
      /\ \A i \in 1 .. n : SumTo(s, i) = SumTo(s, i - 1) + s[i]
  <2>1. Sums(s)
    BY <1>4, SumFacts, Zenon
  <2>2. QED
    BY <1>4, <2>1 DEF Sums
<1>8. TLVStart(p, 1) = 44
  BY <1>6, <1>7
<1>9. ASSUME NEW j \in 1 .. n + 1
      PROVE  TLVStart(p, j) \in Nat
  <2>1. j - 1 \in 0 .. n
    BY <1>1
  <2>2. SumTo(s, j - 1) \in Nat
    BY <1>7, <2>1
  <2>3. QED
    BY <1>6, <2>2
<1>10. ASSUME NEW j \in 1 .. n
       PROVE  TLVStart(p, j + 1) = TLVStart(p, j) + TLVEnd(p.tlvs[j])
  <2>1. j - 1 \in 0 .. n /\ (j + 1) - 1 = j
    BY <1>1
  <2>2. SumTo(s, j) = SumTo(s, j - 1) + s[j] /\ SumTo(s, j - 1) \in Nat /\ s[j] \in Nat
    BY <1>2, <1>5, <1>7, <2>1
  <2>3. QED
    BY <1>5, <1>6, <2>1, <2>2
<1>11. TLVStart(p, n + 1) = 44 + SumTo(s, n)
  <2>1. (n + 1) - 1 = n
    BY <1>1
  <2>2. QED
    BY <1>6, <2>1
<1>12. QED
  BY <1>8, <1>9, <1>10, <1>11 DEF Chained, n, s

\* A TLV ends before every later one begins.
LEMMA StartsGrow ==
  ASSUME NEW p, IsPacket(p)
  PROVE  /\ Len(p.tlvs) \in Nat /\ DOMAIN p.tlvs = 1 .. Len(p.tlvs)
         /\ \A i \in 1 .. Len(p.tlvs) : p.tlvs[i] \in TLVTypes
         /\ \A j \in 1 .. Len(p.tlvs) : \A k \in 1 .. Len(p.tlvs) + 1 :
              j < k => TLVStart(p, j) + TLVEnd(p.tlvs[j]) <= TLVStart(p, k)
         /\ \A k \in 1 .. Len(p.tlvs) + 1 : /\ 44 + 6 * (k - 1) <= TLVStart(p, k)
                                            /\ TLVStart(p, k) <= 44 + 12 * (k - 1)
<1> DEFINE n == Len(p.tlvs)
           A(j) == TLVStart(p, j)
           E(j) == TLVEnd(p.tlvs[j])
<1>1. n \in Nat /\ DOMAIN p.tlvs = 1 .. n /\ \A i \in 1 .. n : p.tlvs[i] \in TLVTypes
  <2>1. p.tlvs \in Seq(TLVTypes)
    BY DEF IsPacket
  <2>2. QED
    BY <2>1, SeqFacts, Zenon
<1>2. \A i \in 1 .. n : E(i) \in Nat /\ E(i) >= 6 /\ E(i) <= 12
  BY <1>1, TLVTiled, Zenon
<1>3. /\ A(1) = 44 /\ \A j \in 1 .. n + 1 : A(j) \in Nat
      /\ \A j \in 1 .. n : A(j + 1) = A(j) + E(j)
  BY StartFacts, Zenon DEF Chained
<1> HIDE DEF n, A, E
<1> DEFINE T == {k \in Nat : k <= n =>
                   /\ \A j \in 1 .. n : j <= k => A(j) + E(j) <= A(k + 1)
                   /\ 44 + 6 * k <= A(k + 1) /\ A(k + 1) <= 44 + 12 * k}
<1>4. 0 \in T
  BY <1>1, <1>3
<1>5. ASSUME NEW k \in Nat, k \in T
      PROVE  k + 1 \in T
  <2> SUFFICES ASSUME k + 1 <= n
               PROVE  /\ \A j \in 1 .. n : j <= k + 1 => A(j) + E(j) <= A((k + 1) + 1)
                      /\ 44 + 6 * (k + 1) <= A((k + 1) + 1)
                      /\ A((k + 1) + 1) <= 44 + 12 * (k + 1)
    OBVIOUS
  <2>1. k + 1 \in 1 .. n /\ k + 1 \in 1 .. n + 1 /\ k <= n
    BY <1>1
  <2>2. /\ A((k + 1) + 1) = A(k + 1) + E(k + 1) /\ A(k + 1) \in Nat
        /\ E(k + 1) \in Nat /\ E(k + 1) >= 6 /\ E(k + 1) <= 12
    BY <1>2, <1>3, <2>1
  <2>3. /\ \A j \in 1 .. n : j <= k => A(j) + E(j) <= A(k + 1)
        /\ 44 + 6 * k <= A(k + 1) /\ A(k + 1) <= 44 + 12 * k
    BY <1>5, <2>1
  <2>4. ASSUME NEW j \in 1 .. n, j <= k + 1
        PROVE  A(j) + E(j) <= A((k + 1) + 1)
    <3>1. CASE j = k + 1
      BY <2>2, <3>1
    <3>2. CASE j # k + 1
      <4>1. j <= k /\ j \in 1 .. n + 1
        BY <1>1, <2>4, <3>2
      <4>2. A(j) + E(j) <= A(k + 1) /\ A(j) \in Nat /\ E(j) \in Nat
        BY <1>2, <1>3, <2>3, <4>1
      <4>3. QED
        BY <2>2, <4>2
    <3>3. QED
      BY <3>1, <3>2
  <2>5. QED
    BY <2>2, <2>3, <2>4
<1>6. Nat \subseteq T
  <2> HIDE DEF T
  <2>1. QED
    BY <1>4, <1>5, Induction
<1>7. ASSUME NEW k \in 1 .. n + 1
      PROVE  /\ \A j \in 1 .. n : j < k => A(j) + E(j) <= A(k)
             /\ 44 + 6 * (k - 1) <= A(k) /\ A(k) <= 44 + 12 * (k - 1)
  <2>1. k - 1 \in Nat /\ k - 1 <= n /\ (k - 1) + 1 = k
    BY <1>1
  <2>2. k - 1 \in T
    BY <1>6, <2>1
  <2>3. /\ \A j \in 1 .. n : j <= k - 1 => A(j) + E(j) <= A((k - 1) + 1)
        /\ 44 + 6 * (k - 1) <= A((k - 1) + 1) /\ A((k - 1) + 1) <= 44 + 12 * (k - 1)
    BY <2>1, <2>2
  <2>4. \A j \in 1 .. n : j < k => j <= k - 1
    BY <1>1
  <2>5. QED
    BY <2>1, <2>3, <2>4
<1>8. QED
  BY <1>1, <1>7, Zenon DEF n, A, E

\* MessageLength, which the builders compute from the structs, is what
\* MarshalBinaryTo writes.
LEMMA LengthRight ==
  ASSUME NEW p, IsPacket(p)
  PROVE  /\ MessageLength(p) = MarshalEnd(p)
         /\ MarshalEnd(p) \in Nat /\ MarshalEnd(p) >= BodyEnd(p.type)
         /\ p.type # "Signaling" => MarshalEnd(p) <= 64
         /\ p.type = "Signaling" => MarshalEnd(p) <= 44 + 12 * Len(p.tlvs)
<1>1. p.type \in Types
  BY DEF IsPacket
<1>2. BodyEnd(p.type) \in Nat /\ BodyEnd(p.type) <= 64
  BY <1>1, BodyTiled, Zenon
<1>3. CASE p.type = "Signaling"
  <2> DEFINE n == Len(p.tlvs)
             s == [i \in DOMAIN p.tlvs |-> TLVEnd(p.tlvs[i])]
  <2>1. /\ n \in Nat /\ DOMAIN p.tlvs = 1 .. n /\ \A i \in 1 .. n : p.tlvs[i] \in TLVTypes
        /\ \A k \in 1 .. n + 1 : /\ 44 + 6 * (k - 1) <= TLVStart(p, k)
                                 /\ TLVStart(p, k) <= 44 + 12 * (k - 1)
    BY StartsGrow, Zenon
  <2>2. TLVStart(p, n + 1) = 44 + SumTo(s, n) /\ \A k \in 1 .. n + 1 : TLVStart(p, k) \in Nat
    BY StartFacts, Zenon DEF Chained
  <2>3. [i \in DOMAIN p.tlvs |-> TLVSize(p.tlvs[i])] = s
    BY <2>1, TLVTiled, Zenon
  <2>4. MessageLength(p) = StructSize(HeaderStruct) + 10 + SumTo(s, n)
    BY <1>3, <2>3 DEF MessageLength
  <2> HIDE DEF n, s
  <2>5. n + 1 \in 1 .. n + 1 /\ (n + 1) - 1 = n
    BY <2>1
  <2>6. /\ TLVStart(p, n + 1) \in Nat /\ 44 <= TLVStart(p, n + 1)
        /\ TLVStart(p, n + 1) <= 44 + 12 * n
    <3>1. 44 + 6 * ((n + 1) - 1) <= TLVStart(p, n + 1)
      BY <2>1, <2>5
    <3>2. TLVStart(p, n + 1) <= 44 + 12 * ((n + 1) - 1)
      BY <2>1, <2>5
    <3>3. TLVStart(p, n + 1) \in Nat
      BY <2>2, <2>5
    <3>4. QED
      BY <2>1, <3>1, <3>2, <3>3
  <2>7. MarshalEnd(p) = TLVStart(p, n + 1)
    BY <1>3 DEF MarshalEnd, n
  <2>8. MessageLength(p) = 44 + SumTo(s, n)
    BY <2>4, HeaderSized DEF headerSize
  <2>9. BodyEnd(p.type) = 44
    BY <1>3 DEF BodyEnd, headerSize
  <2>10. QED
    BY <1>3, <2>2, <2>6, <2>7, <2>8, <2>9 DEF n
<1>4. CASE p.type # "Signaling"
  <2>1. MarshalEnd(p) = BodyEnd(p.type)
    BY <1>4 DEF MarshalEnd
  <2>2. MessageLength(p) = BodyEnd(p.type)
    <3>1. CASE p.type = "Announce"
      BY <3>1, AnnounceRead DEF MessageLength
    <3>2. CASE p.type = "DelayResp"
      BY <3>2, HeaderSized DEF MessageLength, BodyEnd, headerSize
    <3>3. CASE p.type \notin {"Announce", "DelayResp"}
      BY <1>4, <3>3, HeaderSized DEF MessageLength, BodyEnd, headerSize
    <3>4. QED
      BY <3>1, <3>2, <3>3
  <2>3. QED
    BY <1>2, <1>4, <2>1, <2>2
<1>5. QED
  BY <1>3, <1>4

\* Where row r of TLV j of packet p comes to lie.
Placed(p, j, r) == <<j, r[1], TLVStart(p, j) + r[2], r[3]>>

\* All that is written of a packet is in its header or body, or in a TLV.
LEMMA LayoutFacts ==
  ASSUME NEW p, IsPacket(p)
  PROVE  /\ \A r \in FullRows(p.type) : <<0, r[1], r[2], r[3]>> \in Layout(p)
         /\ \A j \in DOMAIN p.tlvs : \A r \in TLVRows(p.tlvs[j]) : Placed(p, j, r) \in Layout(p)
         /\ \A x \in Layout(p) :
              \/ \E r \in FullRows(p.type) : x = <<0, r[1], r[2], r[3]>>
              \/ \E j \in DOMAIN p.tlvs : \E r \in TLVRows(p.tlvs[j]) : x = Placed(p, j, r)
<1> DEFINE B == BodyRows(p.type)
           H1 == {<<0, r[1], r[2], r[3]>> : r \in HeaderRows}
           B1 == {<<0, r[1], headerSize + r[2], r[3]>> : r \in B}
           T1(j) == {<<j, r[1], TLVStart(p, j) + r[2], r[3]>> : r \in TLVRows(p.tlvs[j])}
           T2 == UNION {T1(j) : j \in DOMAIN p.tlvs}
           Sh(r) == <<r[1], headerSize + r[2], r[3]>>
           F == FullRows(p.type)
<1>1. Layout(p) = H1 \cup B1 \cup T2
  BY DEF Layout
<1>2. F = HeaderRows \cup {Sh(r) : r \in B}
  BY DEF FullRows
<1>3. \A x : x \in T2 <=> \E j \in DOMAIN p.tlvs : \E r \in TLVRows(p.tlvs[j]) : x = Placed(p, j, r)
  BY DEF Placed
<1>4. \A x : x \in H1 \cup B1 <=> \E r \in F : x = <<0, r[1], r[2], r[3]>>
  <2> HIDE DEF F, B
  <2>1. \A r \in B : <<0, Sh(r)[1], Sh(r)[2], Sh(r)[3]>> = <<0, r[1], headerSize + r[2], r[3]>>
    OBVIOUS
  <2>2. \A x \in H1 : \E r \in F : x = <<0, r[1], r[2], r[3]>>
    BY <1>2
  <2>3. \A x \in B1 : \E r \in F : x = <<0, r[1], r[2], r[3]>>
    <3> SUFFICES ASSUME NEW r \in B
                 PROVE  \E q \in F : <<0, r[1], headerSize + r[2], r[3]>> = <<0, q[1], q[2], q[3]>>
      OBVIOUS
    <3>1. Sh(r) \in F
      BY <1>2
    <3>2. QED
      BY <2>1, <3>1
  <2>4. ASSUME NEW q \in F
        PROVE  <<0, q[1], q[2], q[3]>> \in H1 \cup B1
    <3>1. CASE q \in HeaderRows
      BY <3>1
    <3>2. ASSUME NEW r \in B, q = Sh(r)
          PROVE  <<0, q[1], q[2], q[3]>> \in B1
      BY <2>1, <3>2
    <3>3. QED
      BY <1>2, <3>1, <3>2
  <2>5. QED
    BY <2>2, <2>3, <2>4
<1> HIDE DEF H1, B1, T2, F
<1>5. QED
  BY <1>1, <1>3, <1>4 DEF F

\* The fields of a packet, one after the other.
LEMMA LayoutTiled ==
  ASSUME NEW p, IsPacket(p)
  PROVE  /\ \A x \in Layout(p) : /\ x[3] \in Nat /\ x[4] \in Nat /\ x[4] >= 1
                                 /\ x[3] + x[4] <= MarshalEnd(p)
         /\ \A x, y \in Layout(p) : x = y \/ x[3] + x[4] <= y[3] \/ y[3] + y[4] <= x[3]
         /\ \A i \in Nat : (1 <= i /\ i <= MarshalEnd(p)) =>
              \E x \in Layout(p) : x[3] + 1 <= i /\ i <= x[3] + x[4]
<1> DEFINE n == Len(p.tlvs)
           A(j) == TLVStart(p, j)
           E(j) == TLVEnd(p.tlvs[j])
           R(j) == TLVRows(p.tlvs[j])
           F == FullRows(p.type)
           e == BodyEnd(p.type)
           M == MarshalEnd(p)
           Pk(r) == <<0, r[1], r[2], r[3]>>
           Pl(j, r) == Placed(p, j, r)
<1>1. p.type \in Types
  BY DEF IsPacket
<1>2. Inside(F, e) /\ Apart(F) /\ Gapless(F, e)
  BY <1>1, FullTiled, Zenon DEF Tiled
<1>3. /\ n \in Nat /\ DOMAIN p.tlvs = 1 .. n /\ \A i \in 1 .. n : p.tlvs[i] \in TLVTypes
      /\ \A j \in 1 .. n : \A k \in 1 .. n + 1 : j < k => A(j) + E(j) <= A(k)
      /\ \A k \in 1 .. n + 1 : 44 + 6 * (k - 1) <= A(k)
  BY StartsGrow, Zenon
<1>4. /\ A(1) = 44 /\ \A j \in 1 .. n + 1 : A(j) \in Nat
      /\ \A j \in 1 .. n : A(j + 1) = A(j) + E(j)
  BY StartFacts, Zenon DEF Chained
<1>5. \A j \in 1 .. n : /\ Inside(R(j), E(j)) /\ Apart(R(j)) /\ Gapless(R(j), E(j))
                        /\ E(j) \in Nat
  BY <1>3, TLVTiled, Zenon DEF Tiled
<1>6. M \in Nat /\ e \in Nat /\ e <= M
  BY <1>1, LengthRight, BodyTiled, Zenon
<1>7. n > 0 => p.type = "Signaling" /\ e = 44
  <2>1. p.tlvs = <<>> => n = 0
    OBVIOUS
  <2>2. p.type = "Signaling" => e = 44
    BY DEF BodyEnd, headerSize
  <2>3. QED
    BY <2>1, <2>2 DEF IsPacket
<1>7a. p.type = "Signaling" => M = A(n + 1) /\ e = 44
  BY DEF MarshalEnd, BodyEnd, headerSize
<1>7b. p.type # "Signaling" => M = e
  BY SMTT(30) DEF MarshalEnd
<1>8. /\ \A r \in F : Pk(r) \in Layout(p)
      /\ \A j \in 1 .. n : \A r \in R(j) : Pl(j, r) \in Layout(p)
      /\ \A x \in Layout(p) : \/ \E r \in F : x = Pk(r)
                              \/ \E j \in 1 .. n : \E r \in R(j) : x = Pl(j, r)
  <2>1. /\ \A r \in F : Pk(r) \in Layout(p)
        /\ \A j \in DOMAIN p.tlvs : \A r \in R(j) : Pl(j, r) \in Layout(p)
        /\ \A x \in Layout(p) : \/ \E r \in F : x = Pk(r)
                                \/ \E j \in DOMAIN p.tlvs : \E r \in R(j) : x = Pl(j, r)
    BY LayoutFacts, Zenon
  <2> HIDE DEF n, R, F, Pk, Pl
  <2>2. QED
    BY <1>3, <2>1
<1>9. \A j, r : /\ Pl(j, r)[3] = A(j) + r[2] /\ Pl(j, r)[4] = r[3]
                /\ Pk(r)[3] = r[2] /\ Pk(r)[4] = r[3]
  BY DEF Placed
<1> HIDE DEF n, A, E, R, F, e, M, Pk, Pl
<1>10. \A r \in F : r[2] \in Nat /\ r[3] \in Nat /\ r[3] >= 1 /\ r[2] + r[3] <= e
  BY <1>2 DEF Inside
<1>11. \A j \in 1 .. n : \A r \in R(j) :
         r[2] \in Nat /\ r[3] \in Nat /\ r[3] >= 1 /\ r[2] + r[3] <= E(j)
  BY <1>5 DEF Inside
<1>12. \A j \in 1 .. n : /\ j \in 1 .. n + 1 /\ j + 1 \in 1 .. n + 1 /\ A(j) \in Nat /\ E(j) \in Nat
                         /\ 44 <= A(j) /\ A(j) + E(j) <= M
  <2> TAKE j \in 1 .. n
  <2>1. j \in 1 .. n + 1 /\ n + 1 \in 1 .. n + 1 /\ j + 1 \in 1 .. n + 1 /\ j < n + 1 /\ n > 0
    BY <1>3
  <2>2. A(j) \in Nat /\ E(j) \in Nat /\ 44 + 6 * (j - 1) <= A(j) /\ A(j) + E(j) <= A(n + 1)
    BY <1>3, <1>4, <1>5, <2>1, SMTT(30)
  <2>3. M = A(n + 1)
    BY <1>7, <1>7a, <2>1
  <2>4. QED
    BY <2>1, <2>2, <2>3
<1>13. ASSUME NEW x \in Layout(p)
       PROVE  x[3] \in Nat /\ x[4] \in Nat /\ x[4] >= 1 /\ x[3] + x[4] <= M
  <2>1. ASSUME NEW r \in F, x = Pk(r)
        PROVE  x[3] \in Nat /\ x[4] \in Nat /\ x[4] >= 1 /\ x[3] + x[4] <= M
    <3>1. x[3] = r[2] /\ x[4] = r[3]
      BY <1>9, <2>1
    <3>2. QED
      BY <1>6, <1>10, <3>1
  <2>2. ASSUME NEW j \in 1 .. n, NEW r \in R(j), x = Pl(j, r)
        PROVE  x[3] \in Nat /\ x[4] \in Nat /\ x[4] >= 1 /\ x[3] + x[4] <= M
    <3>1. x[3] = A(j) + r[2] /\ x[4] = r[3]
      BY <1>9, <2>2
    <3>2. r[2] \in Nat /\ r[3] \in Nat /\ r[3] >= 1 /\ r[2] + r[3] <= E(j)
      BY <1>11
    <3>3. A(j) \in Nat /\ E(j) \in Nat /\ A(j) + E(j) <= M
      BY <1>12
    <3>4. QED
      BY <1>6, <3>1, <3>2, <3>3
  <2>3. QED
    BY <1>8, <2>1, <2>2
<1>14. ASSUME NEW x \in Layout(p), NEW y \in Layout(p)
       PROVE  x = y \/ x[3] + x[4] <= y[3] \/ y[3] + y[4] <= x[3]
  <2>1. ASSUME NEW r \in F, x = Pk(r), NEW q \in F, y = Pk(q)
        PROVE  x = y \/ x[3] + x[4] <= y[3] \/ y[3] + y[4] <= x[3]
    <3>1. r = q \/ r[2] + r[3] <= q[2] \/ q[2] + q[3] <= r[2]
      BY <1>2 DEF Apart
    <3>2. QED
      BY <1>9, <2>1, <3>1
  <2>2. \A z, r, j, q : (r \in F /\ j \in 1 .. n /\ q \in R(j)) => Pk(r)[3] + Pk(r)[4] <= Pl(j, q)[3]
    <3> SUFFICES ASSUME NEW r \in F, NEW j \in 1 .. n, NEW q \in R(j)
                 PROVE  r[2] + r[3] <= A(j) + q[2]
      BY <1>9
    <3>1. r[2] \in Nat /\ r[3] \in Nat /\ r[2] + r[3] <= e
      BY <1>10
    <3>2. e = 44
      <4>1. n > 0
        BY <1>3
      <4>2. QED
        BY <1>7, <4>1
    <3>3. A(j) \in Nat /\ 44 <= A(j) /\ q[2] \in Nat
      BY <1>11, <1>12
    <3>4. QED
      BY <3>1, <3>2, <3>3
  <2>3. ASSUME NEW j \in 1 .. n, NEW r \in R(j), x = Pl(j, r),
               NEW k \in 1 .. n, NEW q \in R(k), y = Pl(k, q)
        PROVE  x = y \/ x[3] + x[4] <= y[3] \/ y[3] + y[4] <= x[3]
    <3>1. /\ x[3] = A(j) + r[2] /\ x[4] = r[3] /\ y[3] = A(k) + q[2] /\ y[4] = q[3]
      BY <1>9, <2>3
    <3>2. /\ r[2] \in Nat /\ r[3] \in Nat /\ r[2] + r[3] <= E(j)
          /\ q[2] \in Nat /\ q[3] \in Nat /\ q[2] + q[3] <= E(k)
      BY <1>11
    <3>3. A(j) \in Nat /\ E(j) \in Nat /\ A(k) \in Nat /\ E(k) \in Nat
      BY <1>12
    <3>4. j \in 1 .. n + 1 /\ k \in 1 .. n + 1 /\ (j < k \/ k < j \/ j = k)
      BY <1>3
    <3>5. CASE j < k
      <4>1. A(j) + E(j) <= A(k)
        BY <1>3, <3>4, <3>5
      <4>2. QED
        BY <3>1, <3>2, <3>3, <4>1
    <3>6. CASE k < j
      <4>1. A(k) + E(k) <= A(j)
        BY <1>3, <3>4, <3>6
      <4>2. QED
        BY <3>1, <3>2, <3>3, <4>1, SMTT(30)
    <3>7. CASE j = k
      <4>1. r = q \/ r[2] + r[3] <= q[2] \/ q[2] + q[3] <= r[2]
        BY <1>5, <3>7 DEF Apart
      <4>2. CASE r = q
        BY <2>3, <3>7, <4>2, SMTT(30)
      <4>3. CASE r # q
        BY <3>1, <3>2, <3>3, <3>7, <4>1, <4>3
      <4>4. QED
        BY <4>2, <4>3
    <3>8. QED
      BY <3>4, <3>5, <3>6, <3>7, SMTT(30)
  <2>4. QED
    BY <1>8, <2>1, <2>2, <2>3
<1>15. ASSUME NEW i \in Nat, 1 <= i, i <= M
       PROVE  \E x \in Layout(p) : x[3] + 1 <= i /\ i <= x[3] + x[4]
  <2>1. CASE i <= e
    <3>1. PICK r \in F : r[2] + 1 <= i /\ i <= r[2] + r[3]
      BY <1>2, <1>15, <2>1 DEF Gapless
    <3>2. Pk(r) \in Layout(p) /\ Pk(r)[3] + 1 <= i /\ i <= Pk(r)[3] + Pk(r)[4]
      BY <1>8, <1>9, <3>1
    <3>3. QED
      BY <3>2
  <2>2. CASE i > e
    <3>1. M = A(n + 1) /\ e = 44
      BY <1>6, <1>7a, <1>7b, <1>15, <2>2
    <3> DEFINE U == {k \in Nat : k >= 1 /\ k <= n + 1 /\ i <= A(k)}
    <3>2. n + 1 \in U
      BY <1>3, <1>15, <3>1
    <3>3. PICK k \in U : \A m \in U : k <= m
      <4>1. U \in SUBSET Nat /\ U # {}
        BY <3>2
      <4> HIDE DEF U
      <4>2. QED
        BY <4>1, Least, Zenon
    <3>4. k # 1
      BY <1>4, <2>2, <3>1
    <3> DEFINE j == k - 1
    <3>5. j \in 1 .. n /\ j + 1 = k /\ j \in Nat /\ j >= 1 /\ j <= n + 1 /\ j < k
      BY <1>3, <3>4
    <3> HIDE DEF j
    <3>6. A(j) \in Nat /\ E(j) \in Nat /\ A(k) = A(j) + E(j)
      BY <1>4, <1>12, <3>5
    <3>7. A(j) < i /\ i <= A(j) + E(j)
      <4>1. j \notin U
        BY <3>3, <3>5
      <4>2. QED
        BY <1>15, <3>3, <3>5, <3>6, <4>1
    <3>8. i - A(j) \in Nat /\ 1 <= i - A(j) /\ i - A(j) <= E(j)
      BY <1>15, <3>6, <3>7
    <3>9. PICK r \in R(j) : r[2] + 1 <= i - A(j) /\ i - A(j) <= r[2] + r[3]
      BY <1>5, <3>5, <3>8 DEF Gapless
    <3>10. r[2] \in Nat /\ r[3] \in Nat
      BY <1>11, <3>5
    <3>11. (A(j) + r[2]) + 1 <= i /\ i <= (A(j) + r[2]) + r[3]
      BY <1>15, <3>6, <3>9, <3>10, SMTT(30)
    <3>12. Pl(j, r) \in Layout(p) /\ Pl(j, r)[3] + 1 <= i /\ i <= Pl(j, r)[3] + Pl(j, r)[4]
      BY <1>8, <1>9, <3>5, <3>11, SMTT(30)
    <3>13. QED
      BY <3>12
  <2>3. QED
    BY <1>6, <1>15, <2>1, <2>2
<1>16. QED
  BY <1>13, <1>14, <1>15 DEF M

\* A buffer of n bytes.
Buffer(b, n) == b = [i \in 1 .. n |-> b[i]]

\* A buffer is a sequence, and so is its beginning.
LEMMA BufferFacts ==
  ASSUME NEW n \in Nat, NEW b, Buffer(b, n)
  PROVE  /\ Len(b) = n /\ DOMAIN b = 1 .. n
         /\ \A m \in Nat : m <= n => /\ Buffer(SubSeq(b, 1, m), m)
                                     /\ \A i \in 1 .. m : SubSeq(b, 1, m)[i] = b[i]
         /\ \A e : Append(b, e) = [i \in 1 .. n + 1 |-> IF i = n + 1 THEN e ELSE b[i]]
         /\ <<>> \o b = b
<1> DEFINE S == {b[i] : i \in 1 .. n}
<1>1. b \in [1 .. n -> S]
  <2> DEFINE c == [i \in 1 .. n |-> b[i]]
  <2>1. c \in [1 .. n -> S]
    OBVIOUS
  <2>2. b = c
    BY DEF Buffer
  <2> HIDE DEF c, S
  <2>3. QED
    BY <2>1, <2>2
<1> HIDE DEF S
<1>2. b \in Seq(S) /\ Len(b) = n /\ DOMAIN b = 1 .. n
  BY <1>1
<1>3. ASSUME NEW m \in Nat, m <= n
      PROVE  /\ Buffer(SubSeq(b, 1, m), m) /\ \A i \in 1 .. m : SubSeq(b, 1, m)[i] = b[i]
  <2>1. SubSeq(b, 1, m) = [i \in 1 .. m |-> b[i]]
    BY <1>2, <1>3
  <2>2. QED
    BY <2>1 DEF Buffer
<1>4. ASSUME NEW e
      PROVE  Append(b, e) = [i \in 1 .. n + 1 |-> IF i = n + 1 THEN e ELSE b[i]]
  <2> DEFINE S1 == S \cup {e}
  <2>1. b \in [1 .. n -> S1] /\ e \in S1
    BY <1>1
  <2> HIDE DEF S1
  <2>2. b \in Seq(S1)
    BY <2>1
  <2> DEFINE a == Append(b, e)
  <2>3. a \in Seq(S1) /\ Len(a) = n + 1
    BY <1>2, <2>1, <2>2
  <2>4. \A i \in 1 .. n + 1 : a[i] = IF i = n + 1 THEN e ELSE b[i]
    BY <1>2, <2>1, <2>2
  <2> HIDE DEF a
  <2>5. a = [i \in 1 .. n + 1 |-> a[i]]
    BY <2>3
  <2>6. QED
    BY <2>4, <2>5 DEF a
<1>5. <<>> \o b = b
  BY <1>2
<1>6. QED
  BY <1>2, <1>3, <1>4, <1>5

\* Bytes b are packet p and the two that are added for UDP's checksum.
Carries(b, p) ==
  /\ Buffer(b, MarshalEnd(p) + 2)
  /\ \A x \in Layout(p) : \A k \in 1 .. x[4] : b[x[3] + k] = <<p.id, x[1], x[2], k>>

\* What BytesTo makes of any buffer that is large enough.
LEMMA Marshalled ==
  ASSUME NEW p, IsPacket(p), NEW n \in Nat, NEW buf, Buffer(buf, n), MarshalEnd(p) + 2 <= n
  PROVE  /\ Buffer(BytesTo(p, buf), n)
         /\ Carries(SubSeq(BytesTo(p, buf), 1, MarshalEnd(p) + 2), p)
<1> DEFINE M == MarshalEnd(p)
           L == Layout(p)
           over(i) == {r \in L : i - r[3] \in 1 .. r[4]}
           At(i, r) == <<p.id, r[1], r[2], i - r[3]>>
           m == MarshalBinaryTo(p, buf)
           b == BytesTo(p, buf)
           w == SubSeq(b, 1, M + 2)
<1>1. M \in Nat
  BY LengthRight, Zenon
<1>2. /\ \A x \in L : x[3] \in Nat /\ x[4] \in Nat /\ x[4] >= 1 /\ x[3] + x[4] <= M
      /\ \A x, y \in L : x = y \/ x[3] + x[4] <= y[3] \/ y[3] + y[4] <= x[3]
  BY LayoutTiled, Zenon
<1>3. DOMAIN buf = 1 .. n
  BY BufferFacts, Zenon
<1>4. M + 2 <= n /\ M + 2 \in Nat
  BY <1>1
<1> HIDE DEF L, M
<1>5. ASSUME NEW i \in 1 .. n, NEW x \in over(i)
      PROVE  over(i) = {x}
  <2> SUFFICES ASSUME NEW y \in over(i) PROVE y = x
    OBVIOUS
  <2>1. x \in L /\ y \in L /\ i - x[3] \in 1 .. x[4] /\ i - y[3] \in 1 .. y[4]
    BY <1>5
  <2>2. x[3] \in Nat /\ x[4] \in Nat /\ y[3] \in Nat /\ y[4] \in Nat
    BY <1>2, <2>1
  <2>3. x = y \/ x[3] + x[4] <= y[3] \/ y[3] + y[4] <= x[3]
    BY <1>2, <2>1
  <2>4. QED
    BY <2>1, <2>2, <2>3
<1>6. m = [i \in 1 .. n |-> IF over(i) = {} THEN buf[i] ELSE At(i, CHOOSE r \in over(i) : TRUE)]
  BY <1>3, Zenon DEF MarshalBinaryTo, L
<1>7. ASSUME NEW i \in 1 .. n, NEW x \in over(i)
      PROVE  (CHOOSE r \in over(i) : TRUE) = x
  BY <1>5, <1>7
<1> HIDE DEF over, m
<1>8. ASSUME NEW i \in 1 .. n, NEW x \in over(i)
      PROVE  m[i] = At(i, x)
  <2>1. over(i) # {}
    OBVIOUS
  <2>2. m[i] = At(i, CHOOSE r \in over(i) : TRUE)
    BY <1>6, <2>1
  <2>3. QED
    BY <1>7, <2>2, Zenon
<1>9. DOMAIN m = 1 .. n
  BY <1>6
<1>10. b = [m EXCEPT ![M + 1] = ZeroByte, ![M + 2] = ZeroByte]
  BY DEF BytesTo, m, M
<1> HIDE DEF b
<1>11. Buffer(b, n)
  BY <1>9, <1>10, Zenon DEF Buffer
<1>12. \A i \in 1 .. n : i <= M => b[i] = m[i]
  <2> TAKE i \in 1 .. n
  <2>1. i <= M => i # M + 1 /\ i # M + 2
    BY <1>1
  <2>2. QED
    BY <1>9, <1>10, <2>1
<1>13. Buffer(w, M + 2) /\ \A i \in 1 .. M + 2 : w[i] = b[i]
  BY <1>4, <1>11, BufferFacts, Zenon
<1> HIDE DEF w
<1>14. ASSUME NEW x \in L, NEW k \in 1 .. x[4]
       PROVE  w[x[3] + k] = <<p.id, x[1], x[2], k>>
  <2> DEFINE i == x[3] + k
  <2>0. x[3] \in Nat /\ x[4] \in Nat /\ x[3] + x[4] <= M
    BY <1>2
  <2>1. i \in 1 .. n /\ i \in 1 .. M + 2 /\ i <= M /\ i - x[3] = k
    BY <1>1, <1>4, <2>0
  <2> HIDE DEF i
  <2>2. x \in over(i)
    BY <2>1 DEF over
  <2>3. m[i] = At(i, x)
    BY <1>8, <2>1, <2>2
  <2>4. w[i] = At(i, x)
    BY <1>12, <1>13, <2>1, <2>3, SMTT(30)
  <2>5. QED
    BY <2>1, <2>4 DEF i
<1>15. Carries(w, p)
  BY <1>13, <1>14 DEF Carries, M, L
<1>16. QED
  BY <1>11, <1>15 DEF b, w, M

\* No byte of a packet is left over from the buffer it was written into.
LEMMA NoneStale ==
  ASSUME NEW p, IsPacket(p), NEW b, Carries(b, p)
  PROVE  \A i \in 1 .. MarshalEnd(p) : b[i][1] = p.id
<1> SUFFICES ASSUME NEW i \in 1 .. MarshalEnd(p)
             PROVE  b[i][1] = p.id
  OBVIOUS
<1>1. MarshalEnd(p) \in Nat
  BY LengthRight, Zenon
<1>2. i \in Nat /\ 1 <= i /\ i <= MarshalEnd(p)
  BY <1>1
<1>3. PICK x \in Layout(p) : x[3] + 1 <= i /\ i <= x[3] + x[4]
  BY <1>2, LayoutTiled, Zenon
<1>4. x[3] \in Nat /\ x[4] \in Nat
  BY LayoutTiled, Zenon
<1>5. i - x[3] \in 1 .. x[4] /\ x[3] + (i - x[3]) = i
  BY <1>2, <1>3, <1>4, SMTT(30)
<1>6. b[i] = <<p.id, x[1], x[2], i - x[3]>>
  BY <1>5, SMTT(30) DEF Carries
<1>7. QED
  BY <1>6

\* A field is read from its own bytes.
LEMMA FieldRead ==
  ASSUME NEW p, IsPacket(p), NEW b, Carries(b, p), NEW x \in Layout(p)
  PROVE  FieldAt(b, x[3], x[4]) = <<p.id, x[1], x[2]>>
<1>1. x[3] \in Nat /\ x[4] \in Nat /\ x[4] >= 1
  BY LayoutTiled, Zenon
<1>2. \A k \in 1 .. x[4] : b[x[3] + k] = <<p.id, x[1], x[2], k>>
  BY DEF Carries
<1>3. b[x[3] + 1] = <<p.id, x[1], x[2], 1>>
  BY <1>1, <1>2, SMTT(30)
<1> DEFINE y == b[x[3] + 1]
<1>4. y[1] = p.id /\ y[2] = x[1] /\ y[3] = x[2]
  BY <1>3
<1> HIDE DEF y
<1>5. \A k \in 1 .. x[4] : b[x[3] + k] = <<y[1], y[2], y[3], k>>
  BY <1>2, <1>4
<1>6. FieldAt(b, x[3], x[4]) = <<y[1], y[2], y[3]>>
  BY <1>5, Zenon DEF FieldAt, y
<1>7. QED
  BY <1>4, <1>6

\* The names of fields, each with what was sent in it by message id, in TLV j.
Fields(rows, id, j) == [f \in {r[1] : r \in rows} |-> <<id, j, f>>]

\* Each of the rows after position base holds its field.
AllRead(b, rows, base, id, j) ==
  \A r \in rows : FieldAt(b, base + r[2], r[3]) = <<id, j, r[1]>>

\* A field is read from the row of its name.
LEMMA GetFacts ==
  ASSUME NEW b, NEW rows, NEW base, NEW id, NEW j, AllRead(b, rows, base, id, j)
  PROVE  Get(b, rows, base) = Fields(rows, id, j)
<1>1. ASSUME NEW f \in {r[1] : r \in rows}
      PROVE  LET r == CHOOSE r \in rows : r[1] = f
             IN  FieldAt(b, base + r[2], r[3]) = <<id, j, f>>
  <2> DEFINE r == CHOOSE r \in rows : r[1] = f
  <2>1. r \in rows /\ r[1] = f
    BY Zenon
  <2> HIDE DEF r
  <2>2. FieldAt(b, base + r[2], r[3]) = <<id, j, f>>
    BY <2>1 DEF AllRead
  <2>3. QED
    BY <2>2 DEF r
<1>2. QED
  BY <1>1, Zenon DEF Get, Fields

\* The rows that FromBytes reads by are those that were written by.
LEMMA RowsRead ==
  ASSUME NEW type \in Types, NEW b
  PROVE  UnmarshalBinary(type, b) = Get(b, FullRows(type), 0)
<1>1. HeaderFields = HeaderRows
  BY DEF HeaderFields, HeaderRows
<1>2. CASE type = "Announce"
  BY <1>2, AnnounceRead DEF UnmarshalBinary
<1>3. CASE type # "Announce"
  <2> DEFINE body == CASE type \in {"Sync", "DelayReq"} -> SyncDelayReqFields
                       [] type = "FollowUp" -> FollowUpFields
                       [] type = "DelayResp" -> DelayRespFields
                       [] type = "Signaling" -> SignalingFields
  <2>1. body = BodyRows(type)
    <3>1. /\ SyncDelayReqFields = SyncDelayReqRows /\ FollowUpFields = FollowUpRows
          /\ DelayRespFields = DelayRespRows /\ SignalingFields = SignalingRows
      BY DEF SyncDelayReqFields, SyncDelayReqRows, FollowUpFields, FollowUpRows,
             DelayRespFields, DelayRespRows, SignalingFields, SignalingRows
    <3>2. QED
      BY <1>3, <3>1 DEF BodyRows, Types
  <2>2. UnmarshalBinary(type, b) =
          Get(b, HeaderFields \cup {<<r[1], headerSize + r[2], r[3]>> : r \in body}, 0)
    BY <1>3, Zenon DEF UnmarshalBinary
  <2>3. QED
    BY <1>1, <2>1, <2>2, Zenon DEF FullRows
<1>4. QED
  BY <1>2, <1>3

\* Header and body are read as they were sent.
LEMMA BodyRead ==
  ASSUME NEW p, IsPacket(p), NEW b, Carries(b, p)
  PROVE  UnmarshalBinary(p.type, b) = Fields(FullRows(p.type), p.id, 0)
<1>1. p.type \in Types
  BY DEF IsPacket
<1>2. ASSUME NEW r \in FullRows(p.type)
      PROVE  FieldAt(b, 0 + r[2], r[3]) = <<p.id, 0, r[1]>>
  <2> DEFINE x == <<0, r[1], r[2], r[3]>>
  <2>1. x \in Layout(p)
    BY LayoutFacts, Zenon
  <2>2. x[1] = 0 /\ x[2] = r[1] /\ x[3] = r[2] /\ x[4] = r[3]
    OBVIOUS
  <2> HIDE DEF x
  <2>3. FieldAt(b, x[3], x[4]) = <<p.id, x[1], x[2]>>
    BY <2>1, FieldRead, Zenon
  <2>4. x[3] \in Nat
    BY <2>1, LayoutTiled, Zenon
  <2>5. 0 + x[3] = x[3]
    BY <2>4
  <2>6. QED
    BY <2>2, <2>3, <2>5
<1>3. Get(b, FullRows(p.type), 0) = Fields(FullRows(p.type), p.id, 0)
  <2>1. AllRead(b, FullRows(p.type), 0, p.id, 0)
    BY <1>2, Zenon DEF AllRead
  <2>2. QED
    BY <2>1, GetFacts
<1>4. QED
  BY <1>1, <1>3, RowsRead, Zenon

\* The TLV that stands in place j of a packet, as it is read.
Told(p, j) == [type |-> p.tlvs[j], fields |-> Fields(TLVRows(p.tlvs[j]), p.id, j)]

\* The state of the loop of Signaling.UnmarshalBinary after n TLVs.
Passed(p, n) ==
  [pos |-> TLVStart(p, n + 1), tlvs |-> [j \in 1 .. n |-> Told(p, j)], more |-> TRUE]

\* The loop's last state.
Done(p) ==
  [pos |-> TLVStart(p, Len(p.tlvs) + 1), tlvs |-> [j \in 1 .. Len(p.tlvs) |-> Told(p, j)],
   more |-> FALSE]

\* What is left of a state of the loop when only its last part is replaced.
LEMMA LoopState ==
  ASSUME NEW a, NEW c, NEW d, NEW e
  PROVE  [[pos |-> a, tlvs |-> c, more |-> d] EXCEPT !.more = e]
           = [pos |-> a, tlvs |-> c, more |-> e]
  OBVIOUS

\* A turn takes the next TLV, and after the last one ends the loop.
LEMMA TurnTaken ==
  ASSUME NEW p, IsPacket(p), p.type = "Signaling", NEW b, Carries(b, p)
  PROVE  /\ \A n \in Nat : n < Len(p.tlvs) => Turn(b, p, Passed(p, n)) = Passed(p, n + 1)
         /\ Turn(b, p, Passed(p, Len(p.tlvs))) = Done(p)
         /\ Turn(b, p, Done(p)) = Done(p)
<1> DEFINE L == Len(p.tlvs)
           A(j) == TLVStart(p, j)
           E(j) == TLVEnd(p.tlvs[j])
<1>1. /\ L \in Nat /\ DOMAIN p.tlvs = 1 .. L /\ \A i \in 1 .. L : p.tlvs[i] \in TLVTypes
      /\ \A j \in 1 .. L : \A k \in 1 .. L + 1 : j < k => A(j) + E(j) <= A(k)
  BY StartsGrow, Zenon
<1>2. /\ \A j \in 1 .. L + 1 : A(j) \in Nat
      /\ \A j \in 1 .. L : A(j + 1) = A(j) + E(j)
  BY StartFacts, Zenon DEF Chained
<1>3. MessageLength(p) = A(L + 1)
  BY LengthRight DEF MarshalEnd
<1>4. p.id \in Nat \ {0}
  BY DEF IsPacket
<1>5. tlvHeadSize = 4
  BY SMTT(30) DEF tlvHeadSize
<1> HIDE DEF L, A, E
<1>6. ASSUME NEW n \in Nat, n < L
      PROVE  Turn(b, p, Passed(p, n)) = Passed(p, n + 1)
  <2> DEFINE j == n + 1
             t == p.tlvs[j]
             s == Passed(p, n)
             read == [i \in 1 .. n |-> Told(p, i)]
  <2>1. j \in 1 .. L /\ j \in 1 .. L + 1 /\ L + 1 \in 1 .. L + 1 /\ j < L + 1 /\ j # 0
    BY <1>1, <1>6
  <2> HIDE DEF j
  <2>2. t \in TLVTypes
    BY <1>1, <2>1
  <2>3. /\ E(j) \in Nat /\ E(j) >= 6 /\ tlvHeadSize + LengthField(t) = E(j)
        /\ TLVFields(t) = TLVRows(t) /\ <<"TLVType", 0, 2>> \in TLVRows(t)
    BY <2>2, TLVTiled, Zenon DEF E
  <2>4. A(j) \in Nat /\ A(j + 1) = A(j) + E(j) /\ A(j) + E(j) <= A(L + 1) /\ A(L + 1) \in Nat
    BY <1>1, <1>2, <2>1, SMTT(30)
  <2>5. ASSUME NEW r \in TLVRows(t)
        PROVE  FieldAt(b, A(j) + r[2], r[3]) = <<p.id, j, r[1]>>
    <3> DEFINE x == Placed(p, j, r)
    <3>1. j \in DOMAIN p.tlvs
      BY <1>1, <2>1
    <3>2. x \in Layout(p)
      BY <3>1, LayoutFacts, Zenon
    <3>3. x[1] = j /\ x[2] = r[1] /\ x[3] = A(j) + r[2] /\ x[4] = r[3]
      BY DEF Placed, A
    <3> HIDE DEF x
    <3>4. FieldAt(b, x[3], x[4]) = <<p.id, x[1], x[2]>>
      BY <3>2, FieldRead, Zenon
    <3>5. QED
      BY <3>3, <3>4, SMTT(30)
  <2>6. Get(b, TLVRows(t), A(j)) = Fields(TLVRows(t), p.id, j)
    <3>1. AllRead(b, TLVRows(t), A(j), p.id, j)
      BY <2>5, Zenon DEF AllRead
    <3>2. QED
      BY <3>1, GetFacts
  <2> DEFINE x == FieldAt(b, s.pos, 2)
  <2>7. s = [pos |-> A(j), tlvs |-> read, more |-> TRUE]
    BY DEF Passed, A, j
  <2> HIDE DEF s, read
  <2>8. s.pos = A(j) /\ s.tlvs = read /\ s.more = TRUE
    BY <2>7, SMTT(30)
  <2>9. x = <<p.id, j, "TLVType">>
    <3> DEFINE r == <<"TLVType", 0, 2>>
    <3>1. r[1] = "TLVType" /\ r[2] = 0 /\ r[3] = 2 /\ r \in TLVRows(t)
      BY <2>3, SMTT(30)
    <3> HIDE DEF r
    <3>2. FieldAt(b, A(j) + r[2], r[3]) = <<p.id, j, r[1]>>
      BY <2>5, <3>1
    <3>3. A(j) + 0 = A(j)
      BY <2>4
    <3>4. QED
      BY <2>8, <3>1, <3>2, <3>3
  <2>10. x[1] = p.id /\ x[2] = j /\ x[3] = "TLVType"
    BY <2>9, SMTT(30)
  <2> HIDE DEF x
  <2>11. ~ (~s.more \/ s.pos + tlvHeadSize > MessageLength(p))
    BY <1>3, <1>5, <2>3, <2>4, <2>8, SMTT(30)
  <2>12. ~ (x[1] # p.id \/ x[2] = 0 \/ x[3] # "TLVType")
    BY <2>1, <2>10
  <2>13. Turn(b, p, s) =
           [s EXCEPT !.tlvs = Append(@, [type |-> p.tlvs[x[2]],
                                         fields |-> Get(b, TLVFields(p.tlvs[x[2]]), s.pos)]),
                     !.pos = @ + tlvHeadSize + LengthField(p.tlvs[x[2]])]
    BY <2>11, <2>12 DEF Turn, x
  <2>14. p.tlvs[x[2]] = t
    BY <2>10
  <2>15. Turn(b, p, s) =
           [s EXCEPT !.tlvs = Append(@, [type |-> t, fields |-> Get(b, TLVFields(t), s.pos)]),
                     !.pos = @ + tlvHeadSize + LengthField(t)]
    BY <2>13, <2>14
  <2>16. Get(b, TLVFields(t), s.pos) = Fields(TLVRows(t), p.id, j)
    BY <2>3, <2>6, <2>8
  <2>17. Turn(b, p, s) =
           [pos |-> A(j) + tlvHeadSize + LengthField(t),
            tlvs |-> Append(read, [type |-> t, fields |-> Fields(TLVRows(t), p.id, j)]),
            more |-> TRUE]
    BY <2>7, <2>15, <2>16, Zenon
  <2>18. A(j) + tlvHeadSize + LengthField(t) = A(j + 1)
    <3>1. LengthField(t) \in Int
      BY <2>2 DEF LengthField, TLVSize, tlvHeadSize, TLVTypes
    <3>2. QED
      BY <1>5, <2>3, <2>4, <3>1
  <2>19. Append(read, [type |-> t, fields |-> Fields(TLVRows(t), p.id, j)])
           = [i \in 1 .. j |-> Told(p, i)]
    <3>1. [type |-> t, fields |-> Fields(TLVRows(t), p.id, j)] = Told(p, j)
      BY DEF Told
    <3>2. Buffer(read, n)
      BY SMTT(30) DEF Buffer, read
    <3>4. Append(read, Told(p, j)) = [i \in 1 .. n + 1 |-> IF i = n + 1 THEN Told(p, j) ELSE read[i]]
      BY <3>2, BufferFacts
    <3>5. \A i \in 1 .. n + 1 : (IF i = n + 1 THEN Told(p, j) ELSE read[i]) = Told(p, i)
      BY DEF read, j
    <3>6. QED
      BY <3>1, <3>4, <3>5 DEF j
  <2>20. Passed(p, n + 1) = [pos |-> A(j + 1), tlvs |-> [i \in 1 .. j |-> Told(p, i)], more |-> TRUE]
    BY DEF Passed, A, j
  <2>21. QED
    BY <2>17, <2>18, <2>19, <2>20, Zenon DEF s
<1>7. Turn(b, p, Passed(p, L)) = Done(p)
  <2> DEFINE s == Passed(p, L)
             all == [j \in 1 .. L |-> Told(p, j)]
  <2>1. s = [pos |-> A(L + 1), tlvs |-> all, more |-> TRUE]
    BY SMTT(30) DEF Passed, A
  <2> HIDE DEF all
  <2>2. A(L + 1) \in Nat
    BY <1>1, <1>2
  <2>3. s.pos + tlvHeadSize > MessageLength(p)
    BY <1>3, <1>5, <2>1, <2>2
  <2> HIDE DEF s
  <2>4. Turn(b, p, s) = [s EXCEPT !.more = FALSE]
    BY <2>3 DEF Turn
  <2>5. [s EXCEPT !.more = FALSE] = [pos |-> A(L + 1), tlvs |-> all, more |-> FALSE]
    <3>1. PICK e : e = FALSE
      BY Zenon
    <3>2. [s EXCEPT !.more = e] = [pos |-> A(L + 1), tlvs |-> all, more |-> e]
      BY <2>1, LoopState
    <3>3. QED
      BY <3>1, <3>2, Zenon
  <2>6. QED
    BY <2>4, <2>5, Zenon DEF Done, A, L, s, all
<1>8. Turn(b, p, Done(p)) = Done(p)
  <2> DEFINE s == Done(p)
             all == [j \in 1 .. L |-> Told(p, j)]
  <2>1. s = [pos |-> A(L + 1), tlvs |-> all, more |-> FALSE]
    BY DEF Done, A, L
  <2> HIDE DEF all
  <2> HIDE DEF s
  <2>2. Turn(b, p, s) = [s EXCEPT !.more = FALSE]
    BY <2>1 DEF Turn
  <2>3. [s EXCEPT !.more = FALSE] = [pos |-> A(L + 1), tlvs |-> all, more |-> FALSE]
    BY <2>1, LoopState, Zenon
  <2>4. QED
    BY <2>1, <2>2, <2>3, Zenon DEF s
<1>9. QED
  BY <1>6, <1>7, <1>8 DEF L

\* The loop reads every TLV once, in order, and stops before the two bytes
\* that follow them.
LEMMA TLVsRead ==
  ASSUME NEW p, IsPacket(p), p.type = "Signaling", NEW b, Carries(b, p)
  PROVE  unmarshalTLVs(b, p) = [j \in 1 .. Len(p.tlvs) |-> Told(p, j)]
<1> DEFINE L == Len(p.tlvs)
           turns == Len(b) \div tlvHeadSize
           first == [pos |-> BodyEnd("Signaling"), tlvs |-> <<>>, more |-> TRUE]
           Eqn(f) == f = [n \in 0 .. turns |-> IF n = 0 THEN first ELSE Turn(b, p, f[n - 1])]
           after == CHOOSE f : Eqn(f)
           At(n) == IF n <= L THEN Passed(p, n) ELSE Done(p)
           w == [n \in 0 .. turns |-> At(n)]
<1>1. /\ L \in Nat /\ \A k \in 1 .. L + 1 : 44 + 6 * (k - 1) <= TLVStart(p, k)
  BY StartsGrow, Zenon
<1>2. TLVStart(p, 1) = 44 /\ \A k \in 1 .. L + 1 : TLVStart(p, k) \in Nat
  BY StartFacts, Zenon DEF Chained
<1>3. Len(b) = TLVStart(p, L + 1) + 2
  <2>1. MarshalEnd(p) = TLVStart(p, L + 1)
    BY DEF MarshalEnd
  <2>2. MarshalEnd(p) \in Nat
    BY LengthRight, Zenon
  <2>3. MarshalEnd(p) + 2 \in Nat
    BY <2>2
  <2>4. Len(b) = MarshalEnd(p) + 2
    BY <2>3, BufferFacts, Zenon DEF Carries
  <2>5. QED
    BY <2>1, <2>4
<1> HIDE DEF L
<1>4. turns \in Nat /\ turns >= L + 1
  <2> DEFINE e == TLVStart(p, L + 1)
  <2>1. L + 1 \in 1 .. L + 1 /\ (L + 1) - 1 = L
    BY <1>1
  <2>2. e \in Nat /\ 44 + 6 * ((L + 1) - 1) <= e
    BY <1>1, <1>2, <2>1
  <2>3. e \in Nat /\ 44 + 6 * L <= e
    BY <2>1, <2>2
  <2>4. turns = (e + 2) \div 4
    BY <1>3 DEF tlvHeadSize
  <2> HIDE DEF e, turns
  <2>5. QED
    BY <1>1, <2>3, <2>4
<1> HIDE DEF turns
<1>5. At(0) = first
  <2>1. [j \in 1 .. 0 |-> Told(p, j)] = <<>>
    OBVIOUS
  <2>2. Passed(p, 0) = [pos |-> TLVStart(p, 1), tlvs |-> [j \in 1 .. 0 |-> Told(p, j)], more |-> TRUE]
    BY DEF Passed
  <2>3. BodyEnd("Signaling") = 44
    BY DEF BodyEnd, headerSize
  <2>4. QED
    BY <1>1, <1>2, <2>1, <2>2, <2>3
<1>6. \A n \in Nat : Turn(b, p, At(n)) = At(n + 1)
  <2> TAKE n \in Nat
  <2>1. /\ n < L => Turn(b, p, Passed(p, n)) = Passed(p, n + 1)
        /\ Turn(b, p, Passed(p, L)) = Done(p) /\ Turn(b, p, Done(p)) = Done(p)
    BY TurnTaken, Zenon DEF L
  <2>2. CASE n < L
    BY <1>1, <2>1, <2>2
  <2>3. CASE n = L
    BY <1>1, <2>1, <2>3
  <2>4. CASE n > L
    BY <1>1, <2>1, <2>4
  <2>5. QED
    BY <1>1, <2>2, <2>3, <2>4
<1> HIDE DEF At, first
<1>7. Eqn(w)
  <2>1. \A n \in 0 .. turns : w[n] = IF n = 0 THEN first ELSE Turn(b, p, w[n - 1])
    <3> TAKE n \in 0 .. turns
    <3>1. CASE n = 0
      BY <1>5, <3>1
    <3>2. CASE n # 0
      <4>1. n - 1 \in 0 .. turns /\ n - 1 \in Nat /\ (n - 1) + 1 = n
        BY <1>4, <3>2
      <4>2. w[n - 1] = At(n - 1) /\ w[n] = At(n)
        BY <4>1
      <4>3. Turn(b, p, At(n - 1)) = At((n - 1) + 1)
        BY <1>6, <4>1
      <4> HIDE DEF w
      <4>4. QED
        BY <3>2, <4>1, <4>2, <4>3
    <3>3. QED
      BY <3>1, <3>2
  <2>2. w = [n \in 0 .. turns |-> w[n]]
    BY Zenon
  <2> HIDE DEF w
  <2>3. QED
    BY <2>1, <2>2, Zenon
<1>8. Eqn(after)
  <2> HIDE DEF Eqn
  <2>1. QED
    BY <1>7, Zenon
<1>9. unmarshalTLVs(b, p) = after[turns].tlvs
  BY Zenon DEF unmarshalTLVs, turns, first
<1> HIDE DEF after
<1> DEFINE T == {n \in Nat : n <= turns => after[n] = At(n)}
<1>10. 0 \in T
  BY <1>4, <1>5, <1>8
<1>11. ASSUME NEW n \in Nat, n \in T
       PROVE  n + 1 \in T
  <2>1. CASE n + 1 <= turns
    <3>1. n + 1 \in 0 .. turns /\ n + 1 # 0 /\ (n + 1) - 1 = n /\ n <= turns
      BY <1>4, <2>1
    <3>2. after[n] = At(n)
      BY <1>11, <3>1
    <3>3. after[n + 1] = Turn(b, p, after[n])
      BY <1>8, <3>1, SMTT(30)
    <3>4. after[n + 1] = At(n + 1)
      BY <1>6, <3>2, <3>3
    <3>5. QED
      BY <3>4
  <2>2. QED
    BY <2>1
<1>12. Nat \subseteq T
  <2> HIDE DEF T
  <2>1. QED
    BY <1>10, <1>11, Induction
<1>13. after[turns] = At(turns)
  BY <1>4, <1>12
<1>14. At(turns) = Done(p)
  BY <1>1, <1>4 DEF At
<1>15. QED
  BY <1>9, <1>13, <1>14 DEF Done

-----------------------------------------------------------------------------
(* PTP packets                                                             *)
-----------------------------------------------------------------------------
\* Both buffers keep their size; a datagram under way is its packet, and one
\* that has arrived was read as it was sent.
PtpInv ==
  /\ sent \in Nat /\ received \in Nat /\ received <= sent
  /\ sent > 0 => part = "ptp"
  /\ part = "ptp" => Buffer(sbuf, PayloadSizeBytes) /\ Buffer(rbuf, PayloadSizeBytes)
  /\ sent > 0 => IsPacket(packet) /\ MarshalEnd(packet) + 2 <= PayloadSizeBytes
  /\ received < sent => Carries(wire, packet)
  /\ DecodedIsSent

\* What PtpInv says of a step that leaves PTP alone.
LEMMA PtpAlone ==
  ASSUME PtpInv, UNCHANGED <<part, ptpVars>>
  PROVE  PtpInv'
  BY Zenon DEF PtpInv, ptpVars, DecodedIsSent

\* Transmit writes a packet that the receiver's buffer has room for.
LEMMA TransmitPtp ==
  ASSUME PtpInv, NEW type \in Types, NEW tlvs \in TLVLists, Transmit(type, tlvs)
  PROVE  PtpInv'
<1> DEFINE p == Packet(type, sent + 1, tlvs)
           buf == IF type = "Signaling" THEN Zeros(200) ELSE sbuf
           size == IF type = "Signaling" THEN 200 ELSE PayloadSizeBytes
           b == BytesTo(p, buf)
<1>1. /\ part = "ptp" /\ sent = received /\ (type = "Signaling" <=> tlvs # <<>>)
      /\ packet' = p /\ sent' = sent + 1
      /\ sbuf' = (IF type = "Signaling" THEN sbuf ELSE b)
      /\ wire' = SubSeq(b, 1, MarshalEnd(p) + 2)
      /\ UNCHANGED <<part, rbuf, received>>
  BY Zenon DEF Transmit
<1>2. sent \in Nat /\ Buffer(sbuf, 128) /\ Buffer(rbuf, 128)
  BY <1>1 DEF PtpInv, PayloadSizeBytes
<1>3. PICK n \in 0 .. MaxTLVs : tlvs \in [1 .. n -> TLVTypes]
  BY DEF TLVLists
<1>4. n \in Nat /\ n <= MaxTLVs /\ MaxTLVs \in Nat
  BY FormatsAssumption
<1>5. tlvs \in Seq(TLVTypes) /\ Len(tlvs) = n
  BY <1>3, <1>4, FunSeq, ZenonT(30)
<1>6. p.type = type /\ p.tlvs = tlvs /\ IsPacket(p)
  <2>1. p = [type |-> type, id |-> sent + 1, tlvs |-> tlvs]
    BY Zenon DEF Packet
  <2>2. sent + 1 \in Nat \ {0}
    BY <1>2
  <2> HIDE DEF p
  <2>3. p \in [type : Types, id : Nat \ {0}, tlvs : Seq(TLVTypes)]
    BY <1>5, <2>1, <2>2
  <2>4. p.type = type /\ p.tlvs = tlvs
    BY <2>1
  <2>5. QED
    BY <1>1, <2>3, <2>4, Zenon DEF IsPacket
<1> HIDE DEF p
<1>7. MarshalEnd(p) \in Nat /\ MarshalEnd(p) + 2 <= 128
  <2>1. /\ MarshalEnd(p) \in Nat /\ (type # "Signaling" => MarshalEnd(p) <= 64)
        /\ (type = "Signaling" => MarshalEnd(p) <= 44 + 12 * n)
    BY <1>5, <1>6, LengthRight
  <2>2. BodyEnd("Signaling") + MaxTLVs * TLVEnd("Grant") + 2 <= PayloadSizeBytes
    BY FormatsAssumption, Zenon
  <2>3. 44 + MaxTLVs * 12 + 2 <= 128
    BY <2>2 DEF BodyEnd, TLVEnd, headerSize, tlvHeadSize, PayloadSizeBytes
  <2>4. QED
    BY <1>4, <2>1, <2>3
<1>8. Buffer(buf, size) /\ size \in Nat /\ MarshalEnd(p) + 2 <= size
  <2>1. Buffer(Zeros(200), 200)
    BY DEF Buffer, Zeros
  <2>2. QED
    BY <1>2, <1>7, <2>1 DEF PayloadSizeBytes
<1> HIDE DEF buf, size
<1>9. Buffer(b, size) /\ Carries(SubSeq(b, 1, MarshalEnd(p) + 2), p)
  BY <1>6, <1>8, Marshalled, Zenon
<1>10. Buffer(sbuf', 128)
  BY <1>1, <1>2, <1>9 DEF size, PayloadSizeBytes
<1>11. Carries(wire', packet')
  BY <1>1, <1>9
<1>12. sent' \in Nat /\ received' \in Nat /\ received' < sent'
  BY <1>1, <1>2, SMTT(30)
<1>13. DecodedIsSent'
  BY <1>12 DEF DecodedIsSent
<1>14. Buffer(rbuf', 128) /\ part' = "ptp"
  BY <1>1, <1>2, SMTT(30)
<1>15. IsPacket(packet') /\ MarshalEnd(packet') + 2 <= 128
  BY <1>1, <1>6, <1>7, SMTT(30)
<1>16. QED
  BY <1>10, <1>11, <1>12, <1>13, <1>14, <1>15 DEF PtpInv, PayloadSizeBytes

\* Receive reads what was sent, whatever its buffer and its Signaling held.
LEMMA ReceivePtp ==
  ASSUME PtpInv, Receive
  PROVE  PtpInv'
<1> DEFINE p == packet
           n == MarshalEnd(packet) + 2
           b == SubSeq(rbuf', 1, Len(wire))
<1>1. /\ part = "ptp" /\ received < sent /\ received' = sent
      /\ rbuf' = [i \in DOMAIN rbuf |-> IF i \in DOMAIN wire THEN wire[i] ELSE rbuf[i]]
      /\ got' = UnmarshalBinary(packet.type, b)
      /\ signaling' = (IF packet.type # "Signaling" THEN signaling
                       ELSE zerotlv \o unmarshalTLVs(b, packet))
      /\ UNCHANGED <<part, sbuf, packet, wire, sent>>
  BY ZenonT(30) DEF Receive
<1>2. sent \in Nat /\ received \in Nat /\ sent > 0
  <2>1. sent \in Nat /\ received \in Nat
    BY Zenon DEF PtpInv
  <2>2. QED
    BY <1>1, <2>1
<1>3. /\ Buffer(sbuf, 128) /\ Buffer(rbuf, 128) /\ IsPacket(p) /\ n <= 128 /\ Carries(wire, p)
  BY <1>1, <1>2, Zenon DEF PtpInv, PayloadSizeBytes
<1>4. n \in Nat /\ 128 \in Nat
  <2>1. MarshalEnd(packet) \in Nat
    BY <1>3, LengthRight, Zenon
  <2>2. QED
    BY <2>1
<1>5. Buffer(wire, n)
  BY <1>3, Zenon DEF Carries
<1> HIDE DEF n
<1>6. Len(wire) = n /\ DOMAIN wire = 1 .. n /\ DOMAIN rbuf = 1 .. 128
  BY <1>3, <1>4, <1>5, BufferFacts, ZenonT(30)
<1>7. Buffer(rbuf', 128)
  BY <1>1, <1>6, Zenon DEF Buffer
<1>8. \A i \in 1 .. n : rbuf'[i] = wire[i]
  <2> TAKE i \in 1 .. n
  <2>1. i \in 1 .. 128 /\ i \in DOMAIN wire
    <3>1. i \in Nat /\ 1 <= i /\ i <= 128
      BY <1>3, <1>4
    <3>2. QED
      BY <1>6, <3>1
  <2>2. QED
    BY <1>1, <1>6, <2>1, Zenon
<1>9. b = wire
  <2>1. Buffer(b, n) /\ \A i \in 1 .. n : b[i] = rbuf'[i]
    <3>1. /\ Buffer(SubSeq(rbuf', 1, n), n)
          /\ \A i \in 1 .. n : SubSeq(rbuf', 1, n)[i] = rbuf'[i]
      <4>1. \A m \in Nat : m <= 128 => /\ Buffer(SubSeq(rbuf', 1, m), m)
                                       /\ \A i \in 1 .. m : SubSeq(rbuf', 1, m)[i] = rbuf'[i]
        BY <1>4, <1>7, BufferFacts, ZenonT(30)
      <4>2. n <= 128
        BY <1>3
      <4>3. QED
        BY <1>4, <4>1, <4>2, Zenon
    <3>2. QED
      BY <1>6, <3>1, Zenon
  <2> HIDE DEF b
  <2>2. \A i \in 1 .. n : b[i] = wire[i]
    BY <1>8, <2>1, Zenon
  <2>3. QED
    BY <1>5, <2>1, <2>2 DEF Buffer
<1> HIDE DEF b
<1>10. got' = Fields(FullRows(p.type), p.id, 0)
  BY <1>1, <1>3, <1>9, BodyRead, Zenon
<1>11. ASSUME p.type = "Signaling"
       PROVE  signaling' = [j \in 1 .. Len(p.tlvs) |-> Told(p, j)]
  <2> DEFINE all == [j \in 1 .. Len(p.tlvs) |-> Told(p, j)]
  <2>1. unmarshalTLVs(b, packet) = all
    BY <1>3, <1>9, <1>11, TLVsRead, SMTT(30)
  <2>2. signaling' = <<>> \o unmarshalTLVs(b, packet)
    BY <1>1, <1>11, Zenon DEF zerotlv
  <2>3. Buffer(all, Len(p.tlvs)) /\ Len(p.tlvs) \in Nat
    <3>1. Len(p.tlvs) \in Nat
      BY <1>3, StartsGrow, Zenon
    <3>2. QED
      BY <3>1 DEF Buffer
  <2> HIDE DEF all
  <2>4. <<>> \o all = all
    BY <2>3, BufferFacts, Zenon
  <2>5. QED
    BY <2>1, <2>2, <2>4 DEF all
<1>12. DecodedIsSent'
  <2>1. /\ DOMAIN got' = {r[1] : r \in FullRows(p.type)}
        /\ \A f \in DOMAIN got' : got'[f] = <<p.id, 0, f>>
    BY <1>10, ZenonT(30) DEF Fields
  <2>2. {r[1] : r \in FullRows(p.type)} = {r[1] : r \in HeaderRows \cup BodyRows(p.type)}
    <3> DEFINE H == HeaderRows
               B == BodyRows(p.type)
               Moved(r) == <<r[1], headerSize + r[2], r[3]>>
               S == {Moved(r) : r \in B}
    <3>1. \A r : Moved(r)[1] = r[1]
      OBVIOUS
    <3>2. FullRows(p.type) = H \cup S
      BY Zenon DEF FullRows
    <3>3. S = {Moved(r) : r \in B}
      OBVIOUS
    <3> HIDE DEF H, B, Moved, S
    <3>4. {r[1] : r \in S} = {r[1] : r \in B}
      <4>1. ASSUME NEW s \in S PROVE \E r \in B : s[1] = r[1]
        BY <3>1, <3>3, Zenon
      <4>2. ASSUME NEW r \in B PROVE \E s \in S : r[1] = s[1]
        BY <3>1, <3>3, Zenon
      <4>3. \A f : f \in {r[1] : r \in S} <=> f \in {r[1] : r \in B}
        BY <4>1, <4>2
      <4>4. QED
        BY <4>3, ZenonT(30)
    <3>5. {r[1] : r \in H \cup S} = {r[1] : r \in H} \cup {r[1] : r \in S}
      BY Zenon
    <3>6. {r[1] : r \in H \cup B} = {r[1] : r \in H} \cup {r[1] : r \in B}
      BY Zenon
    <3>7. QED
      BY <3>2, <3>4, <3>5, <3>6, SMTT(30) DEF H, B
  <2>3. ASSUME p.type = "Signaling"
        PROVE  /\ Len(signaling') = Len(p.tlvs)
               /\ \A j \in DOMAIN signaling' :
                    /\ signaling'[j].type = p.tlvs[j]
                    /\ DOMAIN signaling'[j].fields = {r[1] : r \in TLVRows(p.tlvs[j])}
                    /\ \A f \in DOMAIN signaling'[j].fields :
                         signaling'[j].fields[f] = <<p.id, j, f>>
    <3> DEFINE m == Len(p.tlvs)
    <3>1. m \in Nat
      BY <1>3, StartsGrow, Zenon
    <3>2. signaling' = [j \in 1 .. m |-> Told(p, j)]
      BY <1>11, <2>3
    <3> HIDE DEF m
    <3>3. Buffer(signaling', m)
      BY <3>2 DEF Buffer
    <3>4. Len(signaling') = m /\ DOMAIN signaling' = 1 .. m
      BY <3>1, <3>3, BufferFacts, ZenonT(30)
    <3>5. ASSUME NEW j \in DOMAIN signaling'
          PROVE  /\ signaling'[j].type = p.tlvs[j]
                 /\ DOMAIN signaling'[j].fields = {r[1] : r \in TLVRows(p.tlvs[j])}
                 /\ \A f \in DOMAIN signaling'[j].fields :
                      signaling'[j].fields[f] = <<p.id, j, f>>
      <4>1. signaling'[j] = Told(p, j)
        BY <3>2, <3>4, SMTT(30)
      <4>2. /\ signaling'[j].type = p.tlvs[j]
            /\ signaling'[j].fields = Fields(TLVRows(p.tlvs[j]), p.id, j)
        BY <4>1, SMTT(30) DEF Told
      <4>3. QED
        BY <4>2 DEF Fields
    <3>6. QED
      BY <3>4, <3>5 DEF m
  <2>4. packet' = packet
    BY <1>1, SMTT(30)
  <2>5. QED
    BY <2>1, <2>2, <2>3, <2>4, ZenonT(30) DEF DecodedIsSent
<1>13. sent' = sent /\ received' = sent /\ packet' = packet /\ part' = "ptp" /\ sbuf' = sbuf
  BY <1>1
<1>14. QED
  BY <1>2, <1>3, <1>7, <1>12, <1>13 DEF PtpInv, PayloadSizeBytes, n

\* The invariant of the PTP part.
LEMMA PtpInvariance == Spec => []PtpInv
<1>1. Init => PtpInv
  <2> SUFFICES ASSUME Init PROVE PtpInv
    OBVIOUS
  <2>1. sent = 0 /\ received = 0
    BY DEF Init
  <2>2. ASSUME part = "ptp" PROVE Buffer(sbuf, 128) /\ Buffer(rbuf, 128)
    <3>1. sbuf = Zeros(128) /\ rbuf = sbuf
      BY <2>2 DEF Init, PayloadSizeBytes
    <3>2. Buffer(Zeros(128), 128)
      BY Zenon DEF Buffer, Zeros
    <3>3. QED
      BY <3>1, <3>2, SMTT(30)
  <2>3. QED
    BY <2>1, <2>2, SMTT(30) DEF PtpInv, PayloadSizeBytes, DecodedIsSent
<1>2. PtpInv /\ [Next]_vars => PtpInv'
  <2> SUFFICES ASSUME PtpInv, [Next]_vars PROVE PtpInv'
    OBVIOUS
  <2>1. ASSUME NEW type \in Types, NEW tlvs \in TLVLists, Transmit(type, tlvs)
        PROVE  PtpInv'
    BY <2>1, TransmitPtp
  <2>2. CASE Receive
    BY <2>2, ReceivePtp
  <2>3. CASE UNCHANGED <<part, ptpVars>>
    BY <2>3, PtpAlone
  <2>4. QED
    BY <2>1, <2>2, <2>3 DEF Next, Respond, Compute, Reencode, addFakeSecondZoneInfo,
                            MonthPasses, vars
<1>3. QED
  BY <1>1, <1>2, PTL DEF Spec

\* Every field of a packet is read from its own bytes, and every TLV once and
\* in order.
THEOREM PacketsDecoded == Spec => []DecodedIsSent
<1>1. PtpInv => DecodedIsSent
  BY SMTT(30) DEF PtpInv
<1>2. QED
  BY <1>1, PtpInvariance, PTL

\* No byte of an earlier packet goes out again from the worker's buffer, and
\* MessageLength is what was written.
THEOREM PacketsFresh == Spec => []NothingStale
<1>1. PtpInv => NothingStale
  <2> SUFFICES ASSUME PtpInv, received < sent
               PROVE  /\ MessageLength(packet) = Len(wire) - 2
                      /\ \A i \in 1 .. Len(wire) - 2 : wire[i][1] = packet.id
    BY DEF NothingStale
  <2>1. IsPacket(packet) /\ Carries(wire, packet)
    BY DEF PtpInv
  <2> DEFINE M == MarshalEnd(packet)
  <2>2. M \in Nat /\ MessageLength(packet) = M
    BY <2>1, LengthRight, Zenon
  <2>3. Buffer(wire, M + 2)
    BY <2>1, Zenon DEF Carries
  <2>4. \A i \in 1 .. M : wire[i][1] = packet.id
    BY <2>1, NoneStale, Zenon
  <2> HIDE DEF M
  <2>5. M + 2 \in Nat
    BY <2>2
  <2>6. Len(wire) = M + 2
    BY <2>3, <2>5, BufferFacts, Zenon
  <2>7. Len(wire) - 2 = M
    BY <2>2, <2>6
  <2>8. QED
    BY <2>2, <2>4, <2>7
<1>2. QED
  BY <1>1, PtpInvariance, PTL

=============================================================================
