------------------------------ MODULE NTPTime -------------------------------
(***************************************************************************)
(* src/ntp/protocol/ntp.go: NTP's 64-bit time stamps and what ntpdate of   *)
(* ntpcheck computes from four of them.  Time is counted in ticks          *)
(* (nanoseconds in the code).                                              *)
(***************************************************************************)
EXTENDS Integers

CONSTANTS
  TPS,        \* ticks per second (10^9)
  SecBits,    \* bits of the seconds (32)
  FracBits,   \* bits of the fraction (32)
  Gap         \* seconds from NTP's epoch to Unix's (2208988800)

ASSUME TimeAssumption ==
  /\ TPS \in Nat \ {0} /\ SecBits \in Nat /\ FracBits \in Nat /\ Gap \in Nat
  /\ 2 ^ SecBits \in Nat \ {0} /\ TPS <= 2 ^ FracBits /\ 2 ^ FracBits \in Nat

Abs(x) == IF x < 0 THEN -x ELSE x

Time(t) ==
  LET nsec == t + Gap * TPS
      sec == nsec \div TPS
  IN  [sec |-> sec % 2 ^ SecBits,
       frac |-> (((nsec - sec * TPS) * 2 ^ FracBits) \div TPS) % 2 ^ FracBits]

Unix(s) == (s.sec - Gap) * TPS + (s.frac * TPS) \div 2 ^ FracBits

\* The number of times the seconds have wrapped around at t.
Era(t) == ((t + Gap * TPS) \div TPS) \div 2 ^ SecBits

\* Mutant of AvgNetworkDelay: the time both ways.
RoundTrip(c1, s2, s3, c4) == Abs((s2 - c1) + (c4 - s3))

AvgNetworkDelay(c1, s2, s3, c4) == Abs((s2 - c1) + (c4 - s3)) \div 2

CurrentRealTime(s3, delay) == s3 + delay

CalculateOffset(real, local) == real - local

\* One turn of ntpDate's loop.
ntpDate(c1, rx, tx, c4, now) ==
  CalculateOffset(
    CurrentRealTime(Unix(tx), AvgNetworkDelay(c1, Unix(rx), Unix(tx), c4)), now)

=============================================================================
