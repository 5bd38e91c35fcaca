---------------------------- MODULE ControlWords ----------------------------
(***************************************************************************)
(* src/ntp/control/packet.go: the packed words of NTP's control messages.  *)
(* Every field a Read function returns fits the bits it came from, so the  *)
(* code's "or" of shifted fields is their sum.                             *)
(***************************************************************************)
EXTENDS Integers

Bits(w, low, n) == (w \div 2 ^ low) % 2 ^ n

Bit(b, n) == IF b THEN 2 ^ n ELSE 0

\* Mutant of ReadSystemStatusWord: the clock source has only five bits.
ReadSystemNarrow(w) ==
  [LI |-> Bits(w, 14, 2), ClockSource |-> Bits(w, 8, 5),
   SystemEventCounter |-> Bits(w, 4, 4), SystemEventCode |-> Bits(w, 0, 4)]

ReadSystemStatusWord(w) ==
  [LI |-> Bits(w, 14, 2), ClockSource |-> Bits(w, 8, 6),
   SystemEventCounter |-> Bits(w, 4, 4), SystemEventCode |-> Bits(w, 0, 4)]

SystemWord(s) ==
  s.LI * 2 ^ 14 + s.ClockSource * 2 ^ 8 + s.SystemEventCounter * 2 ^ 4
    + s.SystemEventCode

ReadPeerStatus(b) ==
  [Configured |-> Bits(b, 4, 1) # 0, AuthOK |-> Bits(b, 3, 1) # 0,
   AuthEnabled |-> Bits(b, 2, 1) # 0, Reachable |-> Bits(b, 1, 1) # 0,
   Broadcast |-> Bits(b, 0, 1) # 0]

PeerByte(p) ==
  Bit(p.Configured, 4) + Bit(p.AuthOK, 3) + Bit(p.AuthEnabled, 2)
    + Bit(p.Reachable, 1) + Bit(p.Broadcast, 0)

ReadPeerStatusWord(w) ==
  [PeerStatus |-> ReadPeerStatus(Bits(w, 11, 5)), PeerSelection |-> Bits(w, 8, 3),
   PeerEventCounter |-> Bits(w, 4, 4), PeerEventCode |-> Bits(w, 0, 4)]

PeerWord(p) ==
  PeerByte(p.PeerStatus) * 2 ^ 11 + p.PeerSelection * 2 ^ 8
    + p.PeerEventCounter * 2 ^ 4 + p.PeerEventCode

\* The getters of NTPControlMsgHead on the high byte VnMode and the low REMOp.
ReadHead(w) ==
  [version |-> Bits(w, 11, 3), mode |-> Bits(w, 8, 3), response |-> Bits(w, 7, 1) # 0,
   err |-> Bits(w, 6, 1) # 0, more |-> Bits(w, 5, 1) # 0, op |-> Bits(w, 0, 5)]

MakeVnMode(version, mode) == version * 2 ^ 3 + mode

MakeREMOp(response, err, more, op) ==
  Bit(response, 7) + Bit(err, 6) + Bit(more, 5) + op

=============================================================================
