----------------------------- MODULE CheckResult -----------------------------
(***************************************************************************)
(* What ntpcheck and ptpcheck make of the answers they have collected: the *)
(* peers of src/cmd/ntpcheck/checker, the statistics derived from them,    *)
(* and the verdicts of the diag commands.  Everything here is a function   *)
(* of the collected result, a value of the session's variable result.     *)
(*                                                                         *)
(* A source, as a daemon describes it, is [addr, state, off]: its address, *)
(* its selection state and its offset in ms.  A peer is what the checker   *)
(* keeps of it.  peers is a function from the index (chrony) or the        *)
(* association (ntpd) of a peer to the peer.                               *)
(***************************************************************************)
EXTENDS Integers, FiniteSets, FiniteSetsExt, Functions

CONSTANT RefClocks   \* addresses of reference clocks (chrony.SourceModeRef)

SourceStates == {"sync", "unreach", "falseticker", "jittery", "candidate",
                 "outlier"}
Selections == {"reject", "falsetick", "excess", "outlier", "candidate",
               "backup", "sys", "pps"}
Statuses == {"ok", "warn", "fail", "critical"}

NoDetail == {}   \* no ntpdata reply

chronyToPeerSelection ==
  [sync |-> "sys", unreach |-> "reject", falseticker |-> "falsetick",
   jittery |-> "reject", candidate |-> "candidate", outlier |-> "outlier"]

\* Selection is sourcedata's; the offset is ntpdata's when there is one, with
\* the sign the other way round.  detail: the address ntpdata was asked about.
NewPeerFromChrony(s, ntp) ==
  [addr   |-> s.addr,
   sel    |-> chronyToPeerSelection[s.state],
   off    |-> IF ntp = NoDetail THEN s.off
              ELSE (CHOOSE n \in ntp : TRUE).off,
   detail |-> {n.addr : n \in ntp},
   whole  |-> TRUE]

\* From the head of the last datagram of a readvars answer, and the numbers
\* of the parts that arrived.  A variable that is missing reads as zero.
NewPeerFromNTP(s, parts, all) ==
  [addr   |-> s.addr,
   sel    |-> chronyToPeerSelection[s.state],
   off    |-> IF 2 \in parts THEN s.off ELSE 0,
   detail |-> NoDetail,
   whole  |-> parts = all]

\* sanityCheckPeerVars, sanityCheckSysVars: stratum (and the polls) are there.
Sane(parts) == 1 \in parts

FindSysPeer(peers) == {i \in DOMAIN peers : peers[i].sel = "sys"}

FindGoodPeers(peers) ==
  {i \in DOMAIN peers : peers[i].sel \in {"candidate", "backup", "sys", "pps"}}

(***************************************************************************)
(* NewNTPStats.  Without a system peer it averages over the good peers but *)
(* divides by the number of all peers; the best poll and stratum start at  *)
(* 0 and are only ever lowered when they are not 0, so they stay 0.        *)
(***************************************************************************)
NoStats == {}

NewNTPStats(peers) ==
  IF FindSysPeer(peers) # {}
    THEN {[off |-> peers[i].off, total |-> 1, stratum |-> "peer"] :
             i \in FindSysPeer(peers)}
    ELSE IF FindGoodPeers(peers) = {} THEN NoStats
    ELSE {[off |-> MapThenSumSet(LAMBDA i : peers[i].off, FindGoodPeers(peers)),
           total |-> Cardinality(DOMAIN peers), stratum |-> "zero"]}

\* Keyed by host name: peers of one name leave one entry, whichever is last.
NewNTPPeerStats(peers) == {peers[i].addr : i \in DOMAIN peers}

(***************************************************************************)
(* The diagnosers.  The first CRITICAL one ends the program with exit      *)
(* status 1; ptpcheck has none that is CRITICAL.                           *)
(***************************************************************************)
Abs(v) == IF v < 0 THEN -v ELSE v

checkAgainstThreshold(v, warn, fail, failOnZero) ==
  CASE failOnZero /\ v = 0 -> "fail"
    [] ~(failOnZero /\ v = 0) /\ Abs(v) > fail -> "fail"
    [] ~(failOnZero /\ v = 0) /\ Abs(v) \in warn + 1 .. fail -> "warn"
    [] OTHER -> "ok"

\* Mutant of ntpDiagnose: an error of FindSysPeer is not CRITICAL.
ntpDiagnoseOn(peers) ==
  {"ok"} \cup {checkAgainstThreshold(peers[i].off, 1, 1000, FALSE) :
                 i \in FindSysPeer(peers)}

\* checkSync, checkOffset and checkJitter are CRITICAL without a system peer;
\* checkPeersFlash and checkPeersReach only ever warn.
ntpDiagnose(peers) ==
  IF FindSysPeer(peers) = {} THEN {"critical"}
  ELSE {checkAgainstThreshold(peers[i].off, 1, 1000, FALSE) :
          i \in FindSysPeer(peers)}

\* result.gm: grandmaster present; result.ingress: the time of the last Sync
\* is known.
ptpDiagnose(result) ==
  {IF result.gm THEN "ok" ELSE "fail",
   IF result.ingress THEN "ok" ELSE "warn"}

ExitStatus(statuses) == IF "critical" \in statuses THEN 1 ELSE 0

=============================================================================
