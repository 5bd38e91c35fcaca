---------------------------- MODULE TimeTransfer ----------------------------
(***************************************************************************)
(* What the PTP client of src/ptp/simpleclient promises to its callback,   *)
(* without packets, sequence numbers or a network: it learns of complete   *)
(* exchanges in either direction, each with the time it was sent and the   *)
(* time it was received, and every result it reports is made of one        *)
(* exchange of each direction that is, at that moment, the one received    *)
(* last.  Once closed it reports nothing.                                  *)
(***************************************************************************)
EXTENDS Integers

CONSTANT Times   \* time stamps

Exchange == [send : Times, recv : Times]
NoReport == {}

VARIABLES
  syncs, delays,   \* complete exchanges, server to client and client to server
  report,          \* NoReport, or the singleton of the last result
  open

vars == <<syncs, delays, report, open>>

Last(S) == {x \in S : \A y \in S : y.recv <= x.recv}

Init ==
  /\ syncs = {} /\ delays = {}
  /\ report = NoReport
  /\ open = TRUE

\* A Sync message that is duplicated on its way gives its exchange a later
\* time of receipt.  What follows may fail and close the client.
LearnSync(x) ==
  /\ open
  /\ \E y \in SUBSET syncs : /\ \A z \in y : z.send = x.send /\ z.recv <= x.recv
                             /\ syncs' = (syncs \ y) \cup {x}
  /\ open' \in BOOLEAN
  /\ UNCHANGED <<delays, report>>

Report ==
  /\ open
  /\ \E x \in Exchange : delays' \in {delays, delays \cup {x}}
  /\ \E s \in Last(syncs), d \in Last(delays') :
       report' = {[sync |-> s, delay |-> d]}
  /\ UNCHANGED <<syncs, open>>

LearnDelay(x) ==
  /\ open
  /\ syncs = {}
  /\ delays' = delays \cup {x}
  /\ UNCHANGED <<syncs, report, open>>

Close ==
  /\ open
  /\ open' = FALSE
  /\ UNCHANGED <<syncs, delays, report>>

Next ==
  \/ \E x \in Exchange : LearnSync(x) \/ LearnDelay(x)
  \/ Report
  \/ Close

Spec == Init /\ [][Next]_vars

=============================================================================
