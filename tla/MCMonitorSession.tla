-------------------------- MODULE MCMonitorSession --------------------------
(***************************************************************************)
(* Instance of MonitorSession for TLC: two addresses, one of them possibly *)
(* a reference clock.                                                      *)
(***************************************************************************)
EXTENDS MonitorSession

MCStates == {"sync", "candidate", "unreach"}
MCOffs == {2}

=============================================================================
