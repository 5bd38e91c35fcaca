------------------------------ MODULE MCCalnex ------------------------------
(***************************************************************************)
(* Two operators; two configurations that put different probes on one of   *)
(* two channels.                                                           *)
(***************************************************************************)
EXTENDS Calnex, TLC

MC(p, t) == [probe |-> p, target |-> t]
MCConfigs == {"1" :> MC("ptp", "t1"), ("1" :> MC("ntp", "t2")) @@ ("2" :> MC("ptp", "t1"))}

=============================================================================
