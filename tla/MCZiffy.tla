------------------------------ MODULE MCZiffy ------------------------------
(***************************************************************************)
(* Two flows, the second one of a sweep or, on a shorter path, from another*)
(* port.  They differ in their last switch before the rack; one of those   *)
(* two is the transparent clock.                                           *)
(***************************************************************************)
EXTENDS Ziffy

MCTC == {"s2"}

Setting(ports, ips, max, type, path) ==
  [PortCount |-> ports, IPCount |-> ips, HopMax |-> max, MessageType |-> type,
   Path |-> path]

MCSettings ==
  {Setting(1, 1, 3, type, <<<<"s1", "s2">>, <<"s1", "s3">>>>) :
     type \in {"sync", "signaling"}}
  \cup {Setting(2, 0, 2, "sync", <<<<"s2">>, <<"s3">>>>)}

=============================================================================
