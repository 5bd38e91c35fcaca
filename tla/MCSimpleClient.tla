--------------------------- MODULE MCSimpleClient ---------------------------
(* Instances of SimpleClient for TLC. *)
EXTENDS SimpleClient

=============================================================================
