---------------------------- MODULE MCSendWorker ----------------------------
(* Instances of SendWorker for TLC. *)
EXTENDS SendWorker

CONSTANTS s1, s2, a1, d1, d2, h1, h2

=============================================================================
