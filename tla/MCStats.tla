------------------------------- MODULE MCStats -------------------------------
(* Instances of Stats for TLC. *)
EXTENDS Stats

CONSTANTS subs, rx, tx, queue

MCMapKeys == << {subs}, {rx, tx}, {queue} >>

=============================================================================
