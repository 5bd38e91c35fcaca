------------------------ MODULE MCSubscriptionServer ------------------------
(* Instances of SubscriptionServer for TLC. *)
EXTENDS SubscriptionServer

CONSTANTS sync1, delay1, w1, r1, r2

MCWorkerOf == [k \in Keys |-> w1]

=============================================================================
