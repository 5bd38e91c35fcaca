--------------------------- MODULE MCNTPResponder ---------------------------
(* Instances of NTPResponder for TLC. *)
EXTENDS NTPResponder

\* A version 4 client packet with the alarm bits, and a version 3 packet in
\* server mode.
MCSettings == {227, 28}

=============================================================================
