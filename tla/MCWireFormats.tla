--------------------------- MODULE MCWireFormats ----------------------------
(* Instances of WireFormats for TLC. *)
EXTENDS WireFormats

MCExchanges ==
  [t : 0 .. 24, theta : {-7, 0, 3}, d1 : {0, 1, 4}, proc : {0, 2}, d2 : {0, 3},
   lag : {0, 1}]

MCHistory == {<<>>, <<50>>, <<50, 80>>}

MCWords == 0 .. 2 ^ 16 - 1

=============================================================================
