------------------------- MODULE MCSessionResources -------------------------
(* A small instance of SessionResources for TLC. *)
EXTENDS SessionResources

CONSTANTS i1, g1, g2

OneInput == {i1}
TwoStreamers == {g1, g2}
=============================================================================
