--------------------------- MODULE MCH264Encoder ---------------------------
(* A small instance of H264Encoder for TLC. *)
EXTENDS H264Encoder

CONSTANTS c1, c2

TwoCallers == {c1, c2}
=============================================================================
