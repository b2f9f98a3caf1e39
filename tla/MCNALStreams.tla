---------------------------- MODULE MCNALStreams ----------------------------
(* A small instance of NALStreams for TLC. *)
EXTENDS NALStreams

ThreeBytes == {0, 1, 2}
=============================================================================
