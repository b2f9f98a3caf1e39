----------------------------- MODULE MCBridges -----------------------------
(* A small instance of Bridges for TLC. *)
EXTENDS Bridges

CONSTANTS s1, s2

TwoStarters == {s1, s2}
=============================================================================
