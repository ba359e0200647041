------------------------------- MODULE MCRelay -------------------------------
(* Small instances of Relay for TLC.                                       *)
EXTENDS Relay, TLC

MCEvent == 1 .. 3

Symmetry == Permutations(Relay)
=============================================================================
