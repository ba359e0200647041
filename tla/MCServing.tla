----------------------------- MODULE MCServing -----------------------------
(* Small instances of Serving for TLC.                                     *)
EXTENDS Serving, TLC

Symmetry == Permutations(Replica)
=============================================================================
