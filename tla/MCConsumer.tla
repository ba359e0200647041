----------------------------- MODULE MCConsumer -----------------------------
(* Small instances of Consumer for TLC.                                    *)
EXTENDS Consumer, TLC

(* Messages and processes are interchangeable.                             *)
Symmetry == Permutations(Message) \cup Permutations(Process)
=============================================================================
