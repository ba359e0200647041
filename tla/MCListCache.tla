---------------------------- MODULE MCListCache ----------------------------
(* Small instances of ListCache for TLC.                                   *)
EXTENDS ListCache, TLC

(* Pages and readers are interchangeable; writes within their kind.        *)
Symmetry == Permutations(Page) \cup Permutations(Reader)
              \cup Permutations(ServiceWrite) \cup Permutations(EnrollWrite)
=============================================================================
