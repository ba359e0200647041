------------------------------ MODULE MCPeople ------------------------------
(* Small instances of People for TLC.                                      *)
EXTENDS People, TLC

(* People, emails and requests are interchangeable.                        *)
Symmetry == Permutations(Person) \cup Permutations(Email) \cup Permutations(Request)
=============================================================================
