---------------------------- MODULE MCEnrollment ----------------------------
(* Small instances of Enrollment for TLC.                                  *)
EXTENDS Enrollment, TLC

MCCapacity == {1, 2}
MCUnit == {1}

(* Students, and the slots of each kind, are interchangeable.              *)
Symmetry == Permutations(Student) \cup Permutations(Request) \cup Permutations(Course)
              \cup Permutations(Admin)
=============================================================================
