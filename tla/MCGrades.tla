------------------------------ MODULE MCGrades ------------------------------
(* Small instances of Grades for TLC.                                      *)
EXTENDS Grades, TLC

(* One score on each side of a letter's boundary, and one out of range.    *)
CONSTANTS t1, t2, t3, t4, t5

Scores == t1 :> 59 @@ t2 :> 60 @@ t3 :> 89 @@ t4 :> 90 @@ t5 :> 101
=============================================================================
