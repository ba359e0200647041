------------------------------ MODULE GradeBook ------------------------------
(***************************************************************************)
(* What POST /grades promises for one (student, course) pair: a versioned  *)
(* register that every submission writes in one step, at most once.  A     *)
(* submission is told "created" only if it wrote, and refused only if it   *)
(* did not and never will; one that gets an error may have done either.    *)
(***************************************************************************)
EXTENDS Integers

CONSTANTS Submission, Asked, None

VARIABLES
  version,   \* of the stored grade, -1 while there is none
  stored,    \* the grade, or None
  outcome    \* of a submission: "open", "written", "created", "refused", "error"

book == <<version, stored, outcome>>

Init ==
  /\ version = -1
  /\ stored = None
  /\ outcome = [r \in Submission |-> "open"]

Goes(r, from, to) ==
  /\ outcome[r] \in from
  /\ outcome' = [outcome EXCEPT ![r] = to]

Write(r) ==
  /\ Goes(r, {"open"}, "written")
  /\ version' = version + 1
  /\ stored' = Asked[r]

Answer(r) ==
  /\ \/ Goes(r, {"written"}, "created")
     \/ Goes(r, {"open"}, "refused")
     \/ Goes(r, {"open", "written"}, "error")
  /\ UNCHANGED <<version, stored>>

Next == \E r \in Submission : Write(r) \/ Answer(r)

Spec == Init /\ [][Next]_book
=============================================================================
