SPECIFICATION Spec
CONSTANTS
  Course = {c1, c2}
  Student = {s1}
  Key = {k1}
  Request = {r1, r2}
  Admin = {a1}
  Capacity <- MCUnit
  None = None
SYMMETRY Symmetry
INVARIANTS
  AnswersTrue
  NoDeadlock
PROPERTIES
  LedgerSpec
