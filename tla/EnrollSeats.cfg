SPECIFICATION Spec
CONSTANTS
  Course = {c1}
  Student = {s1, s2}
  Key = {}
  Request = {r1, r2}
  Admin = {a1, a2}
  Capacity <- MCCapacity
  None = None
SYMMETRY Symmetry
INVARIANTS
  TypeOK
  LocksHeld
  SeatsConserved
