SPECIFICATION Spec
CONSTANTS
  Course = {c1}
  Student = {s1}
  Key = {k1}
  Request = {r1}
  Admin = {a1, a2}
  Capacity <- MCCapacity
  None = None
INVARIANTS
  SeatsInRange
