SPECIFICATION FairSpec
CONSTANTS
  Course = {c1}
  Student = {s1}
  Key = {k1}
  Request = {r1, r2}
  Admin = {a1}
  Capacity <- MCCapacity
  None = None
INVARIANTS
  SeatsInRange
PROPERTIES
  RequestsAnswered
  AdminsAnswered
