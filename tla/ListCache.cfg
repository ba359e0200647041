SPECIFICATION FairSpec
CONSTANTS
  Page = {p1, p2}
  Reader = {r1, r2}
  ServiceWrite = {w1}
  EnrollWrite = {e1}
  None = None
INVARIANTS
  TypeOK
  StaleHasCause
PROPERTIES
  FreshAgain
