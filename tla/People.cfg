SPECIFICATION Spec
CONSTANTS
  Person = {p1, p2}
  Email = {e1, e2, e3}
  Request = {r1, r2, r3}
  Unborn = Unborn
  Gone = Gone
  None = None
SYMMETRY Symmetry
INVARIANTS
  TypeOK
  EmailsUnique
PROPERTIES
  ErrorIsRaced
  PutIsStored
  GoneForGood
