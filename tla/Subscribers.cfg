SPECIFICATION Spec
CONSTANTS
  Service = {"notification", "reporting", "lambda"}
  Message = {m1, m2}
  Process = {c1, c2}
  MaxReceive = 2
  BatchSize = 2
  Attempts = 2
  FailMax = 2
  MaxResent = 1
  None = None
SYMMETRY Symmetry
INVARIANTS
  TypeOK
PROPERTIES
  ImplementsDelivery
