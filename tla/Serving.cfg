SPECIFICATION Spec
CONSTANTS
  User = {u1}
  Allowed = {u1}
  Desk = {d1}
  AccessMinutes = 1
  RefreshMinutes = 2
  Patience = 1
  EndOfTime = 3
  Request = {r1}
  Replica = {b1, b2}
  MaxFails = 1
  None = None
SYMMETRY Symmetry
INVARIANTS
  TypeOK
  CutOff
  NotRepeated
  RefusalIsTrue
  MetricsSeeAnswers
