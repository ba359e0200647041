SPECIFICATION FairDeployment
CONSTANTS
  Slot = {s1, s2}
  Key = {k1}
  Request = {r1, r2}
  None = None
  Backend = {b1}
  Publisher = {w1}
  Reporter = {p1}
INVARIANTS
  DeploymentTypeOK
  OneEventPerRecord
  AnswersTrue
  SchemaIsStamped
  TablesInPlace
PROPERTIES
  RequestsAnswered
