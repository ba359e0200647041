SPECIFICATION FairSpec
CONSTANTS
  t1 = t1
  t2 = t2
  t3 = t3
  t4 = t4
  t5 = t5
  Submission = {t1, t2, t3, t4, t5}
  Score <- Scores
  MaxRetries = 2
  None = None
INVARIANTS
  TypeOK
  EveryWriteKept
  ConflictIsEarned
PROPERTIES
  ImplementsGradeBook
  SubmissionsAnswered
