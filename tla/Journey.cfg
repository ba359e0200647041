SPECIFICATION FairJourney
CONSTANTS
  Event <- MCEvent
  Relay = {w1}
  Limit = 1
  MaxCrashes = 1
  Service = {"notification", "reporting", "lambda"}
  Process = {c1}
  MaxReceive = 1
  BatchSize = 2
  Attempts = 1
  FailMax = 1
  MaxResent = 0
  None = None
  Key = {k1}
  Request = {r1}
PROPERTIES
  RecordsAreDelivered
  RecordedIsServed
