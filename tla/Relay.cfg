SPECIFICATION FairSpec
CONSTANTS
  Event <- MCEvent
  Relay = {w1, w2}
  Limit = 2
  MaxCrashes = 2
INVARIANTS
  TypeOK
PROPERTIES
  ImplementsDelivery
  PendingSettled
