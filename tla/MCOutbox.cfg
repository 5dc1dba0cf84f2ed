\* One ambiguous job and one other alert, two drainers, two attempts.
CONSTANTS
  Jobs = {j1}
  Events = {e1}
  Drainers = {loop, thread}
  Loop = loop
  MaxRetries = 2
SPECIFICATION FairSpec
INVARIANTS
  TypeOK
  DeliveredWasReceived
  GivesUpOnlyAfterRetries
  OverrunIsBounded
PROPERTIES
  SettledStaysSettled
  AlertsSettle
  ImplementsDelivery
