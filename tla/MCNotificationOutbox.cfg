SPECIFICATION Spec
CONSTANTS
  Channels = {1, 2}
  Workers = {1}
  MaxEvents = 2
  Routes <- MCRoutes
  Alerts = {2}
  BusSize = 1
  QueueSize = 1
  Limit = 2
  Rounds = 2
  MaxFaults = 1
INVARIANT NotSentAgain
INVARIANT InOrder
INVARIANT Accounted
PROPERTY Drains
CHECK_DEADLOCK FALSE
