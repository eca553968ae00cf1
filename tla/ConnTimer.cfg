CONSTANTS
  OpQueueSize = 5
  Compare0 = 2
  Compare1 = 4
  MaxLatency = 1
SPECIFICATION Spec
INVARIANTS
  TypeOK
  TimerHasLink
  NoInterruptStorm
PROPERTIES
  SurvivesConnections
