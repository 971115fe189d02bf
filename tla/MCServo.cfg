SPECIFICATION Spec
CONSTANTS
  NS = 10
  IntMax = 21
  Paths <- MCPaths
  Starts <- MCStarts
  Instants <- MCInstants
  Lag = 2
  Hold = 4
  Errors <- MCErrors
  MaxRounds = 3
INVARIANTS
  ExactMeasurement
  SignsAgree
  ClockReadable
  NoOverflow
PROPERTIES
  SetOnce
CHECK_DEADLOCK FALSE
