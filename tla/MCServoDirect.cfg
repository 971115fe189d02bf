SPECIFICATION Spec
CONSTANTS
  NS = 10
  IntMax = 21
  Paths <- MCPaths
  Starts <- MCStarts
  Instants <- MCInstants
  Lag = 2
  Hold = 1
  Errors <- MCErrors
  MaxRounds = 2
PROPERTIES
  DirectAdjustment
CHECK_DEADLOCK FALSE
