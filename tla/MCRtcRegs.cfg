SPECIFICATION Spec
CONSTANTS
  Second = 10
  Word = 14
  F = 3
  MaxInc = 2
  MaxSec = 4
  Periods <- MCPeriods
  Offsets <- MCOffsets
  Loads <- MCLoads
  MinGap = 4
  MaxOps = 3
INVARIANTS
  TimeValid
  FreshTime
  LoadedOnce
PROPERTIES
  ExactStep
  NoDrift
CHECK_DEADLOCK FALSE
