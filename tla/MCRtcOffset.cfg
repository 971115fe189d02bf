SPECIFICATION Spec
CONSTANTS
  Second = 10
  Word = 14
  F = 3
  MaxInc = 2
  MaxSec = 3
  Periods <- MCPeriods
  Offsets <- MCOffsets
  Loads <- MCLoads
  MinGap = 4
  MaxOps = 2
INVARIANTS
  OffsetOnce
CHECK_DEADLOCK FALSE
