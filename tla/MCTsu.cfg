SPECIFICATION Spec
CONSTANTS
  Depth = 2
  Lens <- MCLens
  MinGap = 8
  BusTime = 3
  MaxSkew = 1
  MaxFrames = 4
INVARIANTS
  TypeOK
  OwnStamp
  Paired
PROPERTIES
  KeepsPromise
CHECK_DEADLOCK FALSE
