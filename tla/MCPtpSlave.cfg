SPECIFICATION Spec
CONSTANTS
  QDepth = 4
  SeqMod = 2
  Frames <- MCFrames
  MaxArrivals = 5
  MaxKeys = 2
INVARIANTS
  TypeOK
  ReadNonEmpty
  DelayReqPaired
  CleanExchange
PROPERTIES
  HandledOnce
