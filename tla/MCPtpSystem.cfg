SPECIFICATION FairSystemSpec
CONSTANTS
  Frames <- MCFrames
  QDepth = 4
  SeqMod = 4
  MaxArrivals = 12
  MaxKeys = 1
  MaxSync = 3
  MaxNet = 2
  MaxFaults = 1
  MaxNoise = 1
  Paced = TRUE
  Spaced = TRUE
PROPERTIES
  MainLoopTurns
  MeasuresForGood
