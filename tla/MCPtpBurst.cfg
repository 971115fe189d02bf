SPECIFICATION FairSystemSpec
CONSTANTS
  Frames <- MCFrames
  QDepth = 4
  SeqMod = 4
  MaxArrivals = 12
  MaxKeys = 1
  MaxSync = 2
  MaxNet = 2
  MaxFaults = 0
  MaxNoise = 0
  Paced = TRUE
  Spaced = FALSE
PROPERTIES
  QueueDrains
