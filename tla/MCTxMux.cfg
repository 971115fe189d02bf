SPECIFICATION Spec
CONSTANTS
  PtpLen = 6
  UdpLens <- MCUdpLens
  HeaderLen = 4
  MaxStarts = 3
  MaxUdp = 3
INVARIANTS
  TypeOK
  OnePerWrite
PROPERTIES
  WholeFrames
  FramesLeave
