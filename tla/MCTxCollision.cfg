SPECIFICATION Spec
CONSTANTS
  PtpLen = 6
  UdpLens <- MCUdpLens
  HeaderLen = 3
  MaxStarts = 2
  MaxUdp = 1
PROPERTIES
  DelayReqSent
