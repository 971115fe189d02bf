SPECIFICATION Spec
CONSTANTS
  ComBytes = 4
  TmBytes = 2
  CntMod = 8
  Depth = 8
  HdrDepth = 2
  Typing = 4
  MaxCalls = 2
  Words = 2
  Bits = 2
  Gap = 7
  TdDelay = 2
  Fns = 4
  Sec = 20
  Late = 14
  OffMod = 32
  RelMod = 64
  SecMod = 16
  Rates = {3, 5}
  Drifts <- MCDrifts
  Days <- MCDays
  Rels <- MCRels
  MaxSets = 1
  MaxEdge = 90
  Lens = {1, 3}
  MaxFrames = 4
  MaxResets = 1
  Links = {"xgmii32", "xgmii64", "myhdl", "cocotb"}
  FrameLens <- MCFrameLens
  ErrorAt = {0, 3, 10}
  Ifg = 12
  Corrupts = {TRUE, FALSE}
  Phys <- MCPhys
  Preambles = {2}
  Payloads <- MCPayloads
  Gap12 = 2
  Macs <- MCMacs
  Ips <- MCIps
  Tos <- MCTos
  Frags <- MCFrags
  Ttls <- MCTtls
  Datas <- MCDatas
  Words16 = {46786, 65535}
  MinPayload = 46
  MaxEdits = 2
  Devices = {1, 2}
  Slow = {2}
  ByteBits = 3
  PtrBytes = 1
  Size = 9
  Writes <- MCI2cWrites
  Reads <- MCI2cReads
  MaxCommands = 3
  BusBytes = 2
  RamSize = 4
  AxilWrites <- MCAxilWrites
  AxilReads <- MCAxilReads
  MaxOps = 3
  Shapes <- MCShapes
  WbLatencies = {0, 2}
  WbSize = 8
  WbWrites <- MCWbWrites
  WbReads <- MCWbReads
  MaxWbCalls = 3
INVARIANTS
  TssTypeOK
  SinkFollows
  AlternateRight
  OwnPayload
  IdleMeansTaken
  FramesArrive
  MeanGap
  FrameAsSent
  SurvivesWire
  SumsVerify
  MemoryAsCommanded
  RamAsCommanded
  WbAsCommanded
PROPERTIES
  WholeCommands
  CommandsLeave
CHECK_DEADLOCK FALSE
