CONSTANTS
  MaxTick = 15
  OverflowChecks = TRUE
  MaxStreams = 2
  MaxTags = 2
  MaxHeader = 2
  MaxFrame = 20
  ChecksumLen = 1
  FileIdLen = 1
  PacketHead = 1
  FieldsLen = 2
  FrameHead = 2
  Tears = {}
  MaxDistance = 17
  MaxPacket = 2
  MaxWritten = 3
  Stamps <- MCStamps
  DataSizes = {0, 17}
  Openings <- MCOpenings
  Chunks = {17}
SPECIFICATION Spec
INVARIANTS
  FramesAsWritten
  NothingRefused
  RatesKnownAtFrames
