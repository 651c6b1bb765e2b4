CONSTANTS
  MaxTick = 15
  OverflowChecks = TRUE
  MaxStreams = 2
  MaxTags = 2
  MaxHeader = 2
  MaxFrame = 20
  ChecksumLen = 1
  FileIdLen = 2
  PacketHead = 1
  FieldsLen = 2
  FrameHead = 2
  Tears = {0, 1, 3, 5}
  MaxDistance = 17
  MaxPacket = 2
  MaxWritten = 2
  Stamps <- MCFailingStamps
  DataSizes = {0, 17}
  Openings <- MCFailingOpenings
  Chunks = {17}
SPECIFICATION Spec
INVARIANTS
  FramesNearSyncpoint
PROPERTIES
  HeadersArrive
  EverythingArrives
