CONSTANTS
  MaxTick = 15
  OverflowChecks = FALSE
  MaxStreams = 2
  MaxTags = 2
  MaxHeader = 2
  MaxFrame = 9
  ChecksumLen = 1
  FileIdLen = 1
  PacketHead = 1
  FieldsLen = 2
  FrameHead = 2
  Tears = {}
  MaxDistance = 8
  MaxPacket = 2
  MaxWritten = 5
  Stamps = {0, 1}
  DataSizes = {1}
  Openings = {}
  Sources <- MCSources
  RowsFor <- MCAnyRowsFor
  Trailings <- MCTrailings
  MaxBuffered = 30
  MaxAnnotation = 1
  MaxUnclaimed = 1
SPECIFICATION Spec
INVARIANTS
  ToldApart
CHECK_DEADLOCK FALSE
