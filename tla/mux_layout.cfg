CONSTANTS
  MaxTick = 15
  OverflowChecks = TRUE
  MaxStreams = 3
  MaxTags = 2
  MaxHeader = 2
  MaxFrame = 20
  ChecksumLen = 1
  FileIdLen = 1
  PacketHead = 1
  FieldsLen = 2
  FrameHead = 2
  Tears = {}
  MaxDistance = 19
  MaxPacket = 2
  MaxWritten = 3
  Stamps <- MCManyStamps
  DataSizes = {0, 12, 14}
  Openings <- MCManyOpenings
SPECIFICATION MuxerSpec
INVARIANTS
  FramesNearSyncpoint
  BackPointersLead
  SyncpointsTellTheTime
CHECK_DEADLOCK FALSE
