CONSTANTS
  MaxTick = 15
  OverflowChecks = TRUE
  MaxStreams = 2
  MaxTags = 2
  MaxHeader = 3
  MaxFrame = 4
  ChecksumLen = 1
  FileIdLen = 2
  MaxBuffered = 3
  CompactAt = 6
  CeilingChoices = {1, 3}
  Wires <- MCWires
  Chunks <- MCChunks
SPECIFICATION Spec
INVARIANTS
  TypeOK
  EventsBetweenUnits
  BufferHoldsNextBytes
  NeverOverfull
PROPERTIES
  AllocatesWithinCeiling
  AsksOnlyWhenShort
  NoMoreAfterFinish
  ReadsTheWire
  FinishEnds
