CONSTANTS
  MaxTick = 15
  OverflowChecks = TRUE
  MaxStreams = 2
  MaxTags = 2
  MaxHeader = 2
  MaxFrame = 4
  ChecksumLen = 1
  FileIdLen = 1
  MaxBuffered = 30
  CompactAt = 30
  CeilingChoices = {}
  Wires <- MCWires
  Chunks <- MCChunks
SPECIFICATION Spec
INVARIANTS
  EventsInOrder
  ReorderAsDeclared
  TagsReplaced
PROPERTIES
  SyncpointSetsOneInstant
  LowBitsLiftToNearest
