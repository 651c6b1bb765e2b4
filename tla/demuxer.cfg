CONSTANTS
  MaxTick = 15
  OverflowChecks = FALSE
  MaxStreams = 3
  MaxTags = 2
  MaxHeader = 4
  MaxFrame = 9
  ChecksumLen = 1
  FileIdLen = 1
  MaxBuffered = 30
  MaxAnnotation = 1
  MaxUnclaimed = 2
  MaxFailures = 1
  Inputs <- MCInputs
SPECIFICATION Spec
CHECK_DEADLOCK FALSE
INVARIANTS
  PacketsInOrder
  FramingAgrees
  UnderOneHeader
  OneSetOfHeaders
  RowsKept
  TrailingKept
PROPERTIES
  CallReturns
