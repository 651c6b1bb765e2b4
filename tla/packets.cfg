CONSTANTS
  GroupBits = 3
  WordBits = 11
  MaxVBytes = 4
  MaxVb = 6
  CrcBytes = 2
  Polynomial = 7
  N = 3
  MaxStreams = 3
  MaxBases = 2
  MaxElisions = 3
  MaxElision = 2
  MaxStated = 9
  MaxShift = 6
  MaxDelay = 1
  MaxSide = 100
  Named <- MCNamed
  NotText = 7
  MaxTold = 3
  Threshold = 60
  MaxHeader = 55
  MaxReserved = 2
  MaxFrame = 900
  Declared <- MCDeclared
  Packets <- MCPackets
SPECIFICATION Spec
INVARIANTS
  ReadAsPut
  AnswerStands
CHECK_DEADLOCK FALSE
