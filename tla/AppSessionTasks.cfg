SPECIFICATION FairSpec
CONSTANTS
  ControlCap = 1
  ConsoleCap = 1
  RequestCap = 1
  InputCap = 1
  MaxRequest = 1
  MaxRead = 2
  Sessions = 2
  Outputs = 1
  Inputs = 0
  CutsMade = 1
  Faults = 0
  Bounds <- MCBounds
INVARIANTS
  ConsoleKeepsSession
  NoFrameStranded
PROPERTIES
  RepliesArrive
CHECK_DEADLOCK FALSE
