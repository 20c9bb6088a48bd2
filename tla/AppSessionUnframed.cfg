SPECIFICATION Spec
CONSTANTS
  ControlCap = 1
  ConsoleCap = 1
  RequestCap = 1
  InputCap = 1
  MaxRequest = 1
  MaxRead = 2
  Sessions = 1
  Outputs = 1
  Inputs = 0
  CutsMade = 0
  Faults = 1
  Bounds <- MCBounds
INVARIANTS
  UnframedEndsSession
CHECK_DEADLOCK FALSE
