SPECIFICATION Spec
CONSTANTS
  ControlCap = 1
  ConsoleCap = 1
  RequestCap = 1
  InputCap = 1
  MaxRequest = 2
  MaxRead = 2
  Sessions = 2
  Outputs = 0
  Inputs = 1
  CutsMade = 0
  Faults = 1
  Bounds <- MCBounds
INVARIANTS
  AnswersAreOwn
  NothingRunsTwice
  SessionIsCurrent
CHECK_DEADLOCK FALSE
