SPECIFICATION Spec
CONSTANTS
  Ports <- Plain
  Order <- InOrder
  Identities <- Clones
  NoBoard = NoBoard
  Plugged <- BothClones
  Configured <- Plain
  Callers = {c1}
  MaxDevices = 2
  MaxChanges = 2
  MaxFailures = 0
INVARIANTS
  OneWorkerPerPort
CHECK_DEADLOCK FALSE
