SPECIFICATION FairSpec
CONSTANTS
  Ports <- Aliased
  Order <- InOrder
  Identities <- Boards
  NoBoard = NoBoard
  Plugged <- Starts
  Configured <- None
  Callers = {c1}
  MaxDevices = 2
  MaxChanges = 2
  MaxFailures = 1
INVARIANTS
  OneWorkerPerPort
  ListedHaveOneWorker
PROPERTIES
  MigratesUnambiguously
  StatusConverges
CHECK_DEADLOCK FALSE
