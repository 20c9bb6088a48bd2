SPECIFICATION Spec
CONSTANTS
  d1 = d1
  d2 = d2
  c1 = c1
  c2 = c2
  k1 = k1
  k2 = k2
  k3 = k3
  NoKey = NoKey
  NoRequest = NoRequest
  Devices <- MCDevices
  Callers <- MCCallers
  Keys <- MCKeys
  Requests <- MCRequests
  Retain = 2
  QueueCap = 2
  MaxTicket = 3
SYMMETRY Symmetry
INVARIANTS
  TypeOK
  OneOperationPerKey
  ReplayIsFaithful
  LanesMatchOperations
  JobsAreAccountedFor
  QueueHasRoom
  ArtifactsMatchFiles
PROPERTIES
  OperationsAreFinal
  OnlyLateJobsAreLost
CHECK_DEADLOCK FALSE
