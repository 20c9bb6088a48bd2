SPECIFICATION Spec
CONSTANTS
  d = d
  c1 = c1
  k1 = k1
  k2 = k2
  k3 = k3
  b1 = b1
  b2 = b2
  NoBaud = NoBaud
  NoKey = NoKey
  NoRequest = NoRequest
  Dev = d
  Devices <- MCDevices
  Callers <- MCCallers
  Keys <- MCKeys
  Bauds <- MCBauds
  Requests <- MCRequests
  Retain = 2
  QueueCap = 2
  MaxTicket = 3
  Discovering = FALSE
  MaxFrames = 2
INVARIANTS
  NothingSentAfterTheEnd
  SessionIsAnnounced
  HardwareOwnsPort
PROPERTIES
  ImplementsService
CHECK_DEADLOCK FALSE
