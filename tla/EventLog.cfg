SPECIFICATION FairSpec
CONSTANTS
  r1 = r1
  Readers <- MCReaders
  Sizes <- MCSizes
  MaxEvents = 2
  MaxBytes = 3
  MaxSeq = 4
  MaxEpoch = 2
INVARIANTS
  RingFits
  HeardInOrder
  NoLostWakeup
  WaitIsExact
PROPERTIES
  RequestsEnd
  StreamsFollow
CHECK_DEADLOCK FALSE
