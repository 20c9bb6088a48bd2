SPECIFICATION FairSpec
CONSTANTS
  Newline = "newline"
  MaxLine = 2
  Commands <- MCCommands
  MaxInput = 3
  Exit = "exit"
  ReadSize = 2
  ChannelCap = 1
  MaxWrite = 1
  OutputReads <- MCReads
  Pattern <- MCPattern
  Script <- MCScript
  Chunks = 2
  MaxFaults = 1
INVARIANTS
  RunsOnce
  EventsShown
  InputInOrder
  WaitSeesEveryLine
  SuccessMeansDone
PROPERTIES
  CommandEnds
CHECK_DEADLOCK FALSE
