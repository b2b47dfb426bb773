SPECIFICATION FairSpec
CONSTANTS
  QSize = 2
  FifoDepth = 2
  NLines = 1
  HostWords <- MCHostWords
  LineWord <- MCLineWord
  EmptySlot <- MCEmptySlot
  NoJob = NoJob
INVARIANTS
  TypeOK
  RingBounded
  JobIsOneCommand
  FifoReadHasData
PROPERTIES
  ImplementsCommandFifo
  FifoServed
  LineServed
  WorkUnderTraffic
