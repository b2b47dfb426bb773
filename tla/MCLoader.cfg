SPECIFICATION FairSpec
CONSTANTS
  BufferWords = 5
  PageWords = 2
  SectionPages <- MCSectionPages
  FileWords <- MCFileWords
INVARIANTS
  TypeOK
  StartedMeansLoaded
PROPERTIES
  WrittenOnce
  EndsLoadedOrNot
CHECK_DEADLOCK FALSE
