SPECIFICATION Spec
CONSTANTS
  ready = ready  load = load  other = other
  empty = empty  ff = ff  ffff = ffff  c1 = c1  d1 = d1
  Ready = ready
  LoadBit = load
  OtherBit = other
  Answers <- MCAnswers
  Lines <- MCLines
  Empty = empty
  DebugLine = ff
  DriverLine = ffff
  Timeout = 2
  MaxSent = 2
CHECK_DEADLOCK FALSE
INVARIANTS TypeOK AnswerIsOwn
PROPERTIES GivesUpUnanswered DriverEnds
