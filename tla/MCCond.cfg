SPECIFICATION FairSpec
CONSTANT Half = 4
INVARIANTS
  TypeOK
  CombineKeepsMeaning
  ConditionKept
PROPERTY
  CombinerStops
CHECK_DEADLOCK FALSE
