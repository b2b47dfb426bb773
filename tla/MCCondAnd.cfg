SPECIFICATION Spec
CONSTANT Half = 4
INVARIANT
  AndCarryIsNotZero
CHECK_DEADLOCK FALSE
