SPECIFICATION Spec
CONSTANT Half = 4
INVARIANT
  ExtremeBranchKept
CHECK_DEADLOCK FALSE
