SPECIFICATION Spec
CONSTANTS
  MaxObjects = 3
  MaxLines = 2
  Aligns = {2, 4, 16}
  CommSizes = {4, 6, 12}
  ZeroSizes = {4, 8}
INVARIANT
  LocationAfterZero
