SPECIFICATION Spec
CONSTANTS
  main = main  work = work  leaf = leaf  ihbody = ihbody  ih = ih
  r0 = r0  r1 = r1   r10 = r10  flags = flags
  Funcs <- MCFuncs
  Main = main
  IhBody = ihbody
  Ih = ih
  Regs <- MCRegs
  FP = r0
  Scratch = r10
  Flags = flags
  CalleeSaved <- MCCalleeSaved
  Saved <- MCSaved
  Objects <- MCObjects
  Offset <- MCOffset
  StackSize <- MCStackSize
  StackArgs <- MCStackArgs
  Calls <- MCCalls
  Returning = {work, leaf, ihbody}
  Dynamic = {main}
  AllocaSize = 8
  StackTop = 96
  MaxDepth = 5
CHECK_DEADLOCK FALSE
INVARIANTS TypeOK CalleeSavedRestored InterruptTransparent ObjectsKept ArgumentsArrive
VIEW MCView
