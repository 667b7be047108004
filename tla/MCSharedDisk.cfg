CONSTANTS
  Callers = {c1, c2}
  NInodes = 3
  NBlocks = 3
SPECIFICATION Spec
PROPERTY ModifyChangesItsPart
CHECK_DEADLOCK FALSE
