SPECIFICATION Spec
CONSTANTS
  N = 16
  Sizes = {4, 10}
  CopySize = 8
  MaxHead = 32
INVARIANT CopyFits
CHECK_DEADLOCK FALSE
