SPECIFICATION Spec
CONSTANTS
  BlockSize = 2
  Byte = {0, 1, 2, 3}
  MaxLen = 3
INVARIANTS WholeBodyDecrypts AcceptsOnlyPadded
CHECK_DEADLOCK FALSE
