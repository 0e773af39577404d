\* The client also creates a list with an init_size of 0.
CONSTANTS
  a = a
  b = b
  v1 = v1
  z = z
  Zero = z
  Lists <- MCLists
  Val <- MCVal
  InitSizes <- MCSmallSizes
  ElemSize = 2
  MaxLen = 3
  UnusedIdx = FALSE
  U32 = 1024

SPECIFICATION Spec
CHECK_DEADLOCK FALSE

INVARIANTS
  AddStaysInBuffer
