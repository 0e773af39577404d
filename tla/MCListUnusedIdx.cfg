\* The client also passes end_idx to list_remove.
CONSTANTS
  a = a
  b = b
  v1 = v1
  z = z
  Zero = z
  Lists <- MCLists
  Val <- MCVal
  InitSizes <- MCInitSizes
  ElemSize = 2
  MaxLen = 3
  UnusedIdx = TRUE
  U32 = 1024

SPECIFICATION Spec
CHECK_DEADLOCK FALSE

PROPERTIES
  RemoveUnusedKeeps
