\* Sizes of at least an element, and a word wide enough for every growth.
CONSTANTS
  a = a
  b = b
  v1 = v1
  z = z
  Zero = z
  Lists <- MCLists
  Val <- MCVal
  InitSizes <- MCInitSizes
  ElemSize = 2
  MaxLen = 4
  UnusedIdx = FALSE
  U32 = 1024

SPECIFICATION Spec
CHECK_DEADLOCK FALSE

INVARIANTS
  TypeOK
  SpareZeroTail
  FaultOnlyInSelfMerge
  MergeAppends

PROPERTIES
  MultisetSpec
