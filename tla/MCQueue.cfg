\* A careful client and a word wide enough for every size it can reach.
CONSTANTS
  v1 = v1
  v2 = v2
  z = z
  Zero = z
  Val <- MCVal
  InitSizes <- MCInitSizes
  MaxLen = 5
  Careful = TRUE
  U32 = 1024

SPECIFICATION Spec
CHECK_DEADLOCK FALSE

INVARIANTS
  TypeOK
  FaultOnlyInContains
  Shape
  DropOnlyWhenFull
  BoundedMemory

PROPERTIES
  FifoSpec
  ContainsComplete
