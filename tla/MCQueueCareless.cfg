\* A client that tests neither data nor queue_empty, and a word that two
\* growths reach the end of.
CONSTANTS
  v1 = v1
  v2 = v2
  z = z
  Zero = z
  Val <- MCVal
  InitSizes <- MCInitSizes
  MaxLen = 5
  Careful = FALSE
  U32 = 48

SPECIFICATION Spec
CHECK_DEADLOCK FALSE

INVARIANTS
  FaultHasCause
